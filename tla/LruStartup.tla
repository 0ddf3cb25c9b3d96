----------------------------- MODULE LruStartup -----------------------------
(***************************************************************************)
(* How a program comes by the database the manager of LruSqlite works on:  *)
(* open() and the constructor of SQLiteLRU (db_sqlite_lru.h), and the meta *)
(* row main() inserts when is_new (algo_lru_sqlite_test.cpp).  File,       *)
(* tables, index and row come by one autocommitted statement each, and     *)
(* is_new only says whether the file was there.                            *)
(*                                                                         *)
(* An exception out of any of this ends the program.  Without its row the  *)
(* meta data read as zeros, and `disk' is ZeroMeta.                        *)
(***************************************************************************)
EXTENDS LruSqlite

VARIABLES
  db,      \* what there is of the database
  spc,     \* the program: "down", in one of the statements below, or "ready"
  is_new

start == <<db, spc, is_new>>
startVars == <<vars, start>>

NoDb == [file |-> FALSE, cache |-> FALSE, meta |-> FALSE, index |-> FALSE, row |-> FALSE]
FullDb == [file |-> TRUE, cache |-> TRUE, meta |-> TRUE, index |-> TRUE, row |-> TRUE]

StartInit == /\ rows = {} /\ size = [k \in Keys |-> 0] /\ sequence = [k \in Keys |-> 0]
             /\ disk = ZeroMeta /\ meta = ZeroMeta /\ pc = "down" /\ op = NoOp /\ removed = {}
             /\ files = {} /\ unsaved = {} /\ faults = 0
             /\ db = NoDb /\ spc = "down" /\ is_new = FALSE

-----------------------------------------------------------------------------
Goes(from, to) == spc = from /\ spc' = to

\* Mutant: open() first, then see whether the file is there.
OpenThenLook == /\ Goes("down", "check_cache") /\ is_new' = FALSE
                /\ db' = [db EXCEPT !.file = TRUE] /\ UNCHANGED vars

\* open() creates the file if it is not there.
Open == /\ Goes("down", IF db.file THEN "check_cache" ELSE "create_cache") /\ is_new' = ~db.file
        /\ db' = [db EXCEPT !.file = TRUE] /\ UNCHANGED vars

CreateCache == /\ Goes("create_cache", "create_meta")
               /\ db' = [db EXCEPT !.cache = TRUE] /\ UNCHANGED <<is_new, vars>>

CreateMeta == /\ Goes("create_meta", "index")
              /\ db' = [db EXCEPT !.meta = TRUE] /\ UNCHANGED <<is_new, vars>>

\* SQL_CHECK_LRU and SQL_CHECK_METALRU succeed whether or not they find a
\* table; nobody looks at what they found.
Check == /\ Goes("check_cache", "index") /\ UNCHANGED <<db, is_new, vars>>

\* Mutant: the meta row is inserted whether is_new or not.
CreateIndexThenInsert == /\ db.cache /\ Goes("index", "insert_meta")
                         /\ db' = [db EXCEPT !.index = TRUE] /\ UNCHANGED <<is_new, vars>>

\* The index needs cacheLRU, and only that.
CreateIndex == /\ db.cache /\ Goes("index", IF is_new THEN "insert_meta" ELSE "ready")
               /\ db' = [db EXCEPT !.index = TRUE] /\ UNCHANGED <<is_new, vars>>

NoCacheTable == /\ ~db.cache /\ Goes("index", "down") /\ UNCHANGED <<db, is_new, vars>>

InsertMeta(max) ==
  /\ Goes("insert_meta", "ready") /\ db' = [db EXCEPT !.row = TRUE]
  /\ disk' = [cache_size |-> 0, max_size |-> max, sequence |-> 0]
  /\ UNCHANGED <<is_new, rows, size, sequence, meta, pc, op, removed, files, unsaved, faults>>

\* A crash, or a statement that fails; what was created stays.
StartFails == /\ spc \notin {"down", "ready"} /\ Fault /\ spc' = "down"
              /\ UNCHANGED <<db, is_new, rows, size, sequence, disk, meta, pc, op, removed, files, unsaved>>

\* init() cannot read a table that is not there; nor can the destructor write it.
NoMetaTable == /\ spc = "ready" /\ pc = "new" /\ ~db.meta /\ spc' = "down"
               /\ Stop /\ UNCHANGED <<db, is_new, disk, unsaved, faults>>

\* The manager at work.  When it is gone so is the program.
Serves == /\ spc = "ready" /\ (pc = "new" => db.meta) /\ Next
          /\ spc' = (IF pc' = "down" THEN "down" ELSE "ready") /\ UNCHANGED <<db, is_new>>

-----------------------------------------------------------------------------
Boots == \/ CreateCache \/ CreateMeta \/ Check \/ CreateIndex \/ NoCacheTable
         \/ \E max \in Limits : InsertMeta(max)

StartNext == Open \/ Boots \/ StartFails \/ NoMetaTable \/ Serves

Works == spc = "ready" /\ Continue /\ Serves

\* A program that was started gets on with it, and so does a call.
StartSpec == StartInit /\ [][StartNext]_startVars /\ WF_startVars(Works) /\ WF_startVars(Boots)

-----------------------------------------------------------------------------
(* Properties.                                                             *)

\* Whatever is left of a start that failed at some point, a manager is never
\* at work on it: file, tables, index and meta row are all there when init()
\* has returned (db_sqlite_lru.h:36-46, algo_lru_sqlite.cpp:15-34).
ServesOnlyComplete == Running => db = FullDb

\* A program whose starts and runs were never interrupted is never turned
\* away, neither by the index nor by init() (db_sqlite_lru.h:36-46,
\* algo_lru_sqlite_test.cpp:11-17).
StartsUnlessFault ==
  faults = 0 => /\ spc = "index" => db.cache
                /\ spc = "ready" /\ pc \in {"down", "new"} => db = FullDb /\ Accepts(disk)

\* A start that a fault cut short is never made good: is_new asks for the
\* file alone, so a file without its meta row stays without it, and every
\* later program is refused (sqlite_base.cpp:16-22, db_sqlite_lru.h:36-46).
CutShort == db.file /\ ~db.row /\ (spc = "down" \/ ~is_new)
CutShortForGood == [][CutShort => CutShort' /\ ~Running']_startVars
=============================================================================
