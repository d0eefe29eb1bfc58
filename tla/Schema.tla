------------------------------- MODULE Schema -------------------------------
(***************************************************************************)
(* The SQLite file that the processes of a user share, as                  *)
(* MessageStore.__init__ opens it: every process that starts reads the     *)
(* schema version and brings the file up to date.  Each CREATE and ALTER   *)
(* commits by itself, since Python's sqlite3 opens a transaction for       *)
(* writes of rows only; the version row is written last.  Nothing but that *)
(* row tells a process what is left to do.                                 *)
(***************************************************************************)
EXTENDS Naturals, Sequences

CONSTANTS
  Process,          \* processes that open the file
  Start,            \* schema versions the file may have at first; 0: no file
  MaxCrashes        \* bound on the processes that die

ASSUME SchemaAssumption ==
  /\ Start \subseteq 0 .. 4
  /\ MaxCrashes \in Nat

VARIABLES
  version,          \* schema_version.version, 0 while there is no row
  objects,          \* tables there are, and the column added to one of them
  cascade,          \* TRUE if group_members references groups
  store,            \* per process: its MessageStore
  todo,             \* per process: statements still to run
  crashes           \* processes that died

schemaVars == <<version, objects, cascade, store, todo, crashes>>

Latest == 4

(* messages.protocol counts as an object: version 2 adds it by ALTER.      *)
Object == {"messages", "protocol", "groups", "members", "broadcasts", "requests"}

(* What a statement leaves behind.  Only the full schema declares the      *)
(* reference from group_members to groups.                                 *)
Makes == [messages   |-> {"messages", "protocol"},
          protocol   |-> {"protocol"},
          groups     |-> {"groups"},
          keyed      |-> {"members"},
          members    |-> {"members"},
          broadcasts |-> {"broadcasts"},
          requests   |-> {"requests"}]

FullSchema == <<"messages", "groups", "keyed", "broadcasts", "requests">>

Migration == << <<>>, <<"protocol">>, <<"groups", "members", "broadcasts">>, <<"requests">> >>

Statements(v) ==
  CASE v = 0 -> FullSchema
    [] v = 1 -> Migration[2] \o Migration[3] \o Migration[4]
    [] v = 2 -> Migration[3] \o Migration[4]
    [] v = 3 -> Migration[4]
    [] OTHER -> <<>>

(* What the release that wrote version v left in the file.                 *)
Left(v) ==
  CASE v = 0 -> {}
    [] v = 1 -> {"messages"}
    [] v = 2 -> {"messages", "protocol"}
    [] v = 3 -> Object \ {"requests"}
    [] OTHER -> Object

SchemaTypeOK ==
  /\ version \in 0 .. Latest
  /\ objects \subseteq Object
  /\ cascade \in BOOLEAN
  /\ store \in [Process -> {"closed", "migrating", "open", "failed"}]
  /\ todo \in [Process -> Seq(DOMAIN Makes)]
  /\ crashes \in 0 .. MaxCrashes

SchemaInit ==
  /\ version \in Start
  /\ objects = Left(version)
  /\ cascade \in {c \in BOOLEAN : c => version = Latest}   \* migrated files have no reference
  /\ store = [p \in Process |-> "closed"]
  /\ todo = [p \in Process |-> <<>>]
  /\ crashes = 0

----------------------------------------------------------------------------
(* The version is read once.  A file without a version row gets the full   *)
(* schema, any other the migrations above its version.                     *)
Open(p) ==
  /\ store[p] \in {"closed", "failed"}
  /\ todo' = [todo EXCEPT ![p] = Statements(version)]
  /\ store' = [store EXCEPT ![p] = IF version = Latest THEN "open" ELSE "migrating"]
  /\ UNCHANGED <<version, objects, cascade, crashes>>

Running(p) == store[p] = "migrating" /\ todo[p] # <<>>

(* CREATE TABLE IF NOT EXISTS: nothing happens when another was faster.    *)
CreateTable(p) ==
  /\ Running(p) /\ Head(todo[p]) # "protocol"
  /\ LET s == Head(todo[p]) IN
       IF Makes[s] \cap objects = {}
         THEN /\ objects' = objects \cup Makes[s]
              /\ cascade' = IF s = "keyed" THEN TRUE ELSE cascade
         ELSE UNCHANGED <<objects, cascade>>
  /\ todo' = [todo EXCEPT ![p] = Tail(@)]
  /\ UNCHANGED <<version, store, crashes>>

(* Faulty variant: a column that is there already is tried again.          *)
AddColumnAgain(p) ==
  /\ Running(p) /\ Head(todo[p]) = "protocol"
  /\ IF "protocol" \in objects
       THEN UNCHANGED <<objects, todo>>
       ELSE /\ objects' = objects \cup {"protocol"}
            /\ todo' = [todo EXCEPT ![p] = Tail(@)]
  /\ UNCHANGED <<version, cascade, store, crashes>>

(* ALTER TABLE ADD COLUMN has no such clause: the second one raises out of *)
(* the constructor.                                                        *)
AddColumn(p) ==
  /\ Running(p) /\ Head(todo[p]) = "protocol"
  /\ IF "protocol" \in objects
       THEN /\ store' = [store EXCEPT ![p] = "failed"]
            /\ todo' = [todo EXCEPT ![p] = <<>>]
            /\ UNCHANGED objects
       ELSE /\ objects' = objects \cup {"protocol"}
            /\ todo' = [todo EXCEPT ![p] = Tail(@)]
            /\ UNCHANGED store
  /\ UNCHANGED <<version, cascade, crashes>>

(* Faulty variant: the version row is written before the statements run.   *)
StampFirst(p) ==
  /\ store[p] = "migrating"
  /\ version' = Latest
  /\ store' = [store EXCEPT ![p] = "open"]
  /\ UNCHANGED <<objects, cascade, todo, crashes>>

(* DELETE and INSERT of the version row, in one transaction.               *)
Stamp(p) ==
  /\ store[p] = "migrating" /\ todo[p] = <<>>
  /\ version' = Latest
  /\ store' = [store EXCEPT ![p] = "open"]
  /\ UNCHANGED <<objects, cascade, todo, crashes>>

(* The process dies: what it committed stays.                              *)
Die(p) ==
  /\ store[p] # "closed" /\ crashes < MaxCrashes
  /\ store' = [store EXCEPT ![p] = "closed"]
  /\ todo' = [todo EXCEPT ![p] = <<>>]
  /\ crashes' = crashes + 1
  /\ UNCHANGED <<version, objects, cascade>>

Migrate(p) == Open(p) \/ CreateTable(p) \/ AddColumn(p) \/ Stamp(p)

----------------------------------------------------------------------------
(* A file half way from version 1 that nobody is bringing further.         *)
Stuck ==
  /\ version = 1 /\ "protocol" \in objects
  /\ \A p \in Process : store[p] = "migrating" => Running(p) /\ Head(todo[p]) = "protocol"

(* A process works on a file only when the schema is complete: whatever    *)
(* version the file had, whoever migrated it at the same time and whoever  *)
(* died over it (MessageStore._migrate).                                   *)
OpenMeansCurrent ==
  \A p \in Process : store[p] = "open" => version = Latest /\ objects = Object
=============================================================================
