------------------------------- MODULE Groups -------------------------------
(***************************************************************************)
(* Groups and their members: GroupStore, the operations of the session     *)
(* manager on it, and the agent tool, slash commands and dashboard routes  *)
(* that call those.  Every process of the user works on the same tables.   *)
(* A call is one statement, except those that read first and write later:  *)
(* adding a member, and renaming.                                          *)
(***************************************************************************)
EXTENDS Schema, FiniteSets

CONSTANTS
  Group, Name,      \* ids new groups may get, normalised names
  Agent, AgentOf,   \* agents, the agent of each process
  Alone,            \* processes with exactly one session
  MaxRevision,      \* bound on the renames of a group
  Nobody            \* owner of a group that is not there

ASSUME GroupsAssumption ==
  /\ AgentOf \in [Process -> Agent]
  /\ Alone \subseteq Process
  /\ MaxRevision \in Nat
  /\ Nobody \notin Agent
  /\ Group # {} /\ Name # {} /\ Agent # {}

VARIABLES
  owner, name,      \* rows of groups
  revision,         \* groups.revision
  members,          \* rows of group_members
  issued,           \* history: ids given to groups so far
  call              \* per process: its call between a read and a write

rowVars == <<owner, name, revision, members, issued>>
vars == <<schemaVars, rowVars, call>>

There(g) == owner[g] # Nobody
NamesOf(G) == {name[g] : g \in {h \in G : There(h)}}

(* A call remembers its arguments; a rename also what its caller had seen. *)
Calls == [op : {"idle", "add", "rename"}, group : Group, agent : Agent,
          revision : 0 .. MaxRevision, name : Name]

Idle == [op |-> "idle", group |-> CHOOSE g \in Group : TRUE,
         agent |-> CHOOSE a \in Agent : TRUE,
         revision |-> 0, name |-> CHOOSE n \in Name : TRUE]

TypeOK ==
  /\ SchemaTypeOK
  /\ owner \in [Group -> Agent \cup {Nobody}]
  /\ name \in [Group -> Name]
  /\ revision \in [Group -> 0 .. MaxRevision]
  /\ members \subseteq Group \X Agent
  /\ issued \subseteq Group
  /\ \A g \in Group : There(g) => g \in issued
  /\ call \in [Process -> Calls]

Init ==
  /\ SchemaInit
  /\ owner = [g \in Group |-> Nobody]
  /\ name = [g \in Group |-> Idle.name]
  /\ revision = [g \in Group |-> 0]
  /\ members = {}
  /\ issued = {}
  /\ call = [p \in Process |-> Idle]

----------------------------------------------------------------------------
(* GroupStore, statement by statement.                                     *)

(* Ids are fresh, and names are unique among the groups there are.  A name *)
(* that is taken raises and leaves a transaction open: module Requests.    *)
CreateGroup(a, n) ==
  /\ n \notin NamesOf(Group)
  /\ \E g \in Group \ issued :
       /\ owner' = [owner EXCEPT ![g] = a]
       /\ name' = [name EXCEPT ![g] = n]
       /\ issued' = issued \cup {g}
  /\ UNCHANGED <<revision, members>>

(* The owner fence; the members go where their rows reference the group,   *)
(* and stay behind in a file that was migrated.                            *)
DeleteGroup(a, g) ==
  /\ owner[g] = a
  /\ owner' = [owner EXCEPT ![g] = Nobody]
  /\ members' = IF cascade THEN {m \in members : m[1] # g} ELSE members
  /\ UNCHANGED <<name, revision, issued>>

(* Faulty variant: the UPDATE does not compare the revision.               *)
RenameBlindly(g, n, seen) ==
  /\ IF There(g) /\ n \notin NamesOf(Group \ {g}) /\ revision[g] < MaxRevision
       THEN /\ name' = [name EXCEPT ![g] = n]
            /\ revision' = [revision EXCEPT ![g] = @ + 1]
       ELSE UNCHANGED <<name, revision>>
  /\ UNCHANGED <<owner, members, issued>>

(* One UPDATE ... WHERE revision = expected; without a match nothing       *)
(* happens and the caller is told.                                         *)
RenameGroup(g, n, seen) ==
  /\ IF There(g) /\ revision[g] = seen /\ n \notin NamesOf(Group \ {g}) /\ revision[g] < MaxRevision
       THEN /\ name' = [name EXCEPT ![g] = n]
            /\ revision' = [revision EXCEPT ![g] = @ + 1]
       ELSE UNCHANGED <<name, revision>>
  /\ UNCHANGED <<owner, members, issued>>

(* Faulty variant: foreign keys are not enforced (the PRAGMA is missing).  *)
InsertAnyway(g, a) ==
  /\ members' = members \cup {<<g, a>>}
  /\ UNCHANGED <<owner, name, revision, issued>>

(* INSERT OR IGNORE: a reference to a group that went raises, and a file   *)
(* without the reference takes the row.  Nobody asks who owns the group or *)
(* how many members it has.                                                *)
InsertMember(g, a) ==
  /\ members' = IF cascade /\ ~ There(g) THEN members ELSE members \cup {<<g, a>>}
  /\ UNCHANGED <<owner, name, revision, issued>>

DeleteMember(g, a) ==
  /\ <<g, a>> \in members
  /\ members' = members \ {<<g, a>>}
  /\ UNCHANGED <<owner, name, revision, issued>>

----------------------------------------------------------------------------
(* The session manager: who calls, and with which agent.                   *)
Free(p) == store[p] = "open" /\ call[p].op = "idle"

Begin(p, c) ==
  /\ Free(p)
  /\ call' = [call EXCEPT ![p] = c]
  /\ UNCHANGED <<schemaVars, rowVars>>

Finish(p, what) ==
  /\ call[p].op = what
  /\ call' = [call EXCEPT ![p] = Idle]
  /\ UNCHANGED schemaVars

group_create(p, n) ==
  Free(p) /\ CreateGroup(AgentOf[p], n) /\ UNCHANGED <<schemaVars, call>>

group_delete(p, g) ==
  Free(p) /\ DeleteGroup(AgentOf[p], g) /\ UNCHANGED <<schemaVars, call>>

(* The SELECT of add_member.                                               *)
group_add_member(p, g, a) ==
  There(g) /\ Begin(p, [Idle EXCEPT !.op = "add", !.group = g, !.agent = a])

AddMember(p) == Finish(p, "add") /\ InsertMember(call[p].group, call[p].agent)

group_remove_member(p, g, a) ==
  Free(p) /\ DeleteMember(g, a) /\ UNCHANGED <<schemaVars, call>>

(* get_group, some time before rename_group.                               *)
ReadGroup(p, g) ==
  There(g) /\ Begin(p, [Idle EXCEPT !.op = "rename", !.group = g,
                                    !.revision = revision[g], !.name = name[g]])

Rename(p) ==
  /\ Finish(p, "rename")
  /\ \E n \in Name : RenameGroup(call[p].group, n, call[p].revision)

----------------------------------------------------------------------------
(* The ways in.  A menu, an earlier answer or a caller's notes may hold    *)
(* any id that was ever given out, its group there or not.                 *)
Known == issued

peer_group_manage(p) ==
  \/ \E n \in Name : group_create(p, n)
  \/ \E g \in Known, a \in Agent : group_add_member(p, g, a) \/ group_remove_member(p, g, a)
  \/ \E g \in Known : group_delete(p, g)

(* Menus have no entry that removes a member.                              *)
cmd_peer_groups(p) ==
  \/ \E n \in Name : group_create(p, n)
  \/ \E g \in Known, a \in Agent : group_add_member(p, g, a)
  \/ \E g \in Known : group_delete(p, g)

cmd_peer_group(p) ==
  \/ \E n \in Name : group_create(p, n)
  \/ \E g \in Known, a \in Agent : group_add_member(p, g, a) \/ group_remove_member(p, g, a)
  \/ \E g \in Known : group_delete(p, g)

(* The dashboard names no session: the process must have exactly one for a *)
(* group to have an owner.                                                 *)
DashboardRoutes(p) ==
  \/ p \in Alone /\ \E n \in Name : group_create(p, n)
  \/ \E g \in Known, a \in Agent : group_add_member(p, g, a)

Act(p) ==
  \/ peer_group_manage(p) \/ cmd_peer_groups(p) \/ cmd_peer_group(p) \/ DashboardRoutes(p)
  \/ \E g \in Group : ReadGroup(p, g)
  \/ AddMember(p) \/ Rename(p)

Starting(p) == Migrate(p) /\ UNCHANGED <<rowVars, call>>

(* A process that dies forgets its call.                                   *)
Crash(p) == Die(p) /\ call' = [call EXCEPT ![p] = Idle] /\ UNCHANGED rowVars

Next == \E p \in Process : Starting(p) \/ Act(p) \/ Crash(p)

Spec == Init /\ [][Next]_vars
FairSpec == Spec /\ \A p \in Process : WF_vars(Starting(p))

----------------------------------------------------------------------------
(* In a file created by this release no member row outlives its group,     *)
(* even when one process deletes the group between the SELECT and the      *)
(* INSERT of another (group_members' reference, PRAGMA foreign_keys).      *)
NoOrphans == cascade => \A m \in members : There(m[1])

(* Whoever renames a group has seen the name that is replaced: of renames  *)
(* that overlap, in whatever processes, one succeeds (rename_group).       *)
RenamesSeeLatest ==
  [][\A g \in Group : name'[g] # name[g] /\ There(g)
       => \E p \in Process : call[p].op = "rename" /\ call'[p].op = "idle"
                               /\ call[p].group = g /\ call[p].name = name[g]]_vars

(* A process that is started again and again gets its store, whoever dies  *)
(* and whoever migrates at the same time, unless the file is stuck between *)
(* version 1 and 2 (MessageStore._migrate).                                *)
OpensUnlessStuck == \A p \in Process : []<>(store[p] = "open" \/ Stuck)
=============================================================================
