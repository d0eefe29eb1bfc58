------------------------------ MODULE Identity ------------------------------
(***************************************************************************)
(* The two small files that several processes keep: the agent id of a      *)
(* profile (load_or_create_agent_id) and the aliases of a user's peers     *)
(* (AliasStore).  Both are rewritten through a temporary file of a fixed   *)
(* name, opened with truncation and renamed over the old one, and nothing  *)
(* keeps two processes from doing so at once.  A file is the set of its    *)
(* entries; one that is absent, empty or cannot be parsed has none, which  *)
(* is how both readers take it.                                            *)
(***************************************************************************)
EXTENDS Naturals, FiniteSets

CONSTANTS
  User,             \* processes that use the files
  PeerId, Alias,    \* peers with an alias, the aliases
  Inode,            \* files that may exist at once, under a name or open:
                    \* as many as there are names, and one for each user
  MaxDeaths,        \* bound on the processes that die
  Nothing           \* no file, no identity

ASSUME IdentityAssumption ==
  /\ Nothing \notin Inode \cup User
  /\ IsFiniteSet(User) /\ IsFiniteSet(Inode)
  /\ Cardinality(Inode) >= Cardinality(User) + 4
  /\ MaxDeaths \in Nat

VARIABLES
  path, tmp,        \* inode of each name of each file
  data,             \* entries in each inode
  step,             \* per process: "idle", or where it is in a rewrite
  job,              \* per process: the file it rewrites, with what, its inode
  mine,             \* per process: _agent_id_cache
  deaths,           \* processes that died
  kept,             \* history: entries whose writer, or a reader, was told
  raced             \* history: files that two processes rewrote at once

identityVars == <<path, tmp, data, step, job, mine, deaths, kept, raced>>

File == {"agent_id", "aliases"}

(* A process mints an id of its own each time; one per process will do,    *)
(* since the property asks only whether two processes differ.              *)
Entry == ({"agent"} \X User) \cup (PeerId \X Alias)

IdentityTypeOK ==
  /\ path \in [File -> Inode \cup {Nothing}]
  /\ tmp \in [File -> Inode \cup {Nothing}]
  /\ data \in [Inode -> SUBSET Entry]
  /\ step \in [User -> {"idle", "loaded", "opened", "written"}]
  /\ job \in [User -> [file : File, entries : SUBSET Entry, inode : Inode \cup {Nothing}]]
  /\ mine \in [User -> User \cup {Nothing}]
  /\ deaths \in 0 .. MaxDeaths
  /\ kept \in [File -> SUBSET Entry]
  /\ raced \subseteq File

NoJob == [file |-> "agent_id", entries |-> {}, inode |-> Nothing]

IdentityInit ==
  /\ path = [f \in File |-> Nothing]
  /\ tmp = [f \in File |-> Nothing]
  /\ data = [i \in Inode |-> {}]
  /\ step = [u \in User |-> "idle"]
  /\ job = [u \in User |-> NoJob]
  /\ mine = [u \in User |-> Nothing]
  /\ deaths = 0
  /\ kept = [f \in File |-> {}]
  /\ raced = {}

----------------------------------------------------------------------------
In(f) == IF path[f] = Nothing THEN {} ELSE data[path[f]]

Rewriting(f) == {u \in User : step[u] # "idle" /\ job[u].file = f}

Named == {path[f] : f \in File} \cup {tmp[f] : f \in File}
Opened(u) == {job[v].inode : v \in User \ {u}}
Fresh == CHOOSE i \in Inode : i \notin Named \cup {job[u].inode : u \in User}

(* The entries es override those of the same key.                          *)
With(old, es) == {e \in old : \A n \in es : n[1] # e[1]} \cup es

Begin(u, f, es) ==
  /\ step' = [step EXCEPT ![u] = "loaded"]
  /\ job' = [job EXCEPT ![u] = [file |-> f, entries |-> es, inode |-> Nothing]]
  /\ raced' = IF Rewriting(f) = {} THEN raced ELSE raced \cup {f}

Tell(f, es) == kept' = [kept EXCEPT ![f] = With(@, es)]

(* _agent_id: the stored id, or a fresh one if there is none.              *)
LoadAgentId(u) ==
  /\ step[u] = "idle" /\ mine[u] = Nothing
  /\ \/ In("agent_id") = {}
        /\ Begin(u, "agent_id", {<<"agent", u>>}) /\ UNCHANGED <<mine, kept>>
     \/ \E e \in In("agent_id") :
          /\ mine' = [mine EXCEPT ![u] = e[2]]
          /\ Tell("agent_id", {e})
          /\ UNCHANGED <<step, job, raced>>
  /\ UNCHANGED <<path, tmp, data, deaths>>

(* set_alias loads all aliases and changes one of them.                    *)
SetAlias(u) ==
  /\ step[u] = "idle" /\ mine[u] # Nothing
  /\ \E q \in PeerId, n \in Alias : Begin(u, "aliases", With(In("aliases"), {<<q, n>>}))
  /\ UNCHANGED <<path, tmp, data, mine, deaths, kept>>

(* Faulty variant: the file itself is opened for writing.                  *)
OpenInPlace(u) ==
  /\ step[u] = "loaded"
  /\ LET f == job[u].file IN
     LET i == IF path[f] = Nothing THEN Fresh ELSE path[f] IN
       /\ tmp' = [tmp EXCEPT ![f] = i]
       /\ data' = [data EXCEPT ![i] = {}]
       /\ job' = [job EXCEPT ![u].inode = i]
  /\ step' = [step EXCEPT ![u] = "opened"]
  /\ UNCHANGED <<path, mine, deaths, kept, raced>>

(* O_CREAT | O_TRUNC on the temporary name: an inode that another process  *)
(* has just written is emptied under its hands.                            *)
OpenTemporary(u) ==
  /\ step[u] = "loaded"
  /\ LET f == job[u].file IN
     LET i == IF tmp[f] = Nothing THEN Fresh ELSE tmp[f] IN
       /\ tmp' = [tmp EXCEPT ![f] = i]
       /\ data' = [data EXCEPT ![i] = {}]
       /\ job' = [job EXCEPT ![u].inode = i]
  /\ step' = [step EXCEPT ![u] = "opened"]
  /\ UNCHANGED <<path, mine, deaths, kept, raced>>

(* The write goes to the inode that was opened, whatever its name is now.  *)
WriteTemporary(u) ==
  /\ step[u] = "opened"
  /\ data' = [data EXCEPT ![job[u].inode] = job[u].entries]
  /\ step' = [step EXCEPT ![u] = "written"]
  /\ UNCHANGED <<path, tmp, job, mine, deaths, kept, raced>>

EndJob(u) ==
  /\ step' = [step EXCEPT ![u] = "idle"]
  /\ job' = [job EXCEPT ![u] = NoJob]

(* An inode that loses its name is gone unless another process has it open.*)
Without(i, u) ==
  IF i = Nothing \/ i \in Opened(u) THEN data ELSE [data EXCEPT ![i] = {}]

(* os.replace renames what the temporary name is now.                      *)
Replace(u) ==
  /\ step[u] = "written"
  /\ LET f == job[u].file IN
       /\ tmp[f] # Nothing
       /\ path' = [path EXCEPT ![f] = tmp[f]]
       /\ data' = Without(path[f], u)
       /\ tmp' = [tmp EXCEPT ![f] = Nothing]
       /\ Tell(f, job[u].entries)
       /\ mine' = IF f = "agent_id" THEN [mine EXCEPT ![u] = u] ELSE mine
  /\ EndJob(u)
  /\ UNCHANGED <<deaths, raced>>

(* The temporary file is gone: FileNotFoundError leaves the hook.          *)
ReplaceFails(u) ==
  /\ step[u] = "written" /\ tmp[job[u].file] = Nothing
  /\ EndJob(u)
  /\ UNCHANGED <<path, tmp, data, mine, deaths, kept, raced>>

Perish(u) ==
  /\ deaths < MaxDeaths
  /\ step[u] # "idle" \/ mine[u] # Nothing
  /\ EndJob(u)
  /\ mine' = [mine EXCEPT ![u] = Nothing]
  /\ deaths' = deaths + 1
  /\ UNCHANGED <<path, tmp, data, kept, raced>>

Rewrite(u) ==
  LoadAgentId(u) \/ OpenTemporary(u) \/ WriteTemporary(u) \/ Replace(u) \/ ReplaceFails(u)

IdentityNext == \E u \in User : Rewrite(u) \/ SetAlias(u) \/ Perish(u)

IdentitySpec == IdentityInit /\ [][IdentityNext]_identityVars

----------------------------------------------------------------------------
(* What a process was told is kept: unless two processes rewrote the file  *)
(* at once, the identity a process runs with, and every alias that was     *)
(* set, is in the file, although writers may die anywhere in between       *)
(* (load_or_create_agent_id, AliasStore.set_alias).                        *)
KeptUnlessRaced ==
  /\ \A f \in File \ raced : kept[f] \subseteq In(f)
  /\ "agent_id" \in raced
     \/ \A u \in User : mine[u] # Nothing => In("agent_id") = {<<"agent", mine[u]>>}
=============================================================================
