# A verification development for hermes-walkie-talkie

TLA+ modules for the peer-to-peer messaging plugin in this repository
(`agent_peer/`, the protocol and its stores, and `hermes_peer/`, its binding to
a Hermes host), the TLC configurations that model-check them, and theorems
about them whose proofs TLAPS checks.

Paths below are relative to the root of the repository.

## 1. The system

Every process of a profile that loads the plugin owns one or more **peers**, one
per conversation session. Peers publish a record in a directory of JSON files,
listen on a local socket (a named pipe on Windows), find each other through the
records, and exchange framed JSON messages. There is no broker. What the
processes of an operating-system user share, whatever their profiles, is the
registry directory, the alias file and one SQLite database; those of one profile
share the file with its agent id. What threads of a process share is the session
manager, the runtime and the connections to the database.

### 1.1 Components

| component | source | state it keeps | operations |
|---|---|---|---|
| Inbound pipeline | `hermes_peer/sessions.py:657-842`, `hermes_peer/delivery.py`, `agent_peer/policy.py` | row of the message, per-session policy, count registered in the engine | `_on_inbound`, `deliver`, `release_message`, `refuse_message`, `set_policy` |
| Message store | `agent_peer/store.py` | `messages` table, schema version | `claim`, `transition`, `get`, `count_pending`, `update_content`, migrations |
| Request workflow | `agent_peer/workflows.py` | none: a decision table | `transition`, `is_terminal` |
| Structured requests | `agent_peer/requests.py`, `hermes_peer/sessions.py:870-1040` | `requests`, `request_events`, the connection's transaction | `create`, `transition`, `expire_overdue`, enqueue and send, respond, cancel |
| Broadcast engine | `agent_peer/broadcast.py`, `hermes_peer/sessions.py:1121-1198` | `broadcasts`, `broadcast_children`, a thread pool | `create_broadcast`, `fan_out`, `_results` |
| Peer runtime and supervisor | `agent_peer/runtime.py` | peers, handlers, listeners, selector, one thread, stop event, one lock | `register_peer`, `unregister_peer`, `shutdown`, `_run_loop`, `send` |
| Session lifecycle | `hermes_peer/sessions.py:120-640` | `_peers`, presence managers, session keys | open, start, end, reset, finalize, heartbeat |
| Registry and presence | `agent_peer/registry.py`, `agent_peer/presence.py` | one JSON record per peer | publish, fenced update, remove, list, heartbeat |
| Discovery and stale repair | `agent_peer/discovery.py` | probe cache | `list_live_peers`, `resolve_peer`, `resolve_agent`, repair |
| Send path | `agent_peer/runtime.py:364-410`, `:730-764` | none | authenticate and stamp the sender, `send` |
| Groups | `agent_peer/groups.py` | `groups`, `group_members`, revision | create, rename, add, remove, delete |
| Rate limiter | `agent_peer/policy.py:44-71` | timestamps of a minute | `allow` |
| Frame codec | `agent_peer/codec.py` | bytes not yet consumed | `feed`, `encode` |
| Event broker, dashboard API | `agent_peer/events.py`, `dashboard/plugin_api.py` | bounded queues of subscribers, summary cache | publish, subscribe, summary |
| Identity and aliases | `agent_peer/agent_identity.py`, `agent_peer/identity.py` | JSON files | load, set, remove |
| Status surfaces | `hermes_peer/sessions.py:64-102`, `:526-620`, `agent_peer/health.py` | none | `summary`, health report |
| Version negotiation, capabilities | `agent_peer/protocol_v2.py`, `agent_peer/capabilities.py` | none | negotiate, check |
| Models, limits, errors, paths, process liveness, transports, metrics | the remaining modules of `agent_peer/` | none that a decision of another part reads | validation and system calls |
| Tools, commands, plugin, config | the remaining modules of `hermes_peer/` | none | ways into the session manager: whom they act for, parsing, text |
| Dashboard and desktop clients | `dashboard/src`, `desktop/src` | view state | polling and rendering |

### 1.2 How they interact

A sender's `runtime.send` connects to the recipient's socket. The recipient's
**supervisor** reads the frame, calls the peer's handler, and writes back the
receipt that the handler returned. The handler is the **inbound pipeline**: it
claims the message id in the store, asks the policy engine for a verdict and
hands the message to the host. Structured **requests** and **broadcasts** are
rows in the same database plus messages sent that way; the recipient's
`request_respond` works on the same row, from its own process. The session
manager registers and unregisters peers with the runtime as conversations come
and go.

A command of an agent, a user or the dashboard first becomes a session that acts
and a peer that is meant: by id, by name, by handle, or by agent, after probing
the peers that have a record. The envelope is made for the session's peer, and
`runtime.send` checks again that the sender is a peer of this process. What a
dashboard shows comes from summaries, which it polls for, and from a queue of
presence events per view.

### 1.3 What is hard

- *Threads*: the runtime has one lock, the stores have one lock each, held for
  one call; the session manager and the supervisor have none. Handlers,
  operators, heartbeats and host callbacks interleave between the calls.
- *Processes*: they share a SQLite file through connections with Python's
  implicit transactions, where a SELECT is outside the transaction the next
  UPDATE opens, a failed statement leaves its transaction, and nothing rolls back.
- *Failures*: a store call can raise at any point of the pipeline; a process can
  die between two commits; an answer can be late, and is then reported as an
  unreachable peer; a handler can outlast the join that waits for it.
- *Two pictures*: a summary probes first and reads the registry afterwards; a
  name is resolved by probes that may be late; a view asks again before it was
  answered.
- *Bytes*: chunks end anywhere, sockets take a part of a reply.
- *Files*: rewritten by rename under one temporary name, read, changed and
  written back without a lock between processes; migrated statement by statement.
- *Duplicates*: a retried message has its old id, or, from a broadcast, a new one.

### 1.4 What makes each part correct

- Inbound: an id is decided once and reaches the host at most once; a refusal or
  a drop is final; the inbox is bounded; receipts tell the truth.
- Requests: every change of state follows the table; an ended request stays
  ended; one request per key; the recipient never hears of a request it cannot
  yet answer.
- Broadcast: one thread fans out; rows precede messages; what a completed broadcast
  says a host answered is what it answered, for good; every fan-out ends.
- Supervisor: one thread, alive exactly while there are peers; records, handlers
  and listeners agree; messages get answers; the lock comes back.
- Sessions, registry, discovery: a published record leads to a peer that
  answers; a closed session leaves nothing behind; a repair never removes a
  record that was renewed.

- Shared file, groups: nobody works on half a schema; no member without a group;
  no rename that overwrites one its caller has not seen.
- Identity files: what a process was told stays true.
- Send path: a call reaches the peer that was meant, in the name of the session
  that asked, or fails.
- Bytes: replies are whole, in order, to the frames they answer, and all come.
- Rate limiter: no more than the limits, wherever the window starts.
- Status and views: a healthy session is shown as what it is; a view ends up
  showing what is the case, and never goes back to an older answer.

## 2. The modules

| module | models | kind |
|---|---|---|
| `Inbox` | what the inbound side promises about an id | abstract specification |
| `Inbound` | the pipeline, call by call | detailed, implements `Inbox` |
| `InboundProofs` | theorems about `Inbound` | proofs |
| `Workflow` | the decision table as a state machine | abstract specification |
| `Requests` | request store, connections, session operations | detailed, implements `Workflow` |
| `RequestsProofs` | theorems about `Requests` | proofs |
| `Broadcast` | fan-out, pool, sends, recipients | detailed |
| `BroadcastProofs` | theorems about `Broadcast` | proofs |
| `Supervisor` | runtime, supervisor threads, connections | detailed |
| `SupervisorProofs` | theorems about `Supervisor` | proofs |
| `Sessions` | hooks, maps, runtime and registry of one process | detailed, a part of `Discovery` |
| `Discovery` | `Sessions` with the stale repair of another process | composition |
| `DiscoveryProofs` | theorems about `Discovery` | proofs |
| `Schema` | opening and migrating the shared file | detailed, a part of `Groups` |
| `Groups` | `Schema` with groups, members, and who calls | composition |
| `GroupsProofs` | theorems about `Groups` | proofs |
| `Stream` | bytes, frames and replies of connections | detailed |
| `StreamProofs` | theorems about `Stream` | proofs |
| `Limiter` | the rate limiter | algorithm against its history |
| `Identity` | agent id and alias files | detailed |
| `Status` | heartbeats, probes, the summary | detailed |
| `Events` | the event broker and `/events` | detailed |
| `Feed` | the summary cache and the views | detailed |
| `Addressing` | from a command to a stamped message | detailed |
| `PartsProofs` | theorems about `Limiter`, `Identity`, `Status`, `Events`, `Feed`, `Addressing`, and the types of all parts together | proofs |
| `MCInbound`, `MCRequests`, `MCBroadcast`, `MCSupervisor`, `MCDiscovery`, `MCGroups`, `MCParts` | small instances | model values, symmetry |

In each detailed module a definition named like `ClaimReplacing` or
`GateUnfenced`, commented as a faulty variant, stands right before the operator
it is a plausible bug of (`Claim`, `Gate`). No specification uses it; put in the
place of the operator, it shows that the properties notice.

### 2.1 Inbound

A step is one call: on the store, the policy engine or the host. `row` and
`content` are the columns `state` and `content`; `pc[t]` and `msg[t]` say where
a thread is and on which message, `engine[h]` and `counted[h]` are locals of
`_on_inbound`. `Claim` and `Duplicate` are the two results of
`store.claim` (ON CONFLICT DO NOTHING); the winner goes on through
`CountPending`, `RegisterPending` (a separate engine call, so another handler
can slip between), `Evaluate`, and then, by the verdict, `ApplyDrop`,
`ApplyRefuse` and `EraseContent`, `ApplyHold`, or `Deliver` with `MarkQueued` or
`MarkHeld`. `BeginRelease`, `BeginRefuse`, `RefuseHeld` and `SetPolicy` are the
operator's tools. `Fault(t)` is a store call that raises, `ClaimFails` the same of the
claim: the handler's exception is answered `invalid` by the runtime. Where a second call
follows a write within a step, `Fault` may have done the write (`hold`); the `get`
inside `deliver` may raise as well. `receipt` is the last receipt that was sent and whose
call it answers: the `first`, or that of a duplicate, `early` while the first is still at
work, `settled` afterwards. `stranded` are the rows that a fault has left `queued` although
the host never took the message. The expiry, hop and rate gates
are one choice (`GateDrops`). The counter `injections` saturates at 2 (`Tally`).

### 2.2 Requests

`txn[p]` is the state of the process's connection in terms of what SQLite and
Python's `sqlite3` do: no transaction, a failed INSERT that still holds the
write lock, a transaction opened by a statement that met a locked database and
has or has not read since, and a snapshot that is stale. `Read`, `Commit`,
`Locked`, `Violate`, `Writable`, `Seen` are those rules, and every operation of
the request store is written with them: `LookUp`/`CreateKeyless` then
`InsertRow` (under `LockFree`, the store's lock), `InsertConflict`, `Enqueue`
and `Send` of the creating session, and `Transition` (the SELECT) then `Write`
or `WriteFails` for answers, cancels and the sweep. `OtherUse` and
`GroupConflict` are statements of other stores on the same connection. `log`
is `request_events`.

### 2.3 Broadcast

`caller[c]` walks through `ReadParent`, `Gate` (the UPDATE that only one caller
finds pending), then `InsertChildren`, the pool and `Complete`, or `Reread`.
`task[m]` is the member's task on a pool of `Concurrency` threads: `Start`,
`Send` (a fresh message id each time), `Reply`, `BadReply` or `Timeout`, `Retry`,
`Record`. `Receive` is the recipient's pipeline, any answer; `refused` stands for all of
them but `queued` and `invalid`. A receipt need not come from a recipient: `runtime.send`
says `invalid` itself when the sender is not registered any more or its envelope cannot be
encoded, and nothing leaves (`Send`), and when what came back is no receipt, whatever
the host did with the message (`BadReply`). Only `unreachable` is retried. `RecordFails`, `Abandon` and
`Crash` are the updates that raise and the process that dies.

### 2.4 Supervisor

`step[t]` is where the thread that holds `_lock` is inside `register_peer`,
`unregister_peer` or `shutdown`; `loop[g]` is where a supervisor thread is in
`_run_loop`, and it takes no lock. A dictionary that changes size under
`_service_writable`'s iteration kills it (`Disturbed`, reproduced by running the
code); so does a frame of an unknown major version (`Unsupported`).
`_join_thread` waits three seconds: `JoinOver` lets the join end early only
while the supervisor is inside a handler and `SlowHost` allows it. The model
services one message per round of the selector; a record is removed before the
join, as in the code.

### 2.5 Sessions and Discovery

`job[t]` is where a host thread is inside a hook. A hook reads and writes the
maps of the session manager (`toPeer`, `recordOf`, `beating`, `handles` are
`_session_to_peer`, `_peers`, `_presence`, `_peer_handles`) between calls on the
runtime (`answers` is `_peers` of the runtime, which a probe is answered from;
`bound` is the listener) and the registry (`file`). The lock of the runtime
(`rtLock`) covers `Bind` to `Publish`, `Unbind` to `Unpublish` and `Adopt`; that
of the registry (`regLock`) covers the read and the write of a record. Of a
record only the status is kept. `Adopt` is one step where the code writes the record
of the runtime and then that of `_peers` (`sessions.py:323-324`). `ReadRecord` and
`WriteRecord` serve three callers, told apart by `goal`: a change of status, an alias (which keeps the
status), and the mark `closing` at the start of a teardown. The heartbeat thread
goes over a copy of the presence managers (`Round`) and reads and rewrites
records under the lock of the registry. `PublishFails` is the exception handler
of `register_peer`; the hook raises. `Crash` keeps what is on disk.

A process that starts again makes new peer ids, so for the repair of old records it
is just another process; `Sessions` therefore models one life of one process.

`Discovery` adds the repair, which shares the files and sockets but no lock:
`Consider` (the snapshot), `Probe`, `Check` (the record read again, inodes
compared), `Challenge`, `BoundCheck`, `RemoveRecord`, `RemoveSocket`. A probe may
fail at any time, being late, or because the status in the record and that in the
runtime differ while a hook changes them, or because an old failure is still
in the cache: only success needs a live peer. `BoundCheck` is the connect of
`backend.bound`, which returns False on any `OSError`: without a listener, and also with
one of `Crowded` whose backlog is full. `misled` are the listeners that a repair missed
that way.

### 2.6 Schema and Groups

`objects` are the tables, and the column `messages.protocol`, which version 2
adds. `Open(p)` reads the version once and lays out the statements to run
(`todo`); `CreateTable` and `AddColumn` commit one each, in the script of
the full schema as in a migration, since Python's `sqlite3` opens a transaction for
changes of rows only; `Stamp`
writes the version last. `Die(p)` may fall between any two. `cascade` says whether
`group_members` references `groups`: only the full schema declares that.

In `Groups`, `CreateGroup`, `DeleteGroup`, `RenameGroup`, `InsertMember` and
`DeleteMember` are the statements of `GroupStore`; `group_create` and its siblings
are the session manager, which gives the agent; `peer_group_manage`,
`cmd_peer_groups`, `cmd_peer_group` and `DashboardRoutes` are who calls. Adding a
member and renaming are two steps, a SELECT or an earlier `get_group`, then the
write.

### 2.7 Stream

A frame or a reply is two units, what its length says and the rest, so that a
chunk may end at every place that matters. `Receive` hands a chunk to the decoder
of its connection (`TakeLength`, `Consume`, `EndOfChunk`), `Dispatch` and `Reply`
answer a frame, `Refuse` one that is malformed or too long; `Flush` sends as much
as fits and leaves the rest to `ServiceWritable`. `serving` is the connection on
whose chunk the one supervisor works. `Teardown` closes all of them. That `_flush` may
find a connection gone that a host thread has just torn down is left to 5.2.

### 2.8 Limiter

`events` is the deque of `RateLimiter.allow`, `passed` the history of what it let
in, as the times in their order. `Arrive` trims, decides and appends; `Expired` is how
many events the `while` loop pops from the front. A session with a policy of its own
(`own`) is given a new engine for each message, so that nothing is counted.

### 2.9 Identity

A file is a name, an inode and its entries, and a rewrite is four steps: load,
open the temporary name with truncation, write, rename. Two processes may hold one
inode, or rename each other's; there are enough inodes for all names and all
processes. `kept` is what a caller was told is there; `raced`
are the files that two processes rewrote at once, about which nothing is
promised.

### 2.10 Status

A tick is half a heartbeat interval (`Interval = 2`, `Grace = 3`, `Stale = 6` are
the ratios of the code's 15, 22.5 and 45 seconds). `age` is the age of `last_seen`,
`wake` the time until the heartbeat loop wakes up. `BeginSummary`, `Probed` for each
record and `Classify` are `summary`, which reads the registry only at its end. A
process may become mute (it answers but no longer writes), stop, die, or lose its
pid to another program.

### 2.11 Events and Feed

`Events` has the queue of each subscriber and a handler per socket; a view may leave
at any point of the upgrade. `Feed` has the summary cache and its TTL, the questions
a view has under way, what it shows and what it thinks of its socket; `latest` is the
history of what the last question of a Desktop was answered. A revision
stands for the presence of all peers.

### 2.12 Addressing

`turn` is the one call that is followed. `ActsAs(sid)` is the session a caller acts
for, the one it names or the only one; `Asked`, `GoesBy`, `ProbePeer`, `Preferred`,
`Unique` and `Choose` are `resolve_peer` and `resolve_agent`; `MakeEnvelope`,
`Authenticate` and `Transmit` are the send. Meanwhile `Rebind` (hooks), `ComeAndGo`
(other processes) and `Retitle` change the world, and `Touched` takes the peer out of
`steady`, the peers that go by the target, answer and keep their record all the while. A
handle (`name~short`) is a name and the beginning of an id; `Prefix` has, for each
beginning, the ids that begin so.

`MCParts` checks 2.7 to 2.12 in one run: the modules share no variable, so a
behaviour of all of them together is one of each on its own, and each behaviour of
the run is one of one part while the others stand still.

## 3. The runs

All bounds are sets of model values given in the `.cfg`; a run explores every
reachable state of its instance.

| run | instance | what it shows |
|---|---|---|
| `inbound_race` | 2 messages, 2 handlers, 2 operators, capacity 2, all host outcomes, store faults | `NegativeVerdictFinal`, `ReceiptsMatchVerdict` under every interleaving and fault |
| `inbound_refines` | 3 messages, 2 handlers, 1 operator, capacity 2, no fault | `ImplementsInbox`, `DeliveredOnce`, `InboxBounded`, `RefusedErased` |
| `requests_local` | 2 requests, 1 key, 1 process with 2 threads that do everything, group names that are taken | `ImplementsWorkflow` |
| `requests_shared` | 2 request ids, 1 key, 2 processes that both create under it, one answers, the other sweeps, both cancel, group conflicts | `OneRequestPerKey`, `LoggedDecisions`, `AnnouncedMeansEnqueued` |
| `requests_find_frozen` | 1 request, 2 processes | finding 1 |
| `broadcast_faults` | 3 members, one the sender, 2 callers, 1 retry, pool of 1 | `OneFanOut`, `CompletedMeansAnswered`, `OutcomesConverge`, `OutcomesFinal`, and `FanOutCompletes` under fairness |
| `supervisor_gateway` | 3 peers, 2 at a time, 2 threads, 2 supervisors, 2 messages, one foreign | `OneSupervisor`, `StopsWithLastPeer`, `RecordsMatchListeners`, `Served`, and `EveryMessageAnswered` under fairness |
| `supervisor_slow` | 2 peers, 2 threads, a host that may not return | `LockReleased` under fairness |
| `supervisor_find_version` | 1 peer, 1 foreign message | finding 2 |
| `sessions_repair` | 2 sessions, 2 peers, 2 host threads, heartbeats, failing registrations, a crash, a repair; the backlog of one peer may be full | `MapsAgree`, `ClosedLeavesNothing`, `ListeningKeepsRecord`, and `CrashedIsRepaired` under fairness |
| `groups_store` | 2 processes of 2 agents, no file or one of version 1, 1 death, 2 groups, 2 names, 2 renames | `OpenMeansCurrent`, `NoOrphans`, `RenamesSeeLatest`, and `OpensUnlessStuck` under fairness |
| `parts` | below | `TypeOK`, `RepliesInOrder`, `RateBounded`, `KeptUnlessRaced`, `HealthySeen`, `PlacesHeld`, `LatestWins`, `SentAsMeant`, and `EveryFrameAnswered`, `Converges` under fairness |

The type invariants of `Inbound`, `Requests`, `Broadcast`, `Supervisor`,
`Discovery` and `Groups` are theorems and not run again.

Why the bounds are enough. *Inbound*: the interesting cases are two handlers on
one id, two handlers on two ids with one free place (capacity 2, because the
claimed row counts itself), and an operator on a row a handler still works on;
the third id makes the inbox overflow. *Requests*: two threads in one process
and one in each of two cover every overlap of SELECT, UPDATE and commit; the
second request is what a second `create` under the key would insert. Longer logs
need longer lives, and a life has at most five states. *Broadcast*: one pool
thread for three members makes tasks queue; one retry is the shortest sequence in
which a late answer meets a second attempt; a second caller meets the gate at
every point. *Supervisor*: three registrations let a teardown fall between two
of them; a third supervisor never starts in these instances, since two at a time
would violate `OneSupervisor` first.
*Sessions*: two sessions open at once, or one rotated into the other, or one
closed and opened again; peers share nothing but the locks, so that a third one
would repeat what the first two do. One of the two may have a full backlog (`Crowded`), the
other never has, so that the run shows what the repair does to each. `Serial = TRUE` says that the host calls the
hooks of one session in turn, `OldIds = TRUE` that it names the session a reset
ends.

*Groups*: two processes overlap at every statement; a file that was not there and
one of version 1 are the longest ways to version 4, the others are parts of the
second. Two renames are what a stale revision needs.
*Parts*: two connections, one of which sends two frames in either order of good
and refused, and a socket that takes one unit, so that every reply is cut; a
limiter whose window is four ticks and whose limits are 2 and 3, over ten ticks,
two windows and a half; two processes that rewrite two files, six inodes being as
many as can be named or open at once; two peers with one ailing; two views for
one place and three events for a queue of two; one dashboard and one Desktop with two
questions each over two changes and one failure; two sessions here, one peer
elsewhere, two names, two primaries, and two beginnings of ids, of which two peers share
one.

`CHECK_DEADLOCK FALSE` is given for Broadcast, Supervisor, Discovery, Groups and Parts:
a broadcast that returned, a runtime that was shut down and a directory that was
repaired after a crash do nothing more; a process whose constructor raised may not be
started again; clients leave, views are closed, and the bounds on time and changes
are reached.

### 3.1 Fairness

- `Broadcast!FairSpec`: callers and pool threads run, and a recipient that was
  sent a message handles it. The code's threads are preemptively scheduled and
  block only in the socket call, which has a timeout. A crash is never fair.
- `Supervisor!FairSpec`: a call that holds the lock goes on, and a supervisor
  that is alive goes on; nothing is assumed of a handler. `PromptSpec` adds
  that the host returns from every message; `EveryMessageAnswered` needs it, and
  the code says so by calling the handler synchronously on the supervisor.
- `Discovery!Fairness`: someone runs `doctor --repair` again and again, and each
  run comes to its end and considers every record. Nothing is assumed of the
  process itself. The code runs no repair by itself, so this is a fact about the
  operator; without it records of dead processes stay.

- `Groups!FairSpec`: a process that opens the file goes on, and one whose
  constructor raised, or that died, is started again: the user does that. Deaths are
  bounded and never fair.
- `MCParts!PartsFairness`: the supervisor serves a connection that has something
  (`Supervise`; one thread in a loop over a selector), and the client at its other end
  reads and writes (`Talk`; one function call with a timeout). The cache expires,
  the timer of a dashboard fires, and a question proceeds or fails: timers and
  requests of a browser do.

Requests and Inbound have no liveness property: a caller gets an exception or a
receipt after a bounded number of calls, and nothing is retried in the background.

## 4. The proofs

Every theorem is `THEOREM ... == Spec => []P` or `Spec => [][A]_vars`, `Spec` being the
specification of the module or of the part (`LimiterSpec`, `StreamSpec`, ...), for every
value of the constants that the named assumptions allow, from an inductive invariant
that TLC checked first. Every invariant that a run checks, both refinements and the
action properties are theorems; where one has a hypothesis, the list says which and
what happens without it.

- **`InboundProofs`**. `PipelineInv` says which thread may be where with which
  verdict: the claim gives one handler the id (`OwnershipInv`), and that makes
  every later step's verdict the one that was evaluated. With it,
  `NegativeVerdictFinal` holds although operators act without a lock, since a
  negative verdict never makes a row `held`. `ReceiptsNeverContradict` adds
  that a row that says `queued` is explained (`RowsExplained`): the host has the message,
  or its first call is at work, or a fault has left it so; that whoever comes to mark a row
  `queued` has the host's word (`MarkInv`); and that a receipt stays true, because verdicts
  are given once and what the host took or a fault stranded stays so (`Onwards`). `PipelineDeliversOnce` assumes that there are no
  operators, and nothing of faults or of the host. With operators the property needs
  more (5.2): `ReleaseDeliversOnce` assumes one operator, a host that never rejects and
  no store fault. Then a message never has two threads at work on it (`WorksAlone`, from
  `SteadyInv`: a row that is held belongs to no handler any more), and what is still
  to be handed over has not been (`FirstInv`). `PipelineImplementsInbox` maps each step
  of the pipeline to one of `Inbox` or a stutter under the same assumptions.
  `RefusalsErase` needs only that no store call raises. `CapacityHolds` allows faults,
  but asks for at most two handlers, besides one operator and a host that never rejects:
  counting and registering are two calls, so that a handler may evaluate with the count
  of another. `RoomInv` has the rows that are in and the handlers that may still let one
  in (`MayAdmit`) fit the capacity together, with a place to spare while a count that was
  read is not registered. With three handlers TLC finds the inbox overfull (5.2).
- **`RequestsProofs`**. `OneProcessRefines` and `OneProcessFreezes` assume one
  process: the store lock serialises SELECT and UPDATE, so what a thread
  is about to write is legal from what is there. With several processes this is
  false (finding 1) and `DecisionsAreLogged` is what remains: an induction
  over the logs, through snapshots and decisions in flight, where the invariant
  says that whatever a thread has read, or a stale snapshot shows, has been
  logged. `KeysAreUnique` rests on the UNIQUE index alone.
  `AnnouncedAfterEnqueue` uses that an enqueue which read `created` has
  written before it can send. All of them allow statements of other stores that leave the
  transaction of the connection open (`GroupConflict`).
- **`BroadcastProofs`**. The gate invariant (one caller beyond it, children
  absent before it) gives `GateAdmitsOne` and `RowsComeFirst`; the task invariant
  ties the state of a task to its receipt, its attempts and the verdicts of the
  recipient, and gives `AnswerEndsRetries`, `CompletedIsTrue`, `CallersConverge`
  and `CompletedIsFinal`, with faults and crashes allowed. `CompletedIsTrue` promises
  nothing of the host of a member recorded as `invalid` or `unreachable` from which no
  receipt came: it may have taken the message all the same.
- **`SupervisorProofs`**. `RecordsAlwaysMatch` is unconditional.
  `NeverTwoSupervisors` and `LastTeardownStops` assume `~SlowHost`, that no
  handler outlasts the join; without that assumption both are false (see 5.2).
  `PublishedPeersServed` assumes the same, and `Served` excepts a process in which an
  exception ended a supervisor. Its invariant (`ServeInv`) follows the one stop event
  from the teardown that sets it, or the supervisor that found no peers, through the
  join to the registration that clears it.
- **`DiscoveryProofs`**. `RepairSparesTheLiving` holds without `Serial`, so for
  overlapping hooks as well, and for any number of them. The invariant says that
  nothing names a peer id that was not made (`Issued`), that a teardown removes
  socket and record of a peer that does not listen any more (`JobsFit`), and
  that a repair past its fence (`RepairFits`) has a peer that does not listen, and
  never will again because ids are made once, or one that its connect has missed
  (`misled`), which the property excepts.
  `SessionMapsAgree` and `ClosedPeersLeaveNothing` assume `Serial` and `OldIds`, how the
  host is to call the hooks, and bound neither hooks nor repairs. `LifeInv` says that
  every peer that was made belongs to one session, to one hook (`Busy`) or to nobody,
  in which case it is gone from everywhere (`NothingLeft`); how far a hook is
  determines which maps already know (`HookInv`), a session in no hook is told by
  `StoryInv`, and `BeatInv` keeps a heartbeat from writing back a record that
  a teardown removed.

- **`GroupsProofs`**. `FileFits` says that a process still has all the statements
  ahead of it that the file lacks (`Cover`, with lemmas on lists of statements), and
  `ColumnFits` that the column of version 2 is missing in a file of version 1 only, so
  that a CREATE that is skipped is of a table that is complete. That gives
  `CompleteWhenOpen`, for every set of initial versions and any number of processes and
  deaths. `RowsFit` keeps rows out of a file that is not complete, which with the
  reference gives `MembersHaveGroups`; `CallsFit` ties what a rename has seen to the
  revision and gives `RenamesKnow`.
- **`StreamProofs`**. `RepliesStayInOrder` is an invariant about each connection
  (`Line`), for any number of clients and frames in each plan: the decoder is at its place in
  the client's plan (`Decodes`), what was read, what is in the socket and what is queued
  make the replies so far (`Carried`), and these answer the frames in turn, one each
  (`Answered`). `Bounds` and `Unused` are what the arithmetic of the cuts needs.
- **`PartsProofs`**. `HealthyAreSeen` needs only that a healthy peer's age and the rest
  of its sleep make one interval (`BeatsFit`), and that the thresholds have the order
  of the code's: Interval < Grace <= Stale. `PlacesAreHeld` and `QueuesBounded` are about
  the broker; `NewestIsShown` (what is shown is the answer to the last question, or nothing before
  it comes) rests on there being one newest question. `NoGuess`
  follows a call: what is steady is still to be asked or was found (`SteadyFits`), the
  sender belongs to no other session (`SenderFits`, because peer ids are never used
  twice and one session has each), for every target, handles included. `RatesHold` is about any limits and any window:
  the deque is the end of the history and what came before has left the window
  (`Suffix`), so that of `Sustained + 1` admissions the last is a window after the first
  (`Sparse`), and of `Burst + 1` either it is a second after the first or an older one is
  still in the window (`Gated`). `ToldIsKept` is about any number of processes, aliases and
  deaths: two files never share an inode (`NamesApart`, `InodesApart`), and the only
  writer of a file that was never raced for replaces what was told by what has its key
  (`Calm`). `PartsTyped` joins the invariants of the parts into one about the
  specification that the run checks.

Only model-checked: liveness under fairness (`FanOutCompletes`, `EveryMessageAnswered`,
`LockReleased`, `CrashedIsRepaired`, `OpensUnlessStuck`, `EveryFrameAnswered`,
`Converges`), which the prover does not do. `RowsComeFirst`,
`OneProcessFreezes` and `PipelineInv` are the other way round: proved, and not run again.

## 5. What disagrees with the documentation

### 5.1 With a run that shows it

1. `requests_find_frozen`, `agent_peer/requests.py:168`. The UPDATE does not
   compare the state the SELECT read; between processes a terminal request can be
   moved (`agent_peer/requests.py:162`).
2. `supervisor_find_version`, `agent_peer/runtime.py:566`. A frame of an
   unknown major version ends the supervisor (`docs/protocol.md:99`).

### 5.2 Visible by changing a constant, or in the code

- The claim commits the row as `queued` before policy and host
  (`hermes_peer/sessions.py:693`). A duplicate that comes before the verdict is answered
  `queued` (`sessions.py:695`), also of a message that is then dropped or refused; and if
  a later store call raises, the row stays so, and every retry of the id is answered
  `queued`. Both contradict `docs/protocol.md:69` ("host accepted delivery"), the first
  also the docstring of `_on_inbound` (`sessions.py:672-675`: a duplicate gets "the exact
  original persisted" state, duplicates "converge on ... one state").
  `ReceiptsMatchVerdict` excepts these two cases by name, and no other.
- Each attempt of a broadcast has a fresh message id, and a late answer counts as
  unreachable, so that the content is injected twice (`hermes_peer/sessions.py:1189`;
  `agent_peer/broadcast.py:10` says otherwise).
- `Supervisor_gateway.cfg` with `SlowHost = TRUE` violates `OneSupervisor`: the
  join gives up, the next registration clears the stop event and starts a second
  thread (`runtime.py:454`; `runtime.py:4` says "ONE daemon thread"). A late
  supervisor can also set the shared stop event for its successor
  (`runtime.py:525`).
- `Supervisor_gateway.cfg` with `Foreign = {}` violates `NobodyKilled`: a second
  registration changes the selector's map under the supervisor's iteration
  (`runtime.py:684`). `Served` and `EveryMessageAnswered` are conditional on
  `NobodyKilled` for that reason.
- `Inbound_refines.cfg` with two operators, or with `"rejected"` among
  `HostOutcomes`, violates `DeliveredOnce`: two releases of one held message
  (`sessions.py:803`), or a row marked held twice around a release
  (`sessions.py:733`).
- `Inbound_refines.cfg` with three handlers violates `InboxBounded`: each counts before it
  registers, and evaluates with what another registered last (`sessions.py:700`).
- The content of a refused message is stored until the row is blanked two commits
  later (`sessions.py:692`, `:712`), and for good if the call between raises:
  `RefusedErased` fails with `StoreFaults = TRUE`.
- Delivered rows keep the state `queued` and count for ever
  (`store.py:370`): after enough accepted messages the peer answers
  `over_capacity` with nothing waiting (`docs/protocol.md:76`: "receiver pending
  inbox is full").
- The capacity counts the message's own row (`sessions.py:700`), so the last
  place is never given.
- A failed INSERT leaves the transaction of the connection open, with the write lock of
  the file, until another statement of the process commits: in one process as soon as a
  group name is taken (`groups.py:86-98`), between processes also when two creates meet
  on the UNIQUE index (`requests.py:71`, which raises although its docstring promises
  the original). The requests runs include both; the properties say what the requests
  keep under it.
- Nothing calls `request_expire_overdue` (`sessions.py:1032`), so that an overdue request
  stays open unless a host program does; the model's `Sweeper` is that program. Nothing in
  production calls `rename_group` (`groups.py:136`).
- A create repeated with its key sends the envelope again (`sessions.py:938`).
- A caller that loses the broadcast gate reads rows that say `queued` or are not
  there yet (`broadcast.py:144`, `:159`), and counts failures differently from
  the winner (`broadcast.py:224`, `:262`). `OutcomesConverge` is what remains.
- `Discovery_repair.cfg` with `Serial = FALSE` violates `MapsAgree` and
  `ClosedLeavesNothing`: two opens of one session both register, and the first
  peer stays bound and published with no session that could close it
  (`sessions.py:252`, `:286`); a change of status that overlaps a finalize puts
  the record back into `_peers` (`sessions.py:323`); one that overlaps an alias
  leaves the runtime with the status of the alias's record, after which every
  probe of that peer fails (`discovery.py:222`).
- `_fenced_remove` says that it challenges once more, and `_probe` that repair is
  deliberately not cached (`discovery.py:392`); both use the cached answer.
- On Linux a connection to a listener whose backlog of 64 is full fails at once,
  so that `bound` denies a live peer whose supervisor is stuck (`posix.py:206-219` returns
  False on any `OSError`), and the repair removes its record and its socket. The comment
  at `discovery.py:526-532` says that a live listener is never cleaned up. `BoundCheck` has
  this step; `ListeningKeepsRecord` and `MapsAgree` except the peers it missed (`misled`),
  and with `\ misled` taken out `sessions_repair` fails.
- `_flush` calls `selector.modify` on a connection that `unregister_peer` in a
  host thread may have unregistered and closed since the `send`: a KeyError out of
  `_service_writable` (`runtime.py:668-692`) then ends the supervisor for every peer, as
  `Disturbed` does in `Supervisor`. `Stream` has the connection dropped in that case.
- A rotation keeps the presence manager of the old session
  (`sessions.py:360`), which then asks for a record that is not there.
- A file of version 1 over which a process dies between the ALTER and the version row
  (`store.py:214`) is `Stuck`: every later ALTER raises out of the constructor, although
  `store.py:228` says that re-running is safe (also `docs/upgrade-v1-to-v1-1.md:31`).
  `OpensUnlessStuck` excepts that state, which the run reaches.
- Files migrated from versions 1 to 3 get `group_members` without the reference that the
  full schema declares: members outlive their group there. `NoOrphans` is about the
  others.
- `docs/groups-and-broadcasts.md:25` has membership changed by the owner and capped; adding
  and removing check neither, and nothing calls `validate_cap`.
- The gate on bursts looks at the oldest event of the window (`policy.py:66`): after
  a message a few seconds old, any number up to the sustained limit passes at once.
  `RateBounded` states the weaker bound that holds. A session with a policy of its own is
  not limited at all (`sessions.py:654`).
- Two first starts of one profile can mint different agent ids
  (`agent_identity.py:69`), and two processes that set aliases at once lose one
  (`identity.py:111`); a process whose temporary file was renamed by another fails.
- `resolve_peer` never picks the first of several, says its module; but a namesake whose
  probe is late, or whose record is rewritten while it is probed, is no candidate
  (`discovery.py:361`), and the name resolves to the other. Nothing writes the capability
  `primary` that `resolve_agent` prefers, so that an agent with two live sessions
  resolves only with a pin.
- `read_inbox` shows the inbox of the only session for an id that is not there.
- In a summary, a session whose process runs but no longer answers is "starting", never
  offline, as long as it beats; one counted idle because it is stale keeps the label of
  its record; "starting" rows are in the total and in no other counter; one without a
  pid is missing when its probe is late. The remedy the health report gives for stale
  peers keeps a stale peer that still answers.
- A client that leaves between `subscribe` and `accept` (`plugin_api.py:319`) keeps its
  place of 32 until the process ends; `PlacesHeld` says that nothing else does.
- `/events` sends one frame and waits for the client to send something, which the
  dashboard never does: after its first frame it gets no events, its socket still
  "connected" (`dashboard/src/app.ts:320` even sets it back to that after a refresh in
  which calls failed).
  `Converges` holds by polling alone. The Desktop has no poll, although
  `desktop/src/store.ts:4` and `docs/adr/ADR-0006` call polling its fallback.

## 6. What is not modelled

- Windows named pipes and their listener threads (`backends/windows.py`): what they do
  rests on overlapped I/O of the native API, whose behaviour the repository does not show.
- `retain` of the message store, `shutdown` of the session manager, `prune` of the
  registry and the `set_status` family of presence: nothing in production calls them.
  `record` without a preceding claim.
- Version negotiation, capabilities, validation of envelopes and records, paths and
  permissions: pure functions or single system calls, which unit tests cover well.
- Parsing of commands, texts, menus, configuration, installation and rendering.
- Counters of the metrics, on which no decision depends.
- Registration after shutdown raises and is left out.

## 7. What comes next

1. Proofs: an abstract channel, a queue of frames and one of replies, that `Stream`
   implements; a sharper `CapacityHolds` that says by how much any number of handlers
   can exceed the capacity; `SessionMapsAgree` with what remains of it without
   `Serial`.
2. `Broadcast` composed with `Inbound` through the receipts of `send`, and with the
   members that `Groups` changes meanwhile.
3. `Addressing` on top of `Discovery`, so that the records it resolves are those the
   repair may remove.
