# A verification project for Ominull

Ominull is a self-hosted hub (Go, `src/hub`) and endpoint agents (C,
`src/agent`). Operators, packages and a response authority queue *response jobs*
on the hub: run a script, collect forensics, open a terminal or a screen
session. An agent polls the hub with heartbeats; a job reaches it as an offer in
a heartbeat reply, with a signed grant. This project models how a job gets from
"queued" to "ended" when requests are lost, repeated or late, processes crash,
clocks tick between two reads and operators change their minds, and how an
agent's telemetry reaches the hub through a bounded queue and replays. Every
safety property TLC checks on a small instance is also proved for all values of
the constants.

## 1. Inventory

| Component | State | Operations | What is hard about it |
|---|---|---|---|
| Response job store (`hub/pkg/response/store.go`, `supervision.go`, `session_jobs.go`) | job rows, audit rows, supervision rows (SQLite, one mutex) | create, offer, ack, progress, heartbeat, result, cancel, end a session job | calls of several agents, operators and the sweeper in any order, with stale leases; limits on offers |
| Agent dispatcher and workers (`agent/linux/main.c`, `agent/src/response_windows.c`) | heartbeat loop, offers in hand, detached workers | refuse, record, ack, start, heartbeat, report, crash | every post can be lost after the hub acted on it; the agent acts only once |
| Replay cache (`agent/include/response_dispatcher.h`) | a file of accepted grants | verify, scan, truncate, rewrite | crash in the rewrite, two clock reads, a bounded file |
| Job id reservations (`hub/pkg/response/reservation.go`, `server/signed_jobs.go`) | reservation rows | reserve, take, create, lapse | two store calls per post, restart between them |
| Script supervisor (`agent/include/script_supervisor.h`) | phase, last activity, last post | feed output, sample, post | phase changes against post intervals |
| Terminal sessions and relay (`hub/pkg/terminal`) | session in memory and in SQLite, sockets, queues, recording | create, attach, detach, supersede, close, sweep, seal, restart | memory and database written in two steps, pumps of superseded sockets |
| Screen sessions (`hub/pkg/screen`) | frame policy, watch credentials | open, watch, pause, resume | watchers joining and leaving around pause |
| Response authority (`hub/pkg/responseauth`) | operators' sessions, approvals, minted grants | enrol, authorise, approve, mint | one-use approvals, counters |
| Evidence store (`hub/pkg/evidence`) | bundles and items | create, store, finalize, expire | finalize against late items |
| Maintenance and playbooks (`hub/pkg/scripts`, `server/playbooks.go`, `maintenance_*.go`) | runs, steps, windows | plan, start a step, advance, stop | steps on several machines, results out of order |
| Agent trust (`agent/include/agent_trust.h`, `response/trust.go`) | pins, epochs, routine keys | adopt, refuse, report | monotone epochs across restarts |
| Enrolment and device credentials (`server/device_auth.go`, `storage/enrollment.go`) | credentials, tickets | enrol, rotate, revoke | rotation when the reply is lost |
| Self-update (`agent/src/updater.c`, `server/agent_rollout.go`) | staged version, rollout | stage, install, confirm, roll back | crash between install and confirm |
| Telemetry upload (`agent/include/upload_queue.h`, `linux/main.c`, `src/hub_client.c`; `hub/pkg/server/telemetry_upload.go`, `telemetry_ingestion.go`) | bounded queue of batches, handlers, ledger of batch ids | post, push, evict, replay, pop; begin, ingest, finish, expire | handlers that go on after the agent gave up, replays of stored batches, byte and id budgets |
| Isolation (`agent/windows/wfp_user.c`, `storage/enforcement_grants.go`) | desired and applied state | isolate, release, dead-man | stale desired state |
| Detector, vulnerability matching, trust fabric, storage, console, PKI, scanner | data | queries, scoring | mostly pure functions or I/O |

What the modelled components must guarantee:

* a job's action runs at most once, and never after it was withdrawn;
* a job ends at most once; what is recorded as succeeded really ran;
* a job an agent took belongs to somebody, unless a fault destroyed it;
* no job waits for ever, and every job ends unless a fault destroyed its work;
* the audit rows explain the state of every job;
* a grant is accepted once in its window, also across restarts;
* a reserved job id becomes at most one job, for what it was reserved for;
* a terminal session has one operator, who gets its output; it ends, in memory
  and in its row, and stays ended; its recording is closed and loses no frame;
* a telemetry batch is never mislaid, is let go as delivered only when the hub has
  stored it, and is stored twice only when the hub forgot its id; the queue and
  the ledger stay bounded, and the queue drains.

## 2. Modules

| Module | Models | Extends |
|---|---|---|
| `JobContract` | the abstract promise: open, taken at most once, ended at most once, success only after taken | |
| `ResponseStore` | the job store with arbitrary callers | |
| `ResponseDispatch` | one agent, the network and the store together | `ResponseStore` |
| `ReplayCache` | the cache file, its rewrite and the verifier's window | |
| `JobReservation` | the courier route: reserve, take, create | |
| `TerminalSession` | one shell session of the terminal manager with all its goroutines | |
| `TelemetryUpload` | an agent's telemetry loop and upload queue, the hub's handler and batch ledger | |
| `MC*` | instances for TLC | the module of the same name |
| `*Proofs` | theorems, lemmas and proofs | the module of the same name |
| `TelemetryAgentProofs`, `TelemetryUploadProofs`, `TelemetryBoundsProofs` | the invariant and the agent's steps; the hub's steps and the theorems; budgets and types | `TelemetryUpload`, each other in this order |

### ResponseStore

Each method of `Store` holds the mutex from its first read to its last write, so
it is one action; the guard collects the method's early returns. `state`,
`lease`, `attempt` and `requested` are the columns of `response_jobs`; `audit` is
the set of state changes in the audit table (rows that leave the state as it was
are left out); `phase` is the supervision row. The clock is reduced to what the
code asks of it: `leaseLive[j]` is `lease_expires_at >= now` and `ExpireLease` is
the two minutes passing. A lease id (a fresh uuid) is the number of the heartbeat
that offered the job; requests name a job and a lease, so the pair is unique.

`OfferPendingJobs` is written from the query outwards: `Pending` is the WHERE
clause, `Items` the ORDER BY and LIMIT, `Exhausted` and `Breaks` the two tests of
the loop, `Reached` the items before the `break`. Callers are arbitrary: any
endpoint, job, lease ever issued and outcome.

A SQLite statement that fails is not modelled: each method then returns an error
with the row unchanged, or (for the audit row) ignores it.

### ResponseDispatch

The agent is one loop (`pc`) plus detached workers. `Beat` is a heartbeat: the
hub runs `OfferPendingJobs` and the reply carries the offers. `DropOffer` is every
`continue` before the ack; `AcceptOffer` records the grant and posts the ack.
The agent waits in `acking` until it sees the answer (`HubAck`) or gives up
(`AckFails`), and only then `StartWorker` or `NothingStarts`. Requests wait in
`acks`, `beats` and `results` until the hub handles them, in any order and with
any delay. `CONSTANT Faults` names what may go wrong:

| Fault | Effect |
|---|---|
| `reply` | the heartbeat reply is lost or cut short |
| `ack` | the ack is lost, its answer is lost, or it arrives after the agent gave up |
| `dup` | an ack or a result is handled twice |
| `beat` | a progress post or its reply is lost |
| `result` | the one result post is lost |
| `spawn` | fork, thread creation or allocation fails |
| `crash` | the daemon restarts, or a detached worker dies |
| `cache` | the replay cache refuses or, in a crash, loses entries |

Two histories are added: `runs[j]` counts starts, and `lost` collects jobs whose
work or report a fault destroyed after the hub counted them as taken. The code
has no timeout for a taken job, so such a job stays taken until somebody acts;
`lost` makes that visible instead of assuming it away.

Linux runs a forensic collection inside the heartbeat loop (`InlineKinds`), Windows
in a thread (`InlineKinds = {}`); the theorems cover both.

### ReplayCache

`Verify` reads the clock, `Refuse` or `Truncate` read it again and scan the file,
`Commit`, `WriteFails` and `Crash` are the ends of the rewrite. `Tick` can come
between any two. An entry is identified with its grant.

### JobReservation

`handleSignedJob` is two store calls, so it is two actions with `stage[p]` between
them. `asked` and `burnt` are histories: what an id was reserved for, and which
ids a mismatch, a lapse or a restart used up.

### TerminalSession

One session, because sessions share nothing but the caps. The session in memory
(`state`, `opConnected`, `idle`, `rec`, ...) changes under `sess.mu`; its row
(`row`, `idleRow`, `recRow`) is written after the unlock with what was decided
under it (`snap`, `dState`, `aState`), so each is a step of its own and any other
goroutine may run between two steps. `vpc[v]` is where an `AttachOperator` request
and its read pump are, `dpc[t]` where a `detachAttachment` is (called by a viewer's
own pumps, by a viewer taking over, or by `DetachSession`, the `Admin`), `apc` the
agent's handler, `closing` the body of `closeOnce`, `cpc` `CloseSession` and `spc`
the sweeper: flush, three queries, the row updates, memory, relays, seals.
`CONSTANT Requests` chooses which of the agent, `DetachSession`, `CloseSession` and
the sweeper are at work. A stop channel is identified with its viewer. The
recording is its number of frames; `FinalizeBundle` gives a bundle one receipt and
may fail. `Restart` drops memory, fails a live row and reloads the session from it.

History: `appended` (frames recorded). Bounds: `MaxReads`,
`MaxNow`, `MaxRestarts`. A request is made once per viewer; `Manager.Close` at
shutdown is `Close` followed by a restart. The sessions of other kinds (screens)
and watchers are left out, so `policy` and `kind` are nil.

### TelemetryUpload

One agent and the hub. `apc` is where `SendTelemetryBatch` and
`ReplayQueuedTelemetry` are, `cur` the batch just built, `queue`, `bytes`, `sent`,
`gzip` and `final` the variables of the C code. A request is a slot of `req`: the
POST on its way and the handler it becomes, step by step from `Begin` (the ledger's
`begin`) over `Ingest` (the insert) and `Control` (the control reply, which can fail
after the insert) to `Finish` and the answer. When the agent's time limit passes
(`GaveUp`) the handler goes on, and the replay may meet it. `seen` is the ledger;
when it is full `begin` drops arbitrary entries, as Go's map order does.

A batch is its id. Ids are random and never reused; in the model an id nothing
refers to any more stands for the next new one (`Fresh`), so the loop runs for ever
over a finite set. Histories: `fate` (held, delivered, or neither), `copies` (how
often a batch was inserted), `forgot` (ids the ledger lost, or dropped although
stored). `faults` counts failures against `MaxFaults`: lost answers and time limits,
failing inserts and control replies, refusals before the ledger, kills, hub restarts.
A hub that comes back may be a release that does not take replays (`modern`).

## 3. Runs

| Run | Instance | Checks |
|---|---|---|
| `replay_cache` | 4 grants, room for 2, clock 0..3, grace 1 | `AcceptedOnceInWindow`, `CacheBounded`, `NonceUsedOnce` |
| `replay_once_comment` | the same | violated: `AcceptedAtMostOnce` |
| `store` | 3 jobs (script, session, script with a reused key), 2 endpoints, 2 offers each | `OfferedWithinLimit`, `AuditExplainsState`, `SupervisedWasTaken`, `OffersPacked`, `KeepsContract` |
| `store_wait` | 3 jobs competing for a LIMIT of 2 | `NeverStuckOpen` |
| `dispatch` | one of a script, a terminal and an unknown screen session at a time, all faults, 3 offers | `RunsAtMostOnce`, `WithdrawnNeverRuns`, `WorkerHoldsJob`, `ResultsFindTheirJob`, `SucceededRan`, `EndsUnlessLost` |
| `dispatch_pair` | a script with a bad payload and an inline collection together, 1 offer each, all faults but `dup` and `beat` | `TakenIsSomebodys`, `EndsUnlessLost` |
| `reservation` | 2 ids, 2 endpoints, 2 digests, 3 posts | `TakenByOnePost`, `JobIsTheReservedOne`, `ReservationAccounted` |
| `terminal_attach` | 2 viewers, agent, `DetachSession` | `OneOperator`, `OperatorIsFed`, `SuccessorLeftAlone` |
| `terminal_sweep` | 1 viewer, agent, sweeper, evidence store, room for 1 frame | `SlotHeld`, `FramesKept`, `EndedStaysEnded` |
| `terminal_ends` | 1 viewer, `CloseSession`, sweeper, 1 restart | `AlwaysEnds`, `RecordingCloses` |
| `terminal_readback_comment` | 1 viewer, agent, `CloseSession`, evidence store | violated: `ReadsWholeRecording` |
| `upload` | 4 batch ids, queue of 2 batches and 3 bytes, 1 replay per beat, ledger of 2, 2 requests, 1 fault | `TypeOK`, `HeldOnce`, `DeliveredIsStored`, `StoredOnce`, `QueueBounded`, `LedgerBounded`, `Drained` |

Bounds. Jobs interact only through the query's order, LIMIT and byte budget, and
through the agent's loop: two jobs show every interaction in the loop, three the
LIMIT. `OfferAttemptsMax` (30 in the code) is 1 to 3: one offer before, at and
after the limit. The number of leases is bounded by the attempts, so no counter
needs an extra bound. Sizes 1, 3 and 4 against a budget of 3 give an offer that
fits, two that do not fit together and one that never fits. Times in the replay
cache are in units of the grace; four grants are the fewest that overfill a cache
of two and repeat a nonce. `MaxTime` and `MaxAccepts` bound the clock and the
counter of acceptances. Two viewers are an operator and a successor; the runs with
the sweeper have one, since take-overs do not touch the row differently from a
detach and an attach. Viewers are interchangeable, so the safety runs with two use
symmetry. The terminal clock has one tick, past every deadline. In `upload` the sizes
4, 1, 2 and 2 against 3 bytes give a batch that never fits, one the hub refuses and
two that evict each other; two slots are a request and the handler of one given up;
four ids are the fewest that overfill queue and ledger together. What these bounds
leave out, the proofs cover, except for the liveness properties.

Deadlock is checked in `upload`, where the loop goes on for ever. Elsewhere it is
not: an idle hub and agent may stop, and every bounded instance ends in a state
where all jobs have.

Fairness. `WaitSpec`: endpoints keep beating (the agent's loop runs until the
service stops) and leases run out (the clock); nothing is assumed of answers or
operators. `DFairness` adds: the loop handles its offers, posts have a timeout
(curl's), the hub answers what reached it, scripts and collections have a time
limit, and the sweeper ends session jobs (every session has a maximum length, and
an unknown session's job ends after a day). No fault has to happen or to stop.

`FairSpec` of the terminal: the clock and the sweeper's ticker go on, and a handler
or pump that has a next step takes it. No frame, request, socket failure or
restart has to come.

`FairSpec` of the upload: the loop goes on (it beats every few seconds and its POST
has a time limit), a handler that started finishes, a stopped hub is started again,
and ledger entries nobody refers to grow old. `Drained` also supposes that
heartbeats go on being accepted, which no agent can bring about.

Two runs are expected to be violated. Each compares a comment with its code:

* "A grant is accepted at most once ... a grant that still verifies can never
  find its entry gone": in the second `expires_at + 60` the verifier passes
  (`<=`) and `ReplayCache_Keep` no longer keeps (`>`). A tick between the two
  clock reads does the same. `AcceptedOnceInWindow` is what holds, and the hub's
  ack remains the gate: `RunsAtMostOnce` holds with the `cache` fault.
* "GetSessionRecording returns all recorded frames": a frame recorded after the
  seal hides the sealed ones from the reader. `FramesKept` is what holds.

## 4. Proofs

Constants are arbitrary under the named assumptions (`StoreAssumption`,
`DispatchAssumption`, `CacheAssumption`, `ReservationAssumption`,
`SessionAssumption`, `UploadAssumption`), which TLC evaluates in every run. They
say what the constants are; the only sets required to be finite are the jobs and
the requests in being at once.

* **ReplayCacheProofs.** `StepInv` (where the daemon is and what it holds),
  `GuardInv` (an accepted grant whose window is open and whose entry no rewrite
  lost is in the file or among the retained entries), `NonceInv` and `SizeInv`
  (what the scan just established still holds during the rewrite). `GuardInv` is
  the strengthening: acceptance counts alone say nothing about the next scan.
* **ResponseStoreProofs.** Every step of the store moves each job along `Forward`
  or leaves it (`StepMoves`); from that follow type correctness, the refinement of
  `JobContract` (`StoreKeepsContract`) and `AttemptInv` for the offer limit. The
  audit story needs `StoryInv`: the rows form one path, `Rank` grows along it, so
  the only state entered and never left is the present one. The offered/queued
  cycle the transition table allows never happens, because nothing requeues.
  `OffersPacked` is about the order and the byte budget of one heartbeat. `OrderInv`
  says no two jobs have the same `requested_at`, so the query's order is total and
  the offers are an initial part of it; `SumIsCount` turns the sum of their sizes
  into the cardinality of a set (`Units`), which the finite-set theorems reach.
* **ResponseDispatchProofs.** `DispatchInv` has four parts. `LoopInv`: what the
  loop holds is consistent with `pc`. `LeaseInv`: leases in flight were issued.
  `PlaceInv`: where each job is. `AskInv` says an unanswered offer's job was not
  started by anyone else, `AcceptInv` that an accepted ack's job is taken under
  that lease and not started, `WorkInv` and `ReportInv` the same for workers and
  results, which exclude each other, and `RunInv` ties `runs` to the state. The
  store alone would accept a second ack of the same lease (acknowledged to
  acknowledged is allowed); at-most-once comes from one ack per offer in the loop
  and from no offer after acceptance, and `PlaceInv` is that argument. `EndInv`:
  how a job ended and whether it ran. Each action has its own lemma.
  `DispatchUsesStore` shows that the composition implies the store's
  specification; `DispatchKeepsContract` draws the consequence: with an agent and
  every fault, the hub still implements `JobContract` and keeps the store's
  invariants.
* **JobReservationProofs.** An id is in its row, or past at most one post, or
  used up; a row that exists was never passed before. `ReservationsAccounted` is
  the other direction: no step makes a reserved id disappear.
* **TerminalSessionProofs.** Types are proved in two parts, Boolean variables
  (`FlagsOK`) and the rest (`DataOK`, with the fact that a detach about to stop an
  attachment has taken one). `OperatorInv` is the argument for one operator: a
  claim under way, an installed attachment and a detach that took one exclude each
  other, and `OperatorConnected` is up during all three (`HandInv`); an attachment
  not stopped owns the relay or is the one a detach holds (`AttachInv`); a viewer's
  detach is its own or a take-over (`DetachInv`). Hence `OneOperator`,
  `OperatorIsFed`, `SuccessorLeftAlone`, for any number of viewers. `SlotInv` says what
  the row writes still to come may contain; hence `SlotHeld` and `EndedStaysEnded`.
  `KeptInv` adds that nothing is sealed before the receipt; hence `FramesKept`.

* **TelemetryAgentProofs, TelemetryUploadProofs.** `UploadInv` has, beside types and
  the properties themselves, three parts. `HandInv`: the request the loop waits for
  is about the batch in its hands or at the head of its queue. `StoredInv`: whatever
  makes the hub answer "accepted" (a handler past its insert, an entry marked done,
  an answer on its way) implies a stored copy. `LedgerInv`: an id not forgotten has at
  most one handler while it is being stored, and a copy only behind that handler or
  once it is done. One lemma per action. Hence `HeldOnce`, `DeliveredIsStored` and
  `StoredOnce`, for any number of batches, requests and faults.
* **TelemetryBoundsProofs.** The byte counter is compared with the sum over the queue,
  a recursive function; `SumOfAppend` and `SumOfTail` say how it changes.
  `QueueInv` adds that a replay on its way was counted for. For the ledger the number
  of entries is not inductive, since `finish` puts back ids that `begin` evicted;
  `TrackInv` bounds the ids in the ledger or in a handler's hands together.

Induction over data. The library's induction theorems cannot be instantiated by the
installed provers, so the facts about sums and finite sets are proved from a least
counterexample: `LeastNat` and `LeastSet` follow from well-foundedness (`WFMin`), and
each use supplies the set of failures.

Only model-checked: the liveness properties `NeverStuckOpen`, `EndsUnlessLost`,
`AlwaysEnds`, `RecordingCloses` and `Drained`, because fairness and `ENABLED` are out of
the prover's reach. Every safety property of a passing run is proved.

## 5. Not modelled

Signatures, digests and TLS (a grant is signed or it is not in the model),
tenants (one), the content of scripts, results and recordings, failing SQLite
statements, and the components below the line in section 1. `PROJECT.json` gives
the reason for each.

## 6. Plan

1. Terminal sessions, continued: the caps of `createSession` over several sessions,
   and the row's recording state after a late flush and a restart.
2. The relay's queues and watchers: byte gate, pause and resume.
3. Script supervisor: phase against posts, as a refinement of the heartbeat
   interface of `ResponseDispatch`.
4. Compose terminal sessions with session jobs (`EndSessionJob`'s caller).
5. Response authority, evidence store, device credential rotation, self-update,
   agent trust epochs, playbook runs, isolation dead-man.
6. Pure algorithms against reference definitions: version comparison, window
   arithmetic.
7. Proofs: a refinement of the session by an abstract live/ended contract, and of
   the dispatcher's `cache` fault by `ReplayCache`.
