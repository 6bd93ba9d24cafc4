-------------------------- MODULE ResponseDispatch --------------------------
(***************************************************************************)
(* One agent against the response job store: the heartbeat whose reply     *)
(* carries the offers, the replay cache, the ack that must come back       *)
(* before anything runs, the workers, their progress posts and the one     *)
(* result post.  Requests wait in the network until the hub handles them;  *)
(* CONSTANT Faults says which losses, duplicates and crashes may happen.   *)
(*                                                                         *)
(* Each job has one grant, so a grant is named by its job.  The replay     *)
(* cache is its interface only (see ReplayCache): a grant recorded before  *)
(* is refused, unless a crash in the middle of a rewrite lost the entry.   *)
(***************************************************************************)
EXTENDS ResponseStore

CONSTANTS
    Agent,        \* the endpoint this agent runs on
    AgentKinds,   \* the kinds its dispatcher recognises
    InlineKinds,  \* the kinds it runs inside the heartbeat loop
    Refused,      \* jobs whose kind or grant its trust state refuses
    BadPayload,   \* jobs whose payload does not parse
    NoOffer,
    MaxJobs,      \* jobs requested in one behaviour (bound)
    Faults        \* a subset of AllFaults

AllFaults == {"reply", "ack", "dup", "beat", "result", "spawn", "crash", "cache"}

ASSUME DispatchAssumption ==
    /\ Agent \in Endpoints
    /\ AgentKinds \subseteq Kinds
    /\ InlineKinds \subseteq AgentKinds \cap {"forensic_collection"}
    /\ \A j \in BadPayload : Kind[j] # "forensic_collection"
    /\ Refused \subseteq Jobs /\ BadPayload \subseteq Jobs
    /\ NoOffer \notin Jobs \X Nat
    /\ Faults \subseteq AllFaults

VARIABLES
    pc,        \* heartbeat loop: "loop", "acking" or "collecting" (inline job)
    todo,      \* offers of the last heartbeat reply still to process
    cur,       \* the offer being acknowledged or collected
    reply,     \* the hub's answer to the current ack: "none", "ok", "refused"
    cache,     \* grants in the replay cache
    expired,   \* grants past their validity window
    workers,   \* <<job, lease>> of the running workers
    stopping,  \* workers whose heartbeat reply asked them to stop
    acks, beats, results, \* requests on their way to the hub
    runs,      \* how often each job was started
    lost       \* jobs whose work or whose report a fault destroyed

agentVars == <<pc, todo, cur, reply, cache, expired, workers, stopping,
               acks, beats, results, runs, lost>>
vars == <<storeVars, agentVars>>

DInit ==
    /\ Init
    /\ pc = "loop" /\ todo = {} /\ cur = NoOffer /\ reply = "none"
    /\ cache = {} /\ expired = {}
    /\ workers = {} /\ stopping = {}
    /\ acks = {} /\ beats = {} /\ results = {}
    /\ runs = [j \in Jobs |-> 0]
    /\ lost = {}

-----------------------------------------------------------------------------
(* The heartbeat and the offers in its reply.                               *)

\* A reply cut short drops every offer past the cut; a lost one drops them all.
Arrived(offers) ==
    {S \in SUBSET offers : \A j \in S, k \in offers : Before(k, j) => k \in S}

Beat ==
    /\ pc = "loop" /\ todo = {}
    /\ OfferPendingJobs(Agent)
    /\ \E S \in IF "reply" \in Faults THEN Arrived(Offers(Agent)) ELSE {Offers(Agent)} :
          todo' = S \X {nextLease}
    /\ UNCHANGED <<pc, cur, reply, cache, expired, workers, stopping,
                   acks, beats, results, runs, lost>>

NextOffer(o) == pc = "loop" /\ o \in todo /\ \A p \in todo : ~ Before(p[1], o[1])

\* Refused by trust or grant, seen before, or the cache is full or unwritable:
\* no ack, no result, on to the next offer.
DropOffer(o) ==
    /\ NextOffer(o)
    /\ o[1] \in Refused \cup expired \cup cache \/ "cache" \in Faults
    /\ todo' = todo \ {o}
    /\ UNCHANGED <<storeVars, pc, cur, reply, cache, expired, workers, stopping,
                   acks, beats, results, runs, lost>>

\* Record the grant, then post the ack and wait for its answer.
AcceptOffer(o) ==
    /\ NextOffer(o)
    /\ o[1] \notin Refused \cup expired \cup cache
    /\ cache' = cache \cup {o[1]}
    /\ acks' = acks \cup {o}
    /\ pc' = "acking" /\ cur' = o /\ reply' = "none"
    /\ todo' = todo \ {o}
    /\ UNCHANGED <<storeVars, expired, workers, stopping, beats, results, runs, lost>>

\* Back to the loop, for the next offer or the next heartbeat.
Resume == pc' = "loop" /\ cur' = NoOffer /\ reply' = "none"

\* The post failed or timed out.  The hub may have accepted it, or still will.
AckFails ==
    /\ pc = "acking" /\ "ack" \in Faults
    /\ Resume
    /\ lost' = IF reply = "ok" THEN lost \cup {cur[1]} ELSE lost
    /\ UNCHANGED <<storeVars, todo, cache, expired, workers, stopping,
                   acks, beats, results, runs>>

RunsAnyway ==
    /\ pc = "acking" /\ reply = "refused"
    /\ workers' = workers \cup {cur}
    /\ runs' = [runs EXCEPT ![cur[1]] = @ + 1]
    /\ Resume
    /\ UNCHANGED <<storeVars, todo, cache, expired, stopping, acks, beats, results, lost>>

AckRefused ==
    /\ pc = "acking" /\ reply = "refused"
    /\ Resume
    /\ UNCHANGED <<storeVars, todo, cache, expired, workers, stopping,
                   acks, beats, results, runs, lost>>

-----------------------------------------------------------------------------
(* The action dispatcher, after the hub accepted the ack.                   *)

StartWorker ==
    LET j == cur[1] IN
    /\ pc = "acking" /\ reply = "ok"
    /\ Kind[j] \in AgentKinds /\ j \notin BadPayload
    /\ workers' = workers \cup {cur}
    /\ runs' = [runs EXCEPT ![j] = @ + 1]
    /\ IF Kind[j] \in InlineKinds
       THEN pc' = "collecting" /\ reply' = "none" /\ UNCHANGED cur
       ELSE Resume
    /\ UNCHANGED <<storeVars, todo, cache, expired, stopping, acks, beats, results, lost>>

NothingStartsSucceeds ==
    LET j == cur[1] IN
    /\ pc = "acking" /\ reply = "ok"
    /\ "spawn" \in Faults /\ Kind[j] \in AgentKinds
    /\ results' = results \cup {<<j, cur[2], "succeeded">>}
    /\ Resume
    /\ UNCHANGED <<storeVars, todo, cache, expired, workers, stopping, acks, beats, runs, lost>>

NothingStartsUnreported ==
    LET j == cur[1] IN
    /\ pc = "acking" /\ reply = "ok"
    /\ j \in BadPayload \/ Kind[j] \notin AgentKinds
    /\ Resume
    /\ UNCHANGED <<storeVars, todo, cache, expired, workers, stopping, acks, beats,
                   results, runs, lost>>

\* Nothing starts: a script whose payload does not parse is reported failed, a
\* session whose payload does not parse and an unknown kind are passed over, and
\* a fork or an allocation that fails is not reported at all.
NothingStarts ==
    LET j == cur[1] IN
    /\ pc = "acking" /\ reply = "ok"
    /\ \/ /\ Kind[j] = "script_exec" /\ j \in BadPayload
          /\ results' = results \cup {<<j, cur[2], "failed">>} /\ UNCHANGED lost
       \/ /\ Kind[j] \in SessionKinds /\ (j \in BadPayload \/ Kind[j] \notin AgentKinds)
          /\ UNCHANGED <<results, lost>>
       \/ /\ "spawn" \in Faults /\ Kind[j] \in AgentKinds
          /\ lost' = lost \cup {j} /\ UNCHANGED results
    /\ Resume
    /\ UNCHANGED <<storeVars, todo, cache, expired, workers, stopping, acks, beats, runs>>

WorkerBeats(w) ==
    /\ w \in workers /\ Kind[w[1]] = "script_exec"
    /\ beats' = beats \cup {w}
    /\ UNCHANGED <<storeVars, pc, todo, cur, reply, cache, expired, workers, stopping,
                   acks, results, runs, lost>>

\* A worker that was asked to stop reports cancelled, unless its process exited
\* or ran out of time first.
WorkerEnds(w, outcome) ==
    /\ w \in workers /\ Kind[w[1]] \notin SessionKinds
    /\ outcome = "cancelled" => w \in stopping
    /\ workers' = workers \ {w} /\ stopping' = stopping \ {w}
    /\ results' = results \cup {<<w[1], w[2], outcome>>}
    /\ IF pc = "collecting" /\ cur = w THEN Resume ELSE UNCHANGED <<pc, cur, reply>>
    /\ UNCHANGED <<storeVars, todo, cache, expired, acks, beats, runs, lost>>

\* A session worker posts no result: the session was the work.
SessionWorkerEnds(w) ==
    /\ w \in workers /\ Kind[w[1]] \in SessionKinds
    /\ workers' = workers \ {w}
    /\ UNCHANGED <<storeVars, pc, todo, cur, reply, cache, expired, stopping,
                   acks, beats, results, runs, lost>>

-----------------------------------------------------------------------------
(* The hub handles a request.  Under "dup" a request can be handled again.  *)

Handled(m, from) == IF "dup" \in Faults THEN {from \ {m}, from} ELSE {from \ {m}}

HubAck(o) ==
    LET ok == CanAcknowledge(Agent, o[1], o[2], TRUE)
        waiting == pc = "acking" /\ cur = o /\ reply = "none"
    IN  /\ o \in acks /\ acks' \in Handled(o, acks)
        /\ IF ok THEN AcknowledgeJob(Agent, o[1], o[2], TRUE) ELSE UNCHANGED storeVars
        /\ reply' = IF waiting THEN (IF ok THEN "ok" ELSE "refused") ELSE reply
        /\ lost' = IF ok /\ state[o[1]] = "offered" /\ ~ waiting THEN lost \cup {o[1]} ELSE lost
        /\ UNCHANGED <<pc, todo, cur, cache, expired, workers, stopping, beats, results, runs>>

\* The reply's cancel flag reaches the worker, unless it ended or the reply is lost.
HubBeat(w, p) ==
    LET asks == state[w[1]] = "cancel_requested" /\ CanHeartbeat(Agent, w[1], w[2])
    IN  /\ w \in beats /\ beats' = beats \ {w}
        /\ IF CanHeartbeat(Agent, w[1], w[2])
           THEN RecordHeartbeat(Agent, w[1], w[2], p) ELSE UNCHANGED storeVars
        /\ \/ stopping' = stopping \cup (IF asks THEN {w} \cap workers ELSE {})
           \/ "beat" \in Faults /\ stopping' = stopping
        /\ UNCHANGED <<pc, todo, cur, reply, cache, expired, workers,
                       acks, results, runs, lost>>

HubResult(r) ==
    /\ r \in results /\ results' \in Handled(r, results)
    /\ IF CanComplete(Agent, r[1], r[2], r[3])
       THEN CompleteJob(Agent, r[1], r[2], r[3]) ELSE UNCHANGED storeVars
    /\ UNCHANGED <<pc, todo, cur, reply, cache, expired, workers, stopping,
                   acks, beats, runs, lost>>

-----------------------------------------------------------------------------
(* The hub's other callers, the clock, and what can go wrong.               *)

HubActs ==
    /\ \E j \in Jobs :
          \/ Cardinality(Created) < MaxJobs /\ CreateJob(j)
          \/ CancelJob(j) \/ ExpireLease(j)
          \/ \E unclean \in BOOLEAN : EndSessionJob(j, unclean)
    /\ UNCHANGED agentVars

GrantExpires(j) ==
    /\ j \in Created \ expired
    /\ expired' = expired \cup {j}
    /\ UNCHANGED <<storeVars, pc, todo, cur, reply, cache, workers, stopping,
                   acks, beats, results, runs, lost>>

LoseRequest ==
    /\ \/ \E o \in acks : /\ "ack" \in Faults /\ acks' = acks \ {o}
                          /\ UNCHANGED <<beats, results, lost>>
       \/ \E w \in beats : /\ "beat" \in Faults /\ beats' = beats \ {w}
                           /\ UNCHANGED <<acks, results, lost>>
       \/ \E r \in results : /\ "result" \in Faults /\ results' = results \ {r}
                             /\ lost' = lost \cup {r[1]}
                             /\ UNCHANGED <<acks, beats>>
    /\ UNCHANGED <<storeVars, pc, todo, cur, reply, cache, expired, workers, stopping, runs>>

\* A detached worker dies without posting.  (When an inline job's child dies,
\* the daemon posts failed: that is WorkerEnds.)
WorkerDies(w) ==
    /\ "crash" \in Faults /\ w \in workers /\ Kind[w[1]] \notin InlineKinds
    /\ workers' = workers \ {w} /\ stopping' = stopping \ {w}
    /\ lost' = lost \cup {w[1]}
    /\ UNCHANGED <<storeVars, pc, todo, cur, reply, cache, expired,
                   acks, beats, results, runs>>

\* The daemon restarts.  Detached workers outlive it, the cache is on disk.
AgentCrash ==
    /\ "crash" \in Faults
    /\ Resume /\ todo' = {}
    /\ cache' \in IF "cache" \in Faults THEN SUBSET cache ELSE {cache}
    /\ workers' = IF pc = "collecting" THEN workers \ {cur} ELSE workers
    /\ lost' = IF pc = "collecting" \/ reply = "ok" THEN lost \cup {cur[1]} ELSE lost
    /\ UNCHANGED <<storeVars, expired, stopping, acks, beats, results, runs>>

AgentStep ==
    \/ Beat
    \/ \E o \in todo : DropOffer(o) \/ AcceptOffer(o)
    \/ AckFails \/ AckRefused \/ StartWorker \/ NothingStarts
    \/ \E w \in workers : \/ WorkerBeats(w) \/ SessionWorkerEnds(w) \/ WorkerDies(w)
                          \/ \E outcome \in Terminal : WorkerEnds(w, outcome)
    \/ AgentCrash

HubStep ==
    \/ \E o \in acks : HubAck(o)
    \/ \E w \in beats, p \in Phases : HubBeat(w, p)
    \/ \E r \in results : HubResult(r)
    \/ HubActs

DNext == AgentStep \/ HubStep \/ LoseRequest \/ \E j \in Jobs : GrantExpires(j)

DSpec == DInit /\ [][DNext]_vars

\* The daemon's loop and its bounded posts go on, scripts and collections have
\* time limits, the hub answers what reaches it, leases run out by the clock,
\* and the session sweeper ends every session job (sessions have a maximum
\* length).  No fault has to happen, none has to stop happening.
DFairness ==
    /\ WF_vars(Beat)
    /\ WF_vars(\E o \in todo : DropOffer(o) \/ AcceptOffer(o))
    /\ WF_vars(AckRefused \/ StartWorker \/ NothingStarts)
    /\ WF_vars(AckFails)
    /\ WF_vars(\E o \in acks : HubAck(o) /\ o \notin acks')
    /\ WF_vars(\E r \in results : HubResult(r) /\ r \notin results')
    /\ WF_vars(\E w \in workers, outcome \in Terminal : WorkerEnds(w, outcome))
    /\ \A j \in Jobs : WF_vars(ExpireLease(j) /\ UNCHANGED agentVars)
    /\ \A j \in Jobs : WF_vars((\E u \in BOOLEAN : EndSessionJob(j, u)) /\ UNCHANGED agentVars)

DFairSpec == DSpec /\ DFairness

-----------------------------------------------------------------------------
DTypeOK ==
    /\ TypeOK
    /\ pc \in {"loop", "acking", "collecting"}
    /\ todo \subseteq Jobs \X Nat
    /\ cur \in (Jobs \X Nat) \cup {NoOffer}
    /\ reply \in {"none", "ok", "refused"}
    /\ cache \subseteq Jobs /\ expired \subseteq Jobs /\ lost \subseteq Jobs
    /\ workers \subseteq Jobs \X Nat /\ stopping \subseteq workers
    /\ acks \subseteq Jobs \X Nat /\ beats \subseteq Jobs \X Nat
    /\ results \subseteq Jobs \X Nat \X Terminal
    /\ runs \in [Jobs -> Nat]

\* A job's action starts at most once, whatever is lost, repeated or late and
\* even when the replay cache has lost its entry: the hub's ack is the gate.
RunsAtMostOnce == \A j \in Jobs : runs[j] <= 1

\* A job the operator or the session sweeper withdrew before an agent took it is
\* never started, however its ack and the cancel cross on the network.
WithdrawnNeverRuns ==
    \A j \in Jobs :
        {<<"queued", "cancelled">>, <<"offered", "cancelled">>} \cap audit[j] # {} => runs[j] = 0

\* A running script or collection holds its job: the job is taken under the
\* worker's own lease and has not ended, so no heartbeat or result of it can be
\* refused and no ended job still has something running.
WorkerHoldsJob ==
    \A w \in workers :
        /\ lease[w[1]] = w[2]
        /\ state[w[1]] \in Taken \/ (Kind[w[1]] \in SessionKinds /\ state[w[1]] \in Terminal)

\* A result on its way to the hub is for the job's current lease and finds the
\* job taken, or already ended by an earlier copy of itself.
ResultsFindTheirJob ==
    \A r \in results : lease[r[1]] = r[2] /\ state[r[1]] \in Taken \cup {r[3]}

\* A script or collection the hub counts as taken is really somebody's: about to
\* start, running, or reported, unless a fault destroyed the work or its report.
TakenIsSomebodys ==
    \A j \in Jobs :
        state[j] \in Taken /\ Kind[j] \notin SessionKinds =>
            \/ j \in lost
            \/ pc = "acking" /\ cur[1] = j /\ reply = "ok"
            \/ \E w \in workers : w[1] = j
            \/ \E r \in results : r[1] = j

\* Success of a script or collection means that it ran.
SucceededRan ==
    \A j \in Jobs : state[j] = "succeeded" /\ Kind[j] \notin SessionKinds => runs[j] = 1

\* Every job ends, unless a fault destroyed its work or its report: a refused
\* offer, a replay hit, a lost ack or an expired grant all end in a failed job.
EndsUnlessLost ==
    \A j \in Jobs : (state[j] # "none") ~> (state[j] \in Terminal \/ j \in lost)
=============================================================================
