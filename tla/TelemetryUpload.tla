--------------------------- MODULE TelemetryUpload ---------------------------
(***************************************************************************)
(* Telemetry batches between an agent's telemetry loop and the hub: the     *)
(* bounded queue of batches the hub could not take, their replay after an   *)
(* accepted heartbeat, and the hub's ledger of batch ids that keeps a       *)
(* replay from being stored again.                                          *)
(*                                                                          *)
(* A batch is its id.  Ids are never reused by the code; here an id nothing *)
(* refers to any more stands for the next new one (Fresh), so the loop can  *)
(* go on for ever over a finite set.  A request is a slot: the POST on its  *)
(* way and the handler it becomes, which goes on when the agent gives up.   *)
(***************************************************************************)
EXTENDS Integers, Sequences, FiniteSets

CONSTANTS
    Batches,
    Size,          \* length of a batch's body, in units of the byte budget
    Invalid,       \* batches the hub's validation refuses
    NoBatch,
    MaxItems,      \* UPLOAD_QUEUE_MAX_ITEMS
    MaxBytes,      \* UPLOAD_QUEUE_MAX_BYTES
    ReplayPerBeat, \* UPLOAD_QUEUE_REPLAY_PER_BEAT
    LedgerMax,     \* batchLedgerMax
    Slots,         \* requests in being at once (bound)
    NoSlot,
    MaxFaults      \* failures of network, hub and agent (bound)

ASSUME UploadAssumption ==
    /\ Size \in [Batches -> Nat] /\ Invalid \subseteq Batches
    /\ NoBatch \notin Batches /\ NoSlot \notin Slots
    /\ IsFiniteSet(Slots)
    /\ MaxItems \in Nat \ {0} /\ MaxBytes \in Nat
    /\ ReplayPerBeat \in Nat \ {0} /\ LedgerMax \in Nat \ {0}
    /\ MaxFaults \in Nat

VARIABLES
    \* the agent's telemetry loop
    apc,      \* where it is in SendTelemetryBatch
    cur,      \* the batch just built, or NoBatch
    queue, bytes,
    gzip,     \* g_HubTakesGzip
    sent,     \* replays of this beat
    final,    \* g_FinalBatch
    wait,     \* the request it waits for, or NoSlot
    fate,     \* held, delivered, or neither (not built, or counted as lost)
    \* the hub
    req,      \* requests: the batch, heartbeat or replay, step, status answered
    down,     \* the hub does not run
    modern,   \* the running hub names gzip in its replies and takes replays
    seen,     \* the ledger: "no", "storing" or "done" for each id
    \* history
    copies,   \* how often the batch's events were inserted
    forgot,   \* ids the ledger lost, or dropped although stored
    faults

agentVars == <<apc, cur, queue, bytes, gzip, sent, final, wait, fate>>
hubVars == <<req, down, modern, seen, copies, forgot>>
vars == <<agentVars, hubVars, faults>>

Steps == {"idle", "posted", "push", "replay", "replayed", "stopped"}
Fates == {"none", "held", "delivered"}
Stages == {"free", "sent", "ingest", "stored", "ok", "failed", "answer"}
Statuses == {"none", "accepted", "retry", "refused"}

Free == [batch |-> NoBatch, live |-> FALSE, at |-> "free", status |-> "none"]

Init ==
    /\ apc = "idle" /\ cur = NoBatch /\ queue = <<>> /\ bytes = 0
    /\ gzip = FALSE /\ sent = 0 /\ final = FALSE /\ wait = NoSlot
    /\ fate = [b \in Batches |-> "none"]
    /\ req = [s \in Slots |-> Free] /\ down = FALSE /\ modern = TRUE
    /\ seen = [b \in Batches |-> "no"]
    /\ copies = [b \in Batches |-> 0]
    /\ forgot = {} /\ faults = 0

Fault == faults < MaxFaults /\ faults' = faults + 1

-----------------------------------------------------------------------------
(* The agent: SendTelemetryBatch, the queue and ReplayQueuedTelemetry.     *)

Fresh(b) ==
    /\ fate[b] # "held" /\ seen[b] = "no"
    /\ \A s \in Slots : req[s].batch # b

\* The POST leaves on a slot not in use; a hub that is down has no request.
Post(b, live) ==
    /\ \E s \in Slots : req[s].at = "free"
    /\ wait' = CHOOSE s \in Slots : req[s].at = "free"
    /\ req' = IF down THEN req ELSE
                 [req EXCEPT ![wait'] =
                     [batch |-> b, live |-> live, at |-> "sent", status |-> "none"]]

\* A beat builds a batch under a new id and posts it; at shutdown one more.
Beat(b) ==
    /\ apc = "idle" /\ Fresh(b)
    /\ apc' = "posted" /\ cur' = b
    /\ fate' = [fate EXCEPT ![b] = "held"]
    /\ copies' = [copies EXCEPT ![b] = 0] /\ forgot' = forgot \ {b}
    /\ Post(b, TRUE)
    /\ UNCHANGED <<queue, bytes, gzip, sent, final, down, modern, seen, faults>>

Stop == final' = TRUE /\ apc = "idle" /\ ~final
        /\ UNCHANGED <<apc, cur, queue, bytes, gzip, sent, wait, fate, hubVars,
                       faults>>

AfterBeat == IF final THEN "stopped" ELSE "idle"

\* The answer the loop waits for has come; the request is over.
Answered(status) ==
    /\ wait # NoSlot /\ req[wait].at = "answer" /\ req[wait].status = status
    /\ req' = [req EXCEPT ![wait] = Free] /\ wait' = NoSlot

\* No HTTP answer: the connection is gone, or the time limit passes and the
\* request goes on without the loop.
GaveUp ==
    /\ wait # NoSlot /\ wait' = NoSlot /\ UNCHANGED req
    /\ IF req[wait].at = "free" THEN UNCHANGED faults ELSE Fault

Accepted ==
    /\ apc = "posted" /\ Answered("accepted")
    /\ \/ ~final /\ gzip' = modern /\ apc' = "replay"
       \/ final /\ apc' = "stopped" /\ UNCHANGED gzip
    /\ cur' = NoBatch /\ sent' = 0
    /\ fate' = [fate EXCEPT ![cur] = "delivered"]
    /\ UNCHANGED <<queue, bytes, final, down, modern, seen, copies, forgot,
                   faults>>

NotTaken ==
    /\ apc = "posted"
    /\ \/ Answered("retry") /\ UNCHANGED faults
       \/ GaveUp
    /\ apc' = "push"
    /\ UNCHANGED <<cur, queue, bytes, gzip, sent, final, fate, down, modern, seen,
                   copies, forgot>>

Refused ==
    /\ apc = "posted" /\ Answered("refused")
    /\ apc' = AfterBeat /\ cur' = NoBatch
    /\ fate' = [fate EXCEPT ![cur] = "none"]
    /\ UNCHANGED <<queue, bytes, gzip, sent, final, down, modern, seen, copies,
                   forgot, faults>>

FullByCount(b) == Len(queue) >= MaxItems

\* UploadQueue_Push: no room for b beside what is kept.
Full(b) ==
    Len(queue) >= MaxItems \/ bytes + Size[b] > MaxBytes

\* UploadQueue_DropOldest, one round of Push's loop.
DropOldest ==
    /\ apc = "push" /\ Size[cur] <= MaxBytes /\ queue # <<>> /\ Full(cur)
    /\ queue' = Tail(queue) /\ bytes' = bytes - Size[Head(queue)]
    /\ fate' = [fate EXCEPT ![Head(queue)] = "none"]
    /\ UNCHANGED <<apc, cur, gzip, sent, final, wait, hubVars, faults>>

\* A body larger than the whole budget is refused.
Push ==
    /\ apc = "push"
    /\ \/ /\ Size[cur] > MaxBytes
          /\ fate' = [fate EXCEPT ![cur] = "none"]
          /\ UNCHANGED <<queue, bytes>>
       \/ /\ Size[cur] <= MaxBytes /\ (queue = <<>> \/ ~Full(cur))
          /\ queue' = Append(queue, cur) /\ bytes' = bytes + Size[cur]
          /\ UNCHANGED fate
    /\ apc' = AfterBeat /\ cur' = NoBatch
    /\ UNCHANGED <<gzip, sent, final, wait, hubVars, faults>>

\* What is kept is lost to a hub that does not take replays.
ReplayDropsAll ==
    /\ apc = "replay" /\ ~gzip
    /\ fate' = [b \in Batches |->
                   IF \E i \in DOMAIN queue : queue[i] = b THEN "none"
                   ELSE fate[b]]
    /\ queue' = <<>> /\ bytes' = 0 /\ apc' = "idle"
    /\ UNCHANGED <<cur, gzip, sent, final, wait, hubVars, faults>>

MoreLate == sent <= ReplayPerBeat

More == sent < ReplayPerBeat

ReplayPost ==
    /\ apc = "replay" /\ gzip /\ queue # <<>> /\ More
    /\ apc' = "replayed" /\ Post(Head(queue), FALSE)
    /\ UNCHANGED <<cur, queue, bytes, gzip, sent, final, fate, down, modern, seen,
                   copies, forgot, faults>>

ReplayEnds ==
    /\ apc = "replay" /\ gzip /\ (queue = <<>> \/ ~More)
    /\ apc' = "idle"
    /\ UNCHANGED <<cur, queue, bytes, gzip, sent, final, wait, fate, hubVars,
                   faults>>

PopUncounted(how) ==
    /\ queue' = Tail(queue) /\ bytes' = bytes - Size[Head(queue)]
    /\ UNCHANGED fate /\ sent' = sent + 1 /\ apc' = "replay"

\* UploadQueue_Pop, the batch delivered or refused for good.
Pop(how) ==
    /\ queue' = Tail(queue) /\ bytes' = bytes - Size[Head(queue)]
    /\ fate' = [fate EXCEPT ![Head(queue)] = how]
    /\ sent' = sent + 1 /\ apc' = "replay"

Keep == apc' = "idle" /\ UNCHANGED <<queue, bytes, fate, sent>>

PopRefusedKept(how) == Keep

PopRefused(how) == Pop(how)

ReplayAnswered ==
    /\ apc = "replayed"
    /\ \/ Answered("accepted") /\ Pop("delivered") /\ UNCHANGED faults
       \/ Answered("refused") /\ PopRefused("none") /\ UNCHANGED faults
       \/ Answered("retry") /\ Keep /\ UNCHANGED faults
       \/ GaveUp /\ Keep
    /\ UNCHANGED <<cur, gzip, final, down, modern, seen, copies, forgot>>

\* The process ends: after its last batch, or killed anywhere.
AgentRestart ==
    /\ \/ (apc = "stopped" \/ (apc = "idle" /\ final)) /\ UNCHANGED faults
       \/ apc # "stopped" /\ ~final /\ Fault
    /\ apc' = "idle" /\ cur' = NoBatch /\ queue' = <<>> /\ bytes' = 0
    /\ gzip' = FALSE /\ sent' = 0 /\ final' = FALSE /\ wait' = NoSlot
    /\ fate' = [b \in Batches |-> IF fate[b] = "held" THEN "none" ELSE fate[b]]
    /\ UNCHANGED hubVars

-----------------------------------------------------------------------------
(* The hub: handleEvents and its batchLedger.                               *)

Known == {b \in Batches : seen[b] # "no"}

To(s, step, status) ==
    req' = [req EXCEPT ![s].at = step, ![s].status = status]

StoringIsDone(b) == seen[b] # "no"

\* begin: the id is stored.
IsDone(b) == seen[b] = "done"

StoringIsNew(b) == FALSE

\* begin: another request is storing it.
IsStoring(b) == seen[b] = "storing"

KeptAll == {Known}

\* begin: what may stay beside a new id.  A full ledger drops arbitrary ids.
Kept ==
    IF Cardinality(Known) < LedgerMax THEN {Known}
    ELSE {K \in SUBSET Known : Cardinality(K) = LedgerMax - 1}

Begin(s) ==
    LET b == req[s].batch IN
    /\ req[s].at = "sent"
    /\ \/ IsDone(b) /\ To(s, "answer", "accepted") /\ UNCHANGED <<seen, forgot>>
       \/ /\ IsStoring(b) /\ ~IsDone(b)
          /\ To(s, "answer", "retry") /\ UNCHANGED <<seen, forgot>>
       \/ /\ ~IsDone(b) /\ ~IsStoring(b) /\ To(s, "ingest", "none")
          /\ \E K \in Kept :
                /\ seen' = [c \in Batches |->
                               IF c = b THEN "storing"
                               ELSE IF c \in K THEN seen[c] ELSE "no"]
                /\ forgot' = forgot \cup (Known \ K)
    /\ UNCHANGED <<agentVars, down, modern, copies, faults>>

\* The request is refused before the ledger: credential, certificate, body.
Reject(s) ==
    /\ req[s].at = "sent" /\ Fault /\ To(s, "answer", "refused")
    /\ UNCHANGED <<agentVars, down, modern, seen, copies, forgot>>

\* ingestTelemetry and ingestTelemetryReplay up to InsertTelemetryBatch.
Ingest(s) ==
    LET b == req[s].batch IN
    /\ req[s].at = "ingest"
    /\ \/ b \in Invalid /\ To(s, "failed", "refused") /\ UNCHANGED <<copies, faults>>
       \/ b \notin Invalid /\ Fault /\ To(s, "failed", "retry") /\ UNCHANGED copies
       \/ /\ b \notin Invalid /\ To(s, "stored", "none") /\ UNCHANGED faults
          /\ copies' = [copies EXCEPT ![b] = @ + 1]
    /\ UNCHANGED <<agentVars, down, modern, seen, forgot>>

\* The control reply of a heartbeat, built after the insert, can fail.
Control(s) ==
    /\ req[s].at = "stored"
    /\ \/ To(s, "ok", "accepted") /\ UNCHANGED faults
       \/ req[s].live /\ To(s, "failed", "retry") /\ Fault
    /\ UNCHANGED <<agentVars, down, modern, seen, copies, forgot>>

\* finish, and the answer that follows it.
Finish(s) ==
    LET b == req[s].batch IN
    /\ \/ /\ req[s].at = "ok"
          /\ seen' = [seen EXCEPT ![b] = "done"] /\ UNCHANGED forgot
       \/ /\ req[s].at = "failed"
          /\ seen' = [seen EXCEPT ![b] = "no"]
          /\ forgot' = IF copies[b] > 0 THEN forgot \cup {b} ELSE forgot
    /\ req' = [req EXCEPT ![s].at = "answer"]
    /\ UNCHANGED <<agentVars, down, modern, copies, faults>>

\* A request nobody waits for is lost on the way, or its answer unheard.
Unheard(s) ==
    /\ wait # s /\ req[s].at \in {"sent", "answer"}
    /\ req' = [req EXCEPT ![s] = Free]
    /\ UNCHANGED <<agentVars, down, modern, seen, copies, forgot, faults>>

Outstanding(b) == fate[b] = "held" \/ \E s \in Slots : req[s].batch = b

\* batchLedgerTTL passes.
Expire(b) ==
    /\ b \in Known /\ seen' = [seen EXCEPT ![b] = "no"]
    /\ \/ /\ Outstanding(b) /\ Fault /\ forgot' = forgot \cup {b}
          /\ UNCHANGED <<fate, copies>>
       \/ /\ ~Outstanding(b) /\ forgot' = forgot \ {b}
          /\ fate' = [fate EXCEPT ![b] = "none"]
          /\ copies' = [copies EXCEPT ![b] = 0]
          /\ UNCHANGED faults
    /\ UNCHANGED <<apc, cur, queue, bytes, gzip, sent, final, wait, req, down,
                   modern>>

\* Handlers and ledger are gone, and every connection.
HubStop ==
    /\ ~down /\ Fault /\ down' = TRUE
    /\ req' = [s \in Slots |-> Free]
    /\ seen' = [b \in Batches |-> "no"] /\ forgot' = forgot \cup Known
    /\ UNCHANGED <<agentVars, modern, copies>>

\* Perhaps as another release.
HubStart ==
    /\ down /\ down' = FALSE /\ modern' \in BOOLEAN
    /\ UNCHANGED <<agentVars, req, seen, copies, forgot, faults>>

-----------------------------------------------------------------------------
AgentNext ==
    \/ \E b \in Batches : Beat(b)
    \/ Stop \/ Accepted \/ NotTaken \/ Refused \/ DropOldest \/ Push
    \/ ReplayDropsAll \/ ReplayPost \/ ReplayEnds
    \/ ReplayAnswered \/ AgentRestart

HubNext ==
    \/ \E s \in Slots : \/ Begin(s) \/ Reject(s) \/ Ingest(s) \/ Control(s)
                        \/ Finish(s) \/ Unheard(s)
    \/ \E b \in Batches : Expire(b)
    \/ HubStop \/ HubStart

Next == AgentNext \/ HubNext

Spec == Init /\ [][Next]_vars

(* The loop beats every few seconds, waits a bounded time for an answer, and *)
(* a handler that started finishes; entries of the ledger grow old.          *)
AgentGoesOn ==
    \/ \E b \in Batches : Beat(b)
    \/ Accepted \/ NotTaken \/ Refused \/ DropOldest \/ Push
    \/ ReplayDropsAll \/ ReplayPost \/ ReplayEnds
    \/ ReplayAnswered \/ (apc = "stopped" /\ AgentRestart)

HandlerGoesOn(s) == Begin(s) \/ Ingest(s) \/ Control(s) \/ Finish(s) \/ Unheard(s)

FairSpec ==
    /\ Spec /\ WF_vars(AgentGoesOn)
    /\ \A s \in Slots : WF_vars(HandlerGoesOn(s))
    /\ WF_vars(HubStart)
    /\ \A b \in Batches : WF_vars(~Outstanding(b) /\ Expire(b))

-----------------------------------------------------------------------------
(* Every variable keeps its type.                                           *)
TypeOK ==
    /\ apc \in Steps /\ cur \in Batches \cup {NoBatch}
    /\ queue \in Seq(Batches) /\ bytes \in Nat /\ gzip \in BOOLEAN
    /\ sent \in 0..ReplayPerBeat /\ final \in BOOLEAN
    /\ wait \in Slots \cup {NoSlot} /\ fate \in [Batches -> Fates]
    /\ req \in [Slots -> [batch : Batches \cup {NoBatch}, live : BOOLEAN,
                          at : Stages, status : Statuses]]
    /\ down \in BOOLEAN /\ modern \in BOOLEAN
    /\ seen \in [Batches -> {"no", "storing", "done"}]
    /\ copies \in [Batches -> Nat] /\ forgot \subseteq Batches
    /\ faults \in 0..MaxFaults

(* SendTelemetryBatch never mislays a batch: what it has neither delivered   *)
(* nor counted as dropped is in its hands or in the queue, and only once.    *)
HeldOnce ==
    /\ \A b \in Batches :
          fate[b] = "held" <=> (b = cur \/ \E i \in DOMAIN queue : queue[i] = b)
    /\ \A i, j \in DOMAIN queue : queue[i] = queue[j] => i = j
    /\ \A i \in DOMAIN queue : queue[i] # cur

(* A batch the agent lets go as delivered is in the hub's database: neither  *)
(* "duplicate" nor a late answer makes it drop the only copy.                *)
DeliveredIsStored == \A b \in Batches : fate[b] = "delivered" => copies[b] > 0

(* The ledger: a batch's events are inserted once, unless its id was         *)
(* forgotten (restart, age, a full ledger, or a control reply that failed    *)
(* after the insert).                                                        *)
StoredOnce == \A b \in Batches : copies[b] > 1 => b \in forgot

Total ==
    LET sum[i \in 0..Len(queue)] ==
            IF i = 0 THEN 0 ELSE sum[i - 1] + Size[queue[i]]
    IN  sum[Len(queue)]

(* The queue stays within both bounds, and its byte counter is exact through *)
(* every push, eviction and pop.                                             *)
QueueBounded == Len(queue) <= MaxItems /\ bytes = Total /\ bytes <= MaxBytes

(* The ledger stays bounded: finish may put back ids begin had evicted, but  *)
(* no more than there were other requests being stored.                      *)
LedgerBounded == Cardinality(Known) < LedgerMax + Cardinality(Slots)

(* As long as heartbeats are accepted, every batch the agent holds leaves    *)
(* its queue, delivered or counted: a batch the hub refuses does not block   *)
(* those behind it.                                                          *)
Drained ==
    []<>(apc = "replay") =>
        \A b \in Batches : fate[b] = "held" ~> fate[b] # "held"
=============================================================================
