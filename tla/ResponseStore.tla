--------------------------- MODULE ResponseStore ---------------------------
(***************************************************************************)
(* The hub's durable response job store (hub/pkg/response).  Every method  *)
(* holds the store's mutex from its first read to its last write, so one   *)
(* method is one action.  The callers are arbitrary: any request that an   *)
(* agent, an operator or the hub itself could send, late, repeated or out  *)
(* of order, with any lease the store ever issued.                         *)
(*                                                                         *)
(* A lease id is a fresh uuid per offer.  Requests are matched per job, so *)
(* the pair of a job and the number of the heartbeat that offered it names *)
(* the lease.  The clock appears only as lease_expires_at against now:     *)
(* leaseLive[j] says the current lease has not run out.                    *)
(***************************************************************************)
EXTENDS Naturals, FiniteSets, FiniteSetsExt

CONSTANTS
    Jobs,             \* job ids that may be created
    Endpoints,
    Endpoint,         \* [Jobs -> Endpoints]  endpoint_id
    Kind,             \* [Jobs -> Kinds]      kind
    Key,              \* [Jobs -> Keys \cup {NoKey}] tenant and idempotency key
    NoKey,
    Size,             \* [Jobs -> Nat]        len(request_json)
    Phases,           \* the phases a supervisor reports
    OfferBytesMax,    \* offerBytesMax
    OfferAttemptsMax, \* offerAttemptsMax
    MaxOffers         \* the telemetry handler passes 4

Kinds == {"script_exec", "forensic_collection", "terminal_session", "screen_session"}

SessionKinds == {"terminal_session", "screen_session"}

ASSUME StoreAssumption ==
    /\ IsFiniteSet(Jobs)
    /\ Endpoint \in [Jobs -> Endpoints]
    /\ Kind \in [Jobs -> Kinds]
    /\ Size \in [Jobs -> Nat]
    /\ "none" \notin Phases
    /\ OfferBytesMax \in Nat
    /\ OfferAttemptsMax \in Nat \ {0}
    /\ MaxOffers \in Nat \ {0}

VARIABLES
    state,      \* state, "none" while there is no row
    requested,  \* requested_at: how many jobs were created before this one
    lease,      \* lease_id, 0 while NULL
    leaseLive,  \* ~ (lease_expires_at < now)
    attempt,    \* attempt
    phase,      \* phase of the response_job_progress row, "none" without one
    audit,      \* <<from_state, to_state>> of the job's audit rows, from # to
    nextLease   \* the lease the next heartbeat's offers get

storeVars == <<state, requested, lease, leaseLive, attempt, phase, audit, nextLease>>

Open == {"queued", "offered"}
Taken == {"acknowledged", "running", "cancel_requested"}
Terminal == {"succeeded", "failed", "cancelled"}
States == {"none"} \cup Open \cup Taken \cup Terminal

SucceedsUntaken(from, to) ==
    \/ from = to
    \/ from = "queued" /\ to \in {"offered", "cancelled"}
    \/ from = "offered" /\ to \in {"acknowledged", "failed", "queued", "cancelled", "succeeded"}
    \/ from = "acknowledged" /\ to \in {"running", "succeeded", "failed", "cancel_requested", "cancelled"}
    \/ from = "running" /\ to \in {"succeeded", "failed", "cancel_requested", "cancelled"}
    \/ from = "cancel_requested" /\ to \in Terminal

IsValidTransition(from, to) ==
    \/ from = to
    \/ from = "queued" /\ to \in {"offered", "cancelled"}
    \/ from = "offered" /\ to \in {"acknowledged", "failed", "queued", "cancelled"}
    \/ from = "acknowledged" /\ to \in {"running", "succeeded", "failed", "cancel_requested", "cancelled"}
    \/ from = "running" /\ to \in {"succeeded", "failed", "cancel_requested", "cancelled"}
    \/ from = "cancel_requested" /\ to \in Terminal

Init ==
    /\ state = [j \in Jobs |-> "none"]
    /\ requested = [j \in Jobs |-> 0]
    /\ lease = [j \in Jobs |-> 0]
    /\ leaseLive = [j \in Jobs |-> FALSE]
    /\ attempt = [j \in Jobs |-> 0]
    /\ phase = [j \in Jobs |-> "none"]
    /\ audit = [j \in Jobs |-> {}]
    /\ nextLease = 1

\* The rows recordAudit adds; one that leaves the state as it was (a repeated
\* ack, progress, a new phase) tells nothing about transitions and is left out.
Row(from, to) == IF from = to THEN {} ELSE {<<from, to>>}

\* An UPDATE of one row's state, and its recordAudit.
Becomes(j, to) ==
    /\ state' = [state EXCEPT ![j] = to]
    /\ audit' = [audit EXCEPT ![j] = @ \cup Row(state[j], to)]

Created == {j \in Jobs : state[j] # "none"}

\* A key that some row already has returns that row and changes nothing.
CreateJob(j) ==
    /\ state[j] = "none"
    /\ Key[j] = NoKey \/ \A k \in Created : Key[k] # Key[j]
    /\ Becomes(j, "queued")
    /\ requested' = [requested EXCEPT ![j] = Cardinality(Created)]
    /\ UNCHANGED <<lease, leaseLive, attempt, phase, nextLease>>

-----------------------------------------------------------------------------
(* OfferPendingJobs: the rows the query returns, and how far the loop gets. *)

\* The mutant forgets that a taken job is not pending once its lease ran out.
PendingTaken(e) ==
    {j \in Jobs : /\ Endpoint[j] = e
                  /\ \/ state[j] = "queued"
                     \/ state[j] \in {"offered", "acknowledged"} /\ ~ leaseLive[j]}

Pending(e) ==
    {j \in Jobs : /\ Endpoint[j] = e
                  /\ \/ state[j] = "queued"
                     \/ state[j] = "offered" /\ ~ leaseLive[j]}

Before(j, k) == requested[j] < requested[k]

\* ORDER BY requested_at LIMIT maxOffers
Items(e) ==
    LET pending == Pending(e)
    IN  {j \in pending : Cardinality({k \in pending : Before(k, j)}) < MaxOffers}

ExhaustedLate(j) == state[j] = "offered" /\ attempt[j] > OfferAttemptsMax

Exhausted(j) == state[j] = "offered" /\ attempt[j] >= OfferAttemptsMax

Offerable(e) == {j \in Items(e) : ~ Exhausted(j)}

BreaksAlone(offerable, j) ==
    LET earlier == {k \in offerable : Before(k, j)}
    IN  MapThenSumSet(LAMBDA k : Size[k], earlier) + Size[j] > OfferBytesMax

\* The loop breaks at this item: it is not the first offer, and it does not fit.
Breaks(offerable, j) ==
    LET earlier == {k \in offerable : Before(k, j)}
    IN  /\ earlier # {}
        /\ MapThenSumSet(LAMBDA k : Size[k], earlier) + Size[j] > OfferBytesMax

Reached(e) ==
    LET offerable == Offerable(e)
        stops == {k \in offerable : Breaks(offerable, k)}
    IN  {j \in Items(e) : \A k \in stops : Before(j, k)}

Offers(e) == {j \in Reached(e) : ~ Exhausted(j)}

NeverTakenSkipped(e) == {}

NeverTaken(e) == {j \in Reached(e) : Exhausted(j)}

OfferPendingJobs(e) ==
    LET offers == Offers(e)
        dead == NeverTaken(e)
        to(j) == IF j \in offers THEN "offered" ELSE "failed"
    IN  /\ state' = [j \in Jobs |-> IF j \in offers \cup dead THEN to(j) ELSE state[j]]
        /\ audit' = [j \in Jobs |-> IF j \in offers \cup dead
                                    THEN audit[j] \cup Row(state[j], to(j)) ELSE audit[j]]
        /\ lease' = [j \in Jobs |-> IF j \in offers THEN nextLease ELSE lease[j]]
        /\ leaseLive' = [j \in Jobs |-> IF j \in offers THEN TRUE ELSE leaseLive[j]]
        /\ attempt' = [j \in Jobs |-> IF j \in offers THEN attempt[j] + 1 ELSE attempt[j]]
        /\ nextLease' = IF offers = {} THEN nextLease ELSE nextLease + 1
        /\ UNCHANGED <<requested, phase>>

-----------------------------------------------------------------------------
(* What an endpoint reports.  A row without a lease cannot be scanned into  *)
(* the handler's string and is refused, hence lease[j] # 0.                 *)

LeasedTo(e, j, l) == state[j] # "none" /\ Endpoint[j] = e /\ lease[j] # 0 /\ lease[j] = l

CanAcknowledge(e, j, l, accepted) ==
    /\ LeasedTo(e, j, l) /\ leaseLive[j]
    /\ IsValidTransition(state[j], IF accepted THEN "acknowledged" ELSE "failed")

AcknowledgeJob(e, j, l, accepted) ==
    /\ CanAcknowledge(e, j, l, accepted)
    /\ Becomes(j, IF accepted THEN "acknowledged" ELSE "failed")
    /\ UNCHANGED <<requested, lease, leaseLive, attempt, phase, nextLease>>

RecordProgress(e, j, l) ==
    /\ LeasedTo(e, j, l) /\ leaseLive[j]
    /\ Becomes(j, IF state[j] = "acknowledged" THEN "running" ELSE state[j])
    /\ UNCHANGED <<requested, lease, leaseLive, attempt, phase, nextLease>>

CanHeartbeatOffered(e, j, l) == LeasedTo(e, j, l) /\ state[j] \in Taken \cup {"offered"}

CanHeartbeat(e, j, l) == LeasedTo(e, j, l) /\ state[j] \in Taken

RecordHeartbeatUnaudited(e, j, l, p) ==
    /\ CanHeartbeat(e, j, l)
    /\ phase' = [phase EXCEPT ![j] = p]
    /\ state' = [state EXCEPT ![j] = IF @ = "acknowledged" THEN "running" ELSE @]
    /\ UNCHANGED <<requested, lease, leaseLive, attempt, audit, nextLease>>

\* Only the first beat and a change of phase leave an audit row.
RecordHeartbeat(e, j, l, p) ==
    /\ CanHeartbeat(e, j, l)
    /\ phase' = [phase EXCEPT ![j] = p]
    /\ IF state[j] = "acknowledged" THEN Becomes(j, "running")
       ELSE IF phase[j] \notin {"none", p} THEN Becomes(j, state[j])
       ELSE UNCHANGED <<state, audit>>
    /\ UNCHANGED <<requested, lease, leaseLive, attempt, nextLease>>

\* A result for a job that has ended is answered with success and ignored.
CanComplete(e, j, l, outcome) ==
    /\ state[j] \notin Terminal
    /\ LeasedTo(e, j, l)
    /\ IsValidTransition(state[j], outcome)

CompleteJob(e, j, l, outcome) ==
    /\ CanComplete(e, j, l, outcome)
    /\ Becomes(j, outcome)
    /\ UNCHANGED <<requested, lease, leaseLive, attempt, phase, nextLease>>

-----------------------------------------------------------------------------
(* What operators and the hub's session sweeper do.                         *)

CancelTaken(j) ==
    LET to == "cancelled" IN
    /\ state[j] \notin Terminal \cup {"none"}
    /\ IsValidTransition(state[j], to)
    /\ Becomes(j, to)
    /\ UNCHANGED <<requested, lease, leaseLive, attempt, phase, nextLease>>

CancelJob(j) ==
    LET to == IF state[j] \in Open THEN "cancelled" ELSE "cancel_requested" IN
    /\ state[j] \notin Terminal \cup {"none"}
    /\ IsValidTransition(state[j], to)
    /\ Becomes(j, to)
    /\ UNCHANGED <<requested, lease, leaseLive, attempt, phase, nextLease>>

\* The session of a session job is over; unclean: it failed or never started.
EndSessionJob(j, unclean) ==
    LET to == IF state[j] \in Open THEN "cancelled"
              ELSE IF unclean THEN "failed" ELSE "succeeded" IN
    /\ state[j] # "none" /\ Kind[j] \in SessionKinds
    /\ state[j] # to /\ IsValidTransition(state[j], to)
    /\ Becomes(j, to)
    /\ UNCHANGED <<requested, lease, leaseLive, attempt, phase, nextLease>>

\* The two-minute lease runs out, whatever the job is doing.
ExpireLease(j) ==
    /\ leaseLive[j]
    /\ leaseLive' = [leaseLive EXCEPT ![j] = FALSE]
    /\ UNCHANGED <<state, requested, lease, attempt, phase, audit, nextLease>>

Next ==
    \/ \E j \in Jobs : CreateJob(j) \/ CancelJob(j) \/ ExpireLease(j)
    \/ \E j \in Jobs, unclean \in BOOLEAN : EndSessionJob(j, unclean)
    \/ \E e \in Endpoints : OfferPendingJobs(e)
    \/ \E e \in Endpoints, j \in Jobs, l \in 1 .. nextLease - 1 :
          \/ \E accepted \in BOOLEAN : AcknowledgeJob(e, j, l, accepted)
          \/ RecordProgress(e, j, l)
          \/ \E p \in Phases : RecordHeartbeat(e, j, l, p)
          \/ \E outcome \in Terminal : CompleteJob(e, j, l, outcome)

Spec == Init /\ [][Next]_storeVars

\* What can keep a job waiting.  A withdrawn job no longer waits, and by
\* KeepsContract neither does a taken one, so the other actions are left out.
WaitNext ==
    \/ \E j \in Jobs : CreateJob(j) \/ ExpireLease(j)
    \/ \E e \in Endpoints : OfferPendingJobs(e)
    \/ \E e \in Endpoints, j \in Jobs, l \in 1 .. nextLease - 1 :
          state[j] \in Open /\ AcknowledgeJob(e, j, l, TRUE)

\* Agents beat periodically and leases run out by the clock; nothing is assumed
\* of agents answering or of operators.
WaitSpec ==
    /\ Init /\ [][WaitNext]_storeVars
    /\ \A e \in Endpoints : WF_storeVars(OfferPendingJobs(e))
    /\ \A j \in Jobs : WF_storeVars(ExpireLease(j))

-----------------------------------------------------------------------------
TypeOK ==
    /\ state \in [Jobs -> States]
    /\ requested \in [Jobs -> Nat]
    /\ lease \in [Jobs -> Nat]
    /\ leaseLive \in [Jobs -> BOOLEAN]
    /\ attempt \in [Jobs -> Nat]
    /\ phase \in [Jobs -> Phases \cup {"none"}]
    /\ audit \in [Jobs -> SUBSET (States \X States)]
    /\ nextLease \in Nat \ {0}

\* The refinement mapping: the contract's stage and outcome of a stored job.
Stage(s) ==
    CASE s = "none" -> "absent"
      [] s \in Open -> "open"
      [] s \in Taken -> "taken"
      [] s \in Terminal -> "ended"

Contract == INSTANCE JobContract WITH
    stage <- [j \in Jobs |-> Stage(state[j])],
    outcome <- [j \in Jobs |-> IF state[j] \in Terminal THEN state[j] ELSE "none"]

\* The store implements the contract whatever its callers do: late, repeated
\* and misaddressed acks, heartbeats and results never take a job twice, never
\* reopen or re-decide an ended one, and never let an untaken job succeed.
KeepsContract == Contract!JobSpec

\* A job is offered at most offerAttemptsMax times: OfferPendingJobs fails it at
\* the next heartbeat after the lease of the last offer ran out.
OfferedWithinLimit == \A j \in Jobs : attempt[j] <= OfferAttemptsMax

\* The audit rows tell the job's whole story: they start at creation, follow
\* allowed transitions, and the one state they lead into and never out of is
\* the state the job is in.  An UPDATE without its recordAudit breaks this.
AuditExplainsState ==
    \A j \in Created :
        LET reached == {row[2] : row \in audit[j]}
            left == {row[1] : row \in audit[j]}
        IN  /\ <<"none", "queued">> \in audit[j]
            /\ \A row \in audit[j] : row[1] = "none" \/ IsValidTransition(row[1], row[2])
            /\ left \subseteq reached \cup {"none"}
            /\ reached \ left = {state[j]}

\* A job has a supervision row only if an agent's ack of it was accepted: a
\* heartbeat cannot stand in for the ack that the cancel path relies on.
SupervisedWasTaken ==
    \A j \in Jobs : phase[j] # "none" => <<"offered", "acknowledged">> \in audit[j]

\* One heartbeat's offers: the oldest job the query returns that may still be
\* offered always goes, even when it alone is over offerBytesMax; the offers
\* together are over it only when there is just that one; a younger job never
\* goes when an older one had to wait; and there are at most maxOffers.
OffersPacked ==
    \A e \in Endpoints :
        LET offers == Offers(e)
            offerable == Offerable(e)
        IN  /\ \A j \in offerable : (\A k \in offerable : ~ Before(k, j)) => j \in offers
            /\ \/ MapThenSumSet(LAMBDA j : Size[j], offers) <= OfferBytesMax
               \/ Cardinality(offers) = 1
            /\ \A j \in offers, k \in offerable : Before(k, j) => k \in offers
            /\ Cardinality(offers) <= MaxOffers

\* No job waits for ever: while its endpoint keeps beating, a queued or offered
\* job is taken, withdrawn, or failed with ErrNeverTaken, even if the agent
\* never answers an offer and older jobs are ahead of it.
NeverStuckOpen ==
    \A j \in Jobs : (state[j] \in Open) ~> (state[j] \notin Open)
=============================================================================
