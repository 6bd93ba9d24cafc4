--------------------------- MODULE JobReservation ---------------------------
(***************************************************************************)
(* The host-authority courier route: the hub reserves a job id for one     *)
(* endpoint and payload digest, a signer signs a grant that names it, and  *)
(* the hub queues the job under exactly that id.  A post of a signed grant *)
(* is two store calls, TakeReservation and then CreateJob; other posts,    *)
(* the clock and a restart of the hub can come between them.               *)
(***************************************************************************)
EXTENDS Naturals, FiniteSets

CONSTANTS
    Ids,        \* job ids (fresh uuids) that may be reserved
    Endpoints,
    Digests,    \* payload digests
    Posts,      \* signed-job requests that may arrive
    NoRow

Targets == [endpoint : Endpoints, digest : Digests]
Grants == [id : Ids, for : Targets]

ASSUME ReservationAssumption == NoRow \notin Targets /\ NoRow \notin Grants

VARIABLES
    rows,   \* response_job_reservations: [Ids -> row or NoRow]
    asked,  \* what each id was reserved for, kept after the row is gone
    lapsed, \* ids whose expires_at has passed
    stage,  \* how far each post got: "unsent", "took", "refused", "done", "dead"
    grant,  \* the grant of each post: the id it names and what it is for
    jobs,   \* the jobs created: [id, endpoint, digest, by]
    burnt   \* ids a mismatch, a lapse or a restart used up without a job

vars == <<rows, asked, lapsed, stage, grant, jobs, burnt>>


Init ==
    /\ rows = [i \in Ids |-> NoRow]
    /\ asked = [i \in Ids |-> NoRow]
    /\ lapsed = {}
    /\ stage = [p \in Posts |-> "unsent"]
    /\ grant = [p \in Posts |-> NoRow]
    /\ jobs = {}
    /\ burnt = {}

\* A fresh id for one endpoint and payload; rows that lapsed are deleted first.
ReserveJob(i, t) ==
    /\ asked[i] = NoRow
    /\ rows' = [k \in Ids |-> IF k = i THEN t
                              ELSE IF k \in lapsed THEN NoRow ELSE rows[k]]
    /\ asked' = [asked EXCEPT ![i] = t]
    /\ burnt' = burnt \cup {k \in lapsed : rows[k] # NoRow}
    /\ UNCHANGED <<lapsed, stage, grant, jobs>>

MatchesEndpoint(i, t) == rows[i] # NoRow /\ rows[i].endpoint = t.endpoint

Matches(i, t) == rows[i] = t

\* Every way out of the match leaves the row in place but success.
TakeReservationKeeps(p, i, t) ==
    /\ stage[p] = "unsent"
    /\ LET ok == rows[i] # NoRow /\ i \notin lapsed /\ Matches(i, t)
       IN  /\ stage' = [stage EXCEPT ![p] = IF ok THEN "took" ELSE "refused"]
           /\ grant' = [grant EXCEPT ![p] = [id |-> i, for |-> t]]
           /\ UNCHANGED <<rows, burnt>>
    /\ UNCHANGED <<asked, lapsed, jobs>>

\* The grant of a post names id i; the route has checked that the grant is for
\* the endpoint of the route and the digest of the payload, together t.
TakeReservation(p, i, t) ==
    /\ stage[p] = "unsent"
    /\ LET ok == rows[i] # NoRow /\ i \notin lapsed /\ Matches(i, t)
       IN  /\ stage' = [stage EXCEPT ![p] = IF ok THEN "took" ELSE "refused"]
           /\ grant' = [grant EXCEPT ![p] = [id |-> i, for |-> t]]
           /\ rows' = [rows EXCEPT ![i] = NoRow]
           /\ burnt' = IF rows[i] # NoRow /\ ~ ok THEN burnt \cup {i} ELSE burnt
    /\ UNCHANGED <<asked, lapsed, jobs>>

CreateJobDropped(p) ==
    /\ stage[p] = "took"
    /\ jobs' = jobs
    /\ stage' = [stage EXCEPT ![p] = "done"]
    /\ UNCHANGED <<rows, asked, lapsed, grant, burnt>>

\* CreateJob with the key "signed/<id>": the job takes the grant's id, unless a
\* job with that key is there already, which is then returned.
CreateJob(p) ==
    /\ stage[p] = "took"
    /\ jobs' = IF \E j \in jobs : j.id = grant[p].id THEN jobs
               ELSE jobs \cup {[id |-> grant[p].id, for |-> grant[p].for, by |-> p]}
    /\ stage' = [stage EXCEPT ![p] = "done"]
    /\ UNCHANGED <<rows, asked, lapsed, grant, burnt>>

\* ReservationTTL after its reservation.
Lapse(i) ==
    /\ asked[i] # NoRow /\ i \notin lapsed
    /\ lapsed' = lapsed \cup {i}
    /\ UNCHANGED <<rows, asked, stage, grant, jobs, burnt>>

\* The requests being handled are gone; the table and the jobs are on disk.
HubRestart ==
    /\ \E p \in Posts : stage[p] = "took"
    /\ stage' = [p \in Posts |-> IF stage[p] = "took" THEN "dead" ELSE stage[p]]
    /\ burnt' = burnt \cup {grant[p].id : p \in {q \in Posts : stage[q] = "took"}}
    /\ UNCHANGED <<rows, asked, lapsed, grant, jobs>>

Next ==
    \/ \E i \in Ids, t \in Targets : ReserveJob(i, t)
    \/ \E p \in Posts, i \in Ids, t \in Targets : TakeReservation(p, i, t)
    \/ \E p \in Posts : CreateJob(p)
    \/ \E i \in Ids : Lapse(i)
    \/ HubRestart

Spec == Init /\ [][Next]_vars

-----------------------------------------------------------------------------
TypeOK ==
    /\ rows \in [Ids -> Targets \cup {NoRow}]
    /\ asked \in [Ids -> Targets \cup {NoRow}]
    /\ lapsed \subseteq Ids /\ burnt \subseteq Ids
    /\ stage \in [Posts -> {"unsent", "took", "refused", "done", "dead"}]
    /\ grant \in [Posts -> Grants \cup {NoRow}]
    /\ jobs \subseteq [id : Ids, for : Targets, by : Posts]

\* "A reserved id is offered to one grant only" (TakeReservation): however
\* posts overlap, one post at most gets past the reservation of an id.
TakenByOnePost ==
    \A p, q \in Posts :
        /\ stage[p] \in {"took", "done"} /\ stage[q] \in {"took", "done"}
        /\ grant[p].id = grant[q].id
        => p = q

\* A job queued under a reserved id is the one the id was reserved for: that
\* endpoint, that payload, and no second job under the same id.
JobIsTheReservedOne ==
    \A j \in jobs : asked[j.id] = j.for /\ \A k \in jobs : k.id = j.id => k = j

\* No reserved id just disappears: it waits in its row, its post is being
\* handled, its job is queued, or it was used up by a mismatch, a lapse or a
\* restart between the two store calls.
ReservationAccounted ==
    \A i \in Ids :
        asked[i] # NoRow =>
            \/ rows[i] # NoRow
            \/ \E p \in Posts : stage[p] = "took" /\ grant[p].id = i
            \/ \E j \in jobs : j.id = i
            \/ i \in burnt
=============================================================================
