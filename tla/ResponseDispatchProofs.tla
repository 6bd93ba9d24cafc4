----------------------- MODULE ResponseDispatchProofs -----------------------
(***************************************************************************)
(* The agent against the store, for any jobs, kinds, limits and faults.    *)
(* The invariant follows one offer <<j, l>> through its life: waiting to   *)
(* be asked about, accepted by the hub, running, reported.  An offer is in *)
(* one of these places at a time, because the hub accepts only an ack of   *)
(* the job's current lease and a new lease is issued only to an open job.  *)
(***************************************************************************)
EXTENDS ResponseDispatch, ResponseStoreProofs

\* The job's ack was accepted and the agent knows, but nothing has started yet.
Accepted(j) == pc = "acking" /\ reply = "ok" /\ cur[1] = j

\* The offer's ack is still to be sent or to be answered.
Unanswered(o) == o \in todo \/ (pc = "acking" /\ reply = "none" /\ cur = o)

\* Where the loop is, and what kinds of job can be where.
LoopInv ==
    /\ pc # "loop" => cur \in Jobs \X Nat
    /\ pc = "collecting" => Kind[cur[1]] \in InlineKinds
    /\ reply # "none" => pc = "acking"
    /\ \A w \in beats \cup stopping : Kind[w[1]] = "script_exec"
    /\ pc = "acking" => cur \notin todo
    /\ acks \cap todo = {}

\* Every offer on the agent is of a lease its job was given.
LeaseInv ==
    /\ AttemptInv
    /\ \A o \in todo \cup acks \cup workers :
          Endpoint[o[1]] = Agent /\ 1 <= o[2] /\ o[2] <= lease[o[1]]
    /\ pc = "acking" => Endpoint[cur[1]] = Agent /\ 1 <= cur[2] /\ cur[2] <= lease[cur[1]]

\* One offer, one place: the job of an unanswered offer has not been taken.
AskInv ==
    \A o \in Jobs \X Nat : Unanswered(o) /\ o[2] = lease[o[1]] => state[o[1]] \notin Taken

AcceptInv ==
    \A j \in Jobs : Accepted(j) => /\ lease[j] = cur[2]
                                   /\ state[j] \in Taken \cup Terminal
                                   /\ runs[j] = 0
                                   /\ Kind[j] \notin SessionKinds => state[j] \in Taken

WorkInv ==
    \A w \in workers : /\ lease[w[1]] = w[2] /\ runs[w[1]] = 1
                       /\ state[w[1]] \in Taken \cup Terminal
                       /\ Kind[w[1]] \notin SessionKinds => state[w[1]] \in Taken

\* At most one report per job, and none while the job can still start or runs.
ReportInv ==
    \A r \in results : /\ lease[r[1]] = r[2] /\ 1 <= r[2] /\ Endpoint[r[1]] = Agent
                       /\ Kind[r[1]] \notin SessionKinds
                       /\ state[r[1]] \in Taken \cup {r[3]}
                       /\ ~ Accepted(r[1])
                       /\ \A w \in workers : w[1] # r[1]
                       /\ \A s \in results : s[1] = r[1] => s = r
                       /\ r[3] = "succeeded" => runs[r[1]] = 1

RunInv == \A j \in Jobs : runs[j] = 0 \/ (runs[j] = 1 /\ state[j] \in Taken \cup Terminal)

PlaceInv == AskInv /\ AcceptInv /\ WorkInv /\ ReportInv /\ RunInv

Withdrawals == {<<"queued", "cancelled">>, <<"offered", "cancelled">>}

\* What is known of a job that ended, and of one that has not.
EndInv ==
    /\ \A j \in Jobs : Withdrawals \cap audit[j] # {} =>
                          state[j] = "cancelled" /\ runs[j] = 0 /\ ~ Accepted(j)
    /\ SucceededRan
    /\ TakenIsSomebodys

DispatchInv == DTypeOK /\ LoopInv /\ LeaseInv /\ PlaceInv /\ EndInv

-----------------------------------------------------------------------------
\* Every step of the composition is a step of the store, or leaves it alone.
LEMMA StoreSteps ==
    ASSUME DTypeOK, AttemptInv, DNext
    PROVE  Next \/ UNCHANGED storeVars
<1>1. ASSUME NEW j \in Jobs, NEW l, LeasedTo(Agent, j, l)
      PROVE  l \in 1 .. nextLease - 1
    BY <1>1 DEF LeasedTo, AttemptInv, DTypeOK, TypeOK
<1>2. CASE AgentStep
    <2>1. CASE Beat
        BY <2>1, DispatchAssumption DEF Beat, Next
    <2> QED
        BY <1>2, <2>1 DEF AgentStep, DropOffer, AcceptOffer, AckFails, AckRefused, StartWorker,
                   NothingStarts, WorkerBeats, SessionWorkerEnds, WorkerDies, WorkerEnds, AgentCrash
<1>3. ASSUME NEW o \in acks, HubAck(o)
      PROVE  Next \/ UNCHANGED storeVars
    <2>1. o[1] \in Jobs
        BY DEF DTypeOK
    <2>2. CASE AcknowledgeJob(Agent, o[1], o[2], TRUE)
        BY ZenonT(30), <1>1, <2>1, <2>2, DispatchAssumption DEF AcknowledgeJob, CanAcknowledge, Next
    <2> QED BY ZenonT(30), <1>3, <2>2 DEF HubAck
<1>4. ASSUME NEW w \in beats, NEW p \in Phases, HubBeat(w, p)
      PROVE  Next \/ UNCHANGED storeVars
    <2>1. w[1] \in Jobs
        BY DEF DTypeOK
    <2>2. CASE RecordHeartbeat(Agent, w[1], w[2], p)
        BY ZenonT(30), <1>1, <2>1, <2>2, DispatchAssumption DEF RecordHeartbeat, CanHeartbeat, Next
    <2> QED BY <1>4, <2>2 DEF HubBeat
<1>5. ASSUME NEW r \in results, HubResult(r)
      PROVE  Next \/ UNCHANGED storeVars
    <2>1. r[1] \in Jobs /\ r[3] \in Terminal
        BY DEF DTypeOK
    <2>2. CASE CompleteJob(Agent, r[1], r[2], r[3])
        BY <1>1, <2>1, <2>2, DispatchAssumption DEF CompleteJob, CanComplete, Next
    <2> QED BY <1>5, <2>2 DEF HubResult
<1>6. CASE HubActs
    BY <1>6 DEF HubActs, Next
<1>7. CASE LoseRequest \/ \E j \in Jobs : GrantExpires(j)
    BY <1>7 DEF LoseRequest, GrantExpires
<1> QED BY <1>2, <1>3, <1>4, <1>5, <1>6, <1>7 DEF DNext, HubStep

\* One heartbeat, seen from the agent.
LEMMA OfferEffect ==
    ASSUME TypeOK, OfferPendingJobs(Agent)
    PROVE  \A j \in Jobs :
              /\ Withdrawals \cap audit'[j] = Withdrawals \cap audit[j]
              /\ IF j \in Offers(Agent)
                 THEN /\ Endpoint[j] = Agent /\ state[j] \in Open
                      /\ state'[j] = "offered" /\ lease'[j] = nextLease
                 ELSE /\ lease'[j] = lease[j]
                      /\ state'[j] = state[j] \/ (state[j] = "offered" /\ state'[j] = "failed")
<1> DEFINE offers == Offers(Agent)
           dead == NeverTaken(Agent)
<1>1. /\ \A j \in offers : state[j] \in Open /\ Endpoint[j] = Agent
      /\ \A j \in dead : state[j] = "offered" /\ j \notin offers
    BY DEF Offers, NeverTaken, Reached, Items, Pending, Exhausted, Open
<1> HIDE DEF offers, dead
<1>2. /\ state' = [j \in Jobs |-> IF j \in offers \cup dead
                                  THEN IF j \in offers THEN "offered" ELSE "failed" ELSE state[j]]
      /\ audit' = [j \in Jobs |-> IF j \in offers \cup dead
                                  THEN audit[j] \cup Row(state[j], IF j \in offers THEN "offered" ELSE "failed")
                                  ELSE audit[j]]
      /\ lease' = [j \in Jobs |-> IF j \in offers THEN nextLease ELSE lease[j]]
    BY DEF OfferPendingJobs, offers, dead
<1>3. ASSUME NEW s, NEW t \in {"offered", "failed"}
      PROVE  Withdrawals \cap Row(s, t) = {}
    BY DEF Withdrawals, Row
<1>4. ASSUME NEW j \in Jobs
      PROVE  Withdrawals \cap audit'[j] = Withdrawals \cap audit[j]
    BY <1>2, <1>3
<1>5. ASSUME NEW j \in Jobs
      PROVE  IF j \in offers
             THEN /\ Endpoint[j] = Agent /\ state[j] \in Open
                  /\ state'[j] = "offered" /\ lease'[j] = nextLease
             ELSE /\ lease'[j] = lease[j]
                  /\ state'[j] = state[j] \/ (state[j] = "offered" /\ state'[j] = "failed")
    BY <1>1, <1>2
<1> QED BY <1>4, <1>5 DEF offers

\* A move the hub may make at any time, under an agent that does not notice.
Quiet(j) ==
    /\ lease'[j] = lease[j]
    /\ \/ state'[j] = state[j]
       \/ state[j] = "none" /\ state'[j] = "queued"
       \/ state[j] \in Open /\ state'[j] = "cancelled"
       \/ state[j] \in Taken /\ state'[j] \in Taken
       \/ Kind[j] \in SessionKinds /\ state[j] \in Taken /\ state'[j] \in Terminal
    /\ Withdrawals \cap audit'[j] # {} =>
          Withdrawals \cap audit[j] # {} \/ (state[j] \in Open /\ state'[j] = "cancelled")

LEMMA BecomesQuiet ==
    ASSUME TypeOK, NEW j \in Jobs, NEW to, Becomes(j, to), lease' = lease,
           \/ to = state[j]
           \/ state[j] = "none" /\ to = "queued"
           \/ state[j] \in Open /\ to = "cancelled"
           \/ state[j] \in Taken /\ to \in Taken
           \/ Kind[j] \in SessionKinds /\ state[j] \in Taken /\ to \in Terminal
    PROVE  \A k \in Jobs : Quiet(k)
<1>1. ASSUME NEW k \in Jobs, k # j PROVE Quiet(k)
    BY <1>1 DEF Becomes, TypeOK, Quiet
<1>2. state'[j] = to /\ audit'[j] = audit[j] \cup Row(state[j], to)
    BY DEF Becomes, TypeOK
<1>3. Withdrawals \cap Row(state[j], to) # {} => state[j] \in Open /\ to = "cancelled"
    BY DEF Withdrawals, Row, Open
<1>4. Quiet(j)
    BY <1>2, <1>3 DEF Quiet
<1> QED BY <1>1, <1>4

LEMMA HubActsQuiet ==
    ASSUME TypeOK, HubActs
    PROVE  \A j \in Jobs : Quiet(j)
<1>1. ASSUME NEW j \in Jobs, CreateJob(j) PROVE \A k \in Jobs : Quiet(k)
    BY <1>1, BecomesQuiet DEF CreateJob
<1>2. ASSUME NEW j \in Jobs, CancelJob(j) PROVE \A k \in Jobs : Quiet(k)
    <2>1. PICK to : /\ to = IF state[j] \in Open THEN "cancelled" ELSE "cancel_requested"
                    /\ state[j] \notin Terminal \cup {"none"} /\ Becomes(j, to) /\ lease' = lease
        BY <1>2 DEF CancelJob
    <2>2. state[j] \in Open \cup Taken
        BY <2>1 DEF TypeOK, States
    <2>3. "cancel_requested" \in Taken
        BY DEF Taken
    <2>4. CASE state[j] \in Open
        BY <2>1, <2>4, BecomesQuiet
    <2>5. CASE state[j] \notin Open
        BY <2>1, <2>2, <2>3, <2>5, BecomesQuiet
    <2> QED BY <2>4, <2>5
<1>3. ASSUME NEW j \in Jobs, ExpireLease(j) PROVE \A k \in Jobs : Quiet(k)
    BY <1>3 DEF ExpireLease, Quiet
<1>4. ASSUME NEW j \in Jobs, NEW unclean \in BOOLEAN, EndSessionJob(j, unclean)
      PROVE  \A k \in Jobs : Quiet(k)
    <2> DEFINE to == IF state[j] \in Open THEN "cancelled"
                     ELSE IF unclean THEN "failed" ELSE "succeeded"
    <2>0. to \in Terminal /\ (state[j] \in Open => to = "cancelled")
        BY DEF to, Terminal
    <2>1. /\ IsValidTransition(state[j], to) /\ Becomes(j, to) /\ lease' = lease
          /\ state[j] # to /\ Kind[j] \in SessionKinds
        BY <1>4 DEF EndSessionJob
    <2> HIDE DEF to
    <2>2. ASSUME NEW s \in States, NEW t \in Terminal, s # t, IsValidTransition(s, t)
          PROVE  s \in Open \/ s \in Taken
        BY <2>2 DEF IsValidTransition, States, Open, Taken, Terminal
    <2>3. state[j] \in Open \/ state[j] \in Taken
        BY <2>0, <2>1, <2>2 DEF TypeOK
    <2>4. CASE state[j] \in Open
        BY <2>0, <2>1, <2>4, BecomesQuiet
    <2>5. CASE state[j] \in Taken
        BY <2>0, <2>1, <2>5, BecomesQuiet
    <2> QED BY <2>3, <2>4, <2>5
<1> QED BY <1>1, <1>2, <1>3, <1>4 DEF HubActs

LEMMA HeartbeatQuiet ==
    ASSUME TypeOK, NEW j \in Jobs, NEW l, NEW p, RecordHeartbeat(Agent, j, l, p)
    PROVE  \A k \in Jobs : Quiet(k)
<1>1. lease' = lease /\ state[j] \in Taken
    BY DEF RecordHeartbeat, CanHeartbeat
<1>2. \/ UNCHANGED <<state, audit>>
      \/ \E to : Becomes(j, to) /\ to \in Taken
    BY <1>1 DEF RecordHeartbeat, Taken
<1>3. CASE UNCHANGED <<state, audit>>
    BY <1>1, <1>3 DEF Quiet
<1> QED BY <1>1, <1>2, <1>3, BecomesQuiet

-----------------------------------------------------------------------------
LEMMA TypeStep ==
    ASSUME DTypeOK, LoopInv, AttemptInv, DNext
    PROVE  DTypeOK' /\ AttemptInv'
<1>1. TypeOK' /\ AttemptInv'
    <2>1. CASE Next
        BY <2>1, StepMoves, AttemptStep DEF DTypeOK
    <2>2. CASE UNCHANGED storeVars
        BY <2>2 DEF storeVars, TypeOK, AttemptInv, DTypeOK
    <2> QED BY <2>1, <2>2, StoreSteps
<1> USE DEF DTypeOK
<1> HIDE DEF TypeOK
<1>2. ASSUME Beat PROVE DTypeOK'
    <2>1. Offers(Agent) \subseteq Jobs
        BY DEF Offers, Reached, Items, Pending
    <2>2. \A S \in SUBSET Offers(Agent) : S \X {nextLease} \subseteq Jobs \X Nat
        BY <2>1 DEF TypeOK
    <2>3. todo' \subseteq Jobs \X Nat
        <3>1. PICK S \in IF "reply" \in Faults THEN Arrived(Offers(Agent)) ELSE {Offers(Agent)} :
                 todo' = S \X {nextLease}
            BY <1>2 DEF Beat
        <3>2. S \in SUBSET Offers(Agent)
            BY <3>1 DEF Arrived
        <3> QED BY <2>2, <3>1, <3>2
    <2> QED BY <1>1, <1>2, <2>3 DEF Beat
<1>3. ASSUME NEW o \in todo, DropOffer(o) \/ AcceptOffer(o) PROVE DTypeOK'
    BY <1>1, <1>3 DEF DropOffer, AcceptOffer
<1>4. ASSUME AckFails \/ AckRefused PROVE DTypeOK'
    BY <1>1, <1>4 DEF AckFails, AckRefused, Resume, LoopInv
<1>5. ASSUME StartWorker PROVE DTypeOK'
    BY <1>1, <1>5 DEF StartWorker, Resume, LoopInv
<1>6. ASSUME NothingStarts PROVE DTypeOK'
    <2>1. cur[1] \in Jobs /\ cur[2] \in Nat
        BY <1>6 DEF NothingStarts, LoopInv
    <2>2. results' \subseteq Jobs \X Nat \X Terminal /\ lost' \subseteq Jobs
        BY <1>6, <2>1 DEF NothingStarts, Terminal
    <2> QED BY <1>1, <1>6, <2>2 DEF NothingStarts, Resume
<1>7. ASSUME NEW w \in workers, WorkerBeats(w) PROVE DTypeOK'
    BY <1>1, <1>7 DEF WorkerBeats
<1>8. ASSUME NEW w \in workers, SessionWorkerEnds(w) PROVE DTypeOK'
    <2>1. w \notin stopping
        BY <1>8 DEF SessionWorkerEnds, LoopInv, SessionKinds
    <2> QED BY <1>1, <1>8, <2>1 DEF SessionWorkerEnds
<1>9. ASSUME NEW w \in workers, WorkerDies(w) PROVE DTypeOK'
    BY <1>1, <1>9 DEF WorkerDies
<1>10. ASSUME NEW w \in workers, NEW outcome \in Terminal, WorkerEnds(w, outcome) PROVE DTypeOK'
    BY <1>1, <1>10 DEF WorkerEnds, Resume
<1>11. ASSUME AgentCrash PROVE DTypeOK'
    <2>1. pc = "collecting" => cur \notin stopping
        BY DispatchAssumption DEF LoopInv
    <2>2. pc = "collecting" \/ reply = "ok" => cur[1] \in Jobs
        BY DEF LoopInv
    <2>3. cache' \subseteq Jobs
        BY <1>11 DEF AgentCrash
    <2>4. /\ pc' = "loop" /\ cur' = NoOffer /\ reply' = "none" /\ todo' = {}
          /\ workers' = IF pc = "collecting" THEN workers \ {cur} ELSE workers
          /\ lost' = IF pc = "collecting" \/ reply = "ok" THEN lost \cup {cur[1]} ELSE lost
          /\ UNCHANGED <<expired, stopping, acks, beats, results, runs>>
        BY <1>11 DEF AgentCrash, Resume
    <2> QED BY <1>1, <2>1, <2>2, <2>3, <2>4
<1>12. ASSUME NEW o \in acks, HubAck(o) PROVE DTypeOK'
    <2>1. acks' \subseteq acks
        BY <1>12 DEF HubAck, Handled
    <2>2. reply' \in {"none", "ok", "refused"} /\ lost' \subseteq Jobs
        BY ZenonT(30), <1>12 DEF HubAck
    <2> QED BY ZenonT(30), <1>1, <1>12, <2>1, <2>2 DEF HubAck
<1>13. ASSUME NEW w \in beats, NEW p \in Phases, HubBeat(w, p) PROVE DTypeOK'
    <2>1. stopping' \subseteq workers
        BY <1>13 DEF HubBeat
    <2> QED BY <1>1, <1>13, <2>1 DEF HubBeat
<1>14. ASSUME NEW r \in results, HubResult(r) PROVE DTypeOK'
    <2>1. results' \subseteq results
        BY <1>14 DEF HubResult, Handled
    <2> QED BY <1>1, <1>14, <2>1 DEF HubResult
<1>15. ASSUME HubActs PROVE DTypeOK'
    BY <1>1, <1>15 DEF HubActs, agentVars
<1>16. ASSUME LoseRequest PROVE DTypeOK'
    BY <1>1, <1>16 DEF LoseRequest
<1>17. ASSUME NEW j \in Jobs, GrantExpires(j) PROVE DTypeOK'
    BY <1>1, <1>17 DEF GrantExpires
<1> HIDE DEF DTypeOK
<1> QED BY <1>1, <1>2, <1>3, <1>4, <1>5, <1>6, <1>7, <1>8, <1>9, <1>10, <1>11, <1>12, <1>13,
           <1>14, <1>15, <1>16, <1>17 DEF DNext, AgentStep, HubStep

\* What a heartbeat reply can bring: new leases, each its job's current one.
LEMMA BeatBrings ==
    ASSUME DTypeOK, AttemptInv, Beat
    PROVE  /\ \A o \in todo' : /\ o[1] \in Offers(Agent) /\ o[2] = nextLease /\ lease'[o[1]] = nextLease
                               /\ Endpoint[o[1]] = Agent /\ state'[o[1]] = "offered"
           /\ \A j \in Jobs : lease'[j] = lease[j] \/ lease'[j] = nextLease
           /\ todo = {} /\ pc = "loop"
           /\ UNCHANGED <<pc, cur, reply, workers, stopping, acks, beats, results, runs, lost>>
<1>1. PICK S \in IF "reply" \in Faults THEN Arrived(Offers(Agent)) ELSE {Offers(Agent)} :
         todo' = S \X {nextLease}
    BY DEF Beat
<1>2. S \subseteq Offers(Agent)
    BY <1>1 DEF Arrived
<1>3. Offers(Agent) \subseteq Jobs
    BY DEF Offers, Reached, Items, Pending
<1>4. TypeOK /\ OfferPendingJobs(Agent)
    BY DEF Beat, DTypeOK
<1>5. \A j \in Jobs :
         IF j \in Offers(Agent)
         THEN Endpoint[j] = Agent /\ state'[j] = "offered" /\ lease'[j] = nextLease
         ELSE lease'[j] = lease[j]
    BY <1>4, OfferEffect
<1>6. \A o \in todo' : o[1] \in S /\ o[2] = nextLease
    BY <1>1
<1>7. \A o \in todo' : o[1] \in Offers(Agent) /\ o[1] \in Jobs /\ o[2] = nextLease
    BY <1>2, <1>3, <1>6
<1>8. /\ todo = {} /\ pc = "loop"
      /\ UNCHANGED <<pc, cur, reply, workers, stopping, acks, beats, results, runs, lost>>
    BY DEF Beat
<1> QED BY <1>5, <1>7, <1>8

LEMMA LoopStep ==
    ASSUME DTypeOK, LoopInv, LeaseInv, DNext
    PROVE  LoopInv' /\ LeaseInv'
<1>1. AttemptInv' /\ DTypeOK'
    BY TypeStep DEF LeaseInv
<1>2. ASSUME Beat PROVE LoopInv' /\ LeaseInv'
    <2>1. /\ \A o \in todo' : o[2] = nextLease /\ lease'[o[1]] = nextLease /\ Endpoint[o[1]] = Agent
          /\ \A j \in Jobs : lease'[j] = lease[j] \/ lease'[j] = nextLease
          /\ pc = "loop"
          /\ UNCHANGED <<pc, cur, reply, workers, stopping, acks, beats, results>>
        BY <1>2, BeatBrings DEF LeaseInv
    <2>2. nextLease \in Nat \ {0} /\ lease \in [Jobs -> Nat] /\ \A j \in Jobs : lease[j] < nextLease
        BY DEF LeaseInv, AttemptInv, DTypeOK, TypeOK
    <2>3. \A o \in acks \cup workers : o[1] \in Jobs /\ o[2] \in Nat
        BY DEF DTypeOK
    <2>4. \A o \in acks : o[2] # nextLease
        BY <2>2, <2>3 DEF LeaseInv
    <2>5. acks \cap todo' = {}
        BY <2>1, <2>4
    <2>6. \A o \in acks \cup workers : Endpoint[o[1]] = Agent /\ 1 <= o[2] /\ o[2] <= lease'[o[1]]
        BY <2>1, <2>2, <2>3 DEF LeaseInv
    <2>7. \A o \in todo' : Endpoint[o[1]] = Agent /\ 1 <= o[2] /\ o[2] <= lease'[o[1]]
        BY <2>1, <2>2
    <2>8. LoopInv'
        BY <2>1, <2>5 DEF LoopInv
    <2>9. LeaseInv'
        BY <1>1, <2>1, <2>6, <2>7 DEF LeaseInv
    <2> QED BY <2>8, <2>9
<1>3. ASSUME NEW o \in todo, AcceptOffer(o) PROVE LoopInv' /\ LeaseInv'
    <2>1. lease' = lease
        BY <1>3 DEF AcceptOffer, storeVars
    <2>2. LoopInv'
        BY <1>3 DEF AcceptOffer, LoopInv, DTypeOK
    <2>3. LeaseInv'
        BY <1>1, <1>3, <2>1 DEF AcceptOffer, LeaseInv
    <2> QED BY <2>2, <2>3
<1>4. ASSUME lease' = lease, todo' \subseteq todo, acks' \subseteq acks,
             \/ workers' \subseteq workers
             \/ pc = "acking" /\ workers' = workers \cup {cur},
             pc' = "acking" => pc = "acking" /\ cur' = cur
      PROVE  LeaseInv'
    BY <1>1, <1>4 DEF LeaseInv
<1>5. ASSUME todo' \subseteq todo, acks' \subseteq acks, beats' \subseteq beats, stopping' \subseteq stopping,
             \/ Resume
             \/ pc' = pc /\ cur' = cur /\ (reply' = reply \/ pc = "acking")
      PROVE  LoopInv'
    BY <1>5 DEF LoopInv, Resume
<1>6. ASSUME NEW o \in todo, DropOffer(o) PROVE LoopInv' /\ LeaseInv'
    BY <1>4, <1>5, <1>6 DEF DropOffer, storeVars
<1>7. ASSUME AckFails \/ AckRefused PROVE LoopInv' /\ LeaseInv'
    BY <1>4, <1>5, <1>7 DEF AckFails, AckRefused, storeVars, Resume
<1>8. ASSUME StartWorker PROVE LoopInv' /\ LeaseInv'
    <2>1. LeaseInv'
        BY <1>4, <1>8 DEF StartWorker, storeVars, Resume
    <2>2. LoopInv'
        BY <1>5, <1>8 DEF StartWorker, LoopInv
    <2> QED BY <2>1, <2>2
<1>9. ASSUME NothingStarts PROVE LoopInv' /\ LeaseInv'
    BY <1>4, <1>5, <1>9 DEF NothingStarts, storeVars, Resume
<1>10. ASSUME NEW w \in workers, WorkerBeats(w) PROVE LoopInv' /\ LeaseInv'
    <2>1. LeaseInv'
        BY <1>4, <1>10 DEF WorkerBeats, storeVars
    <2>2. LoopInv'
        BY <1>10 DEF WorkerBeats, LoopInv
    <2> QED BY <2>1, <2>2
<1>11. ASSUME NEW w \in workers,
              SessionWorkerEnds(w) \/ WorkerDies(w) \/ \E outcome \in Terminal : WorkerEnds(w, outcome)
       PROVE  LoopInv' /\ LeaseInv'
    BY <1>4, <1>5, <1>11 DEF SessionWorkerEnds, WorkerDies, WorkerEnds, storeVars, Resume
<1>12. ASSUME AgentCrash PROVE LoopInv' /\ LeaseInv'
    <2>1. /\ lease' = lease /\ Resume /\ todo' = {} /\ workers' \subseteq workers
          /\ UNCHANGED <<stopping, acks, beats>>
        BY <1>12 DEF AgentCrash, storeVars
    <2> QED BY <1>4, <1>5, <2>1 DEF Resume
<1>13. ASSUME NEW o \in acks, HubAck(o) PROVE LoopInv' /\ LeaseInv'
    <2>1. lease' = lease
        BY ZenonT(30), <1>13 DEF HubAck, AcknowledgeJob, storeVars
    <2>2. acks' \subseteq acks /\ UNCHANGED <<pc, todo, cur, workers, stopping, beats>>
          /\ (reply' = reply \/ pc = "acking")
        BY ZenonT(30), <1>13 DEF HubAck, Handled
    <2> QED BY <1>4, <1>5, <2>1, <2>2
<1>14. ASSUME NEW w \in beats, NEW p \in Phases, HubBeat(w, p) PROVE LoopInv' /\ LeaseInv'
    <2>1. lease' = lease
        BY ZenonT(30), <1>14 DEF HubBeat, RecordHeartbeat, storeVars
    <2>2. UNCHANGED <<pc, todo, cur, reply, workers, acks>> /\ beats' \subseteq beats
          /\ stopping' \subseteq stopping \cup {w}
        BY <1>14 DEF HubBeat
    <2>3. LoopInv'
        BY <2>2 DEF LoopInv
    <2> QED BY <1>4, <2>1, <2>2, <2>3
<1>15. ASSUME NEW r \in results, HubResult(r) PROVE LoopInv' /\ LeaseInv'
    <2>1. lease' = lease
        BY <1>15 DEF HubResult, CompleteJob, storeVars
    <2> QED BY <1>4, <1>5, <1>15, <2>1 DEF HubResult
<1>16. ASSUME HubActs PROVE LoopInv' /\ LeaseInv'
    <2>1. lease' = lease
        BY <1>16 DEF HubActs, CreateJob, CancelJob, EndSessionJob, ExpireLease
    <2> QED BY <1>4, <1>5, <1>16, <2>1 DEF HubActs, agentVars
<1>17. ASSUME LoseRequest \/ \E j \in Jobs : GrantExpires(j) PROVE LoopInv' /\ LeaseInv'
    BY <1>4, <1>5, <1>17 DEF LoseRequest, GrantExpires, storeVars
<1> QED BY <1>2, <1>3, <1>6, <1>7, <1>8, <1>9, <1>10, <1>11, <1>12, <1>13, <1>14, <1>15, <1>16, <1>17
        DEF DNext, AgentStep, HubStep

-----------------------------------------------------------------------------
\* The hub moves jobs under an agent that does not notice.
LEMMA QuietStep ==
    ASSUME DispatchInv, DTypeOK', \A j \in Jobs : Quiet(j),
           UNCHANGED <<pc, todo, cur, reply, workers, acks, results, runs, lost>>
    PROVE  PlaceInv' /\ EndInv'
<1> USE DEF DispatchInv, PlaceInv
<1>1. /\ Open \cap Taken = {} /\ Open \cap Terminal = {} /\ Taken \cap Terminal = {}
      /\ "none" \notin Taken \cup Terminal /\ "queued" \notin Taken \cup Terminal
      /\ "cancelled" \in Terminal /\ "cancelled" # "succeeded" /\ "succeeded" \notin Open \cup Taken
      /\ "queued" # "succeeded"
    BY DEF Open, Taken, Terminal
<1>2. \A j \in Jobs :
         /\ lease'[j] = lease[j]
         /\ state[j] \in Taken \cup Terminal => state'[j] \in Taken \cup Terminal
         /\ state[j] \in Terminal => state'[j] = state[j]
         /\ state[j] \in Taken /\ Kind[j] \notin SessionKinds => state'[j] \in Taken
         /\ state'[j] \in Taken => state[j] \in Taken
         /\ state'[j] = "succeeded" /\ Kind[j] \notin SessionKinds => state[j] = "succeeded"
    BY <1>1 DEF Quiet
<1>3. AskInv'
    BY <1>2 DEF AskInv, Unanswered
<1>4. \A j \in Jobs : Accepted(j)' <=> Accepted(j)
    BY DEF Accepted
<1>5. AcceptInv'
    BY <1>2, <1>4 DEF AcceptInv
<1>6. WorkInv'
    BY <1>2 DEF WorkInv, DTypeOK
<1>7. ReportInv'
    <2> SUFFICES ASSUME NEW r \in results
                 PROVE  /\ lease'[r[1]] = r[2] /\ 1 <= r[2] /\ Endpoint[r[1]] = Agent
                        /\ Kind[r[1]] \notin SessionKinds
                        /\ state'[r[1]] \in Taken \cup {r[3]}
                        /\ ~ Accepted(r[1])'
                        /\ \A w \in workers : w[1] # r[1]
                        /\ \A s \in results : s[1] = r[1] => s = r
                        /\ r[3] = "succeeded" => runs[r[1]] = 1
        BY DEF ReportInv
    <2>1. r[1] \in Jobs /\ r[3] \in Terminal
        BY DEF DTypeOK
    <2>2. state'[r[1]] \in Taken \cup {r[3]}
        BY ZenonT(30), <1>2, <2>1 DEF ReportInv
    <2> QED BY ZenonT(30), <1>2, <1>4, <2>1, <2>2 DEF ReportInv
<1>8. RunInv'
    BY ZenonT(30), <1>2 DEF RunInv
<1>9. ASSUME NEW j \in Jobs, Withdrawals \cap audit'[j] # {}
      PROVE  state'[j] = "cancelled" /\ runs'[j] = 0 /\ ~ Accepted(j)'
    <2>1. CASE Withdrawals \cap audit[j] # {}
        BY ZenonT(30), <1>1, <1>2, <1>4, <2>1 DEF EndInv
    <2>2. CASE state[j] \in Open /\ state'[j] = "cancelled"
        BY ZenonT(30), <1>1, <1>4, <2>2 DEF RunInv, AcceptInv
    <2> QED BY ZenonT(30), <1>9, <2>1, <2>2 DEF Quiet
<1>10. SucceededRan'
    BY ZenonT(30), <1>2 DEF EndInv, SucceededRan
<1>11. TakenIsSomebodys'
    BY <1>2 DEF EndInv, TakenIsSomebodys
<1> QED BY ZenonT(30), <1>3, <1>5, <1>6, <1>7, <1>8, <1>9, <1>10, <1>11 DEF EndInv

\* A heartbeat gives leases to open jobs only, and no open job is being worked on.
LEMMA BeatStep ==
    ASSUME DispatchInv, DTypeOK', Beat
    PROVE  PlaceInv' /\ EndInv'
<1> USE DEF DispatchInv, PlaceInv
<1>1. /\ Open \cap Taken = {} /\ Open \cap Terminal = {} /\ "offered" \notin Taken \cup Terminal
      /\ "failed" \in Terminal /\ "failed" \notin Taken /\ "failed" # "succeeded"
      /\ "offered" \in Open /\ "cancelled" \in Terminal
    BY DEF Open, Taken, Terminal
<1>2. /\ \A o \in todo' : state'[o[1]] = "offered"
      /\ pc = "loop"
      /\ UNCHANGED <<pc, cur, reply, workers, stopping, acks, beats, results, runs, lost>>
    BY BeatBrings DEF LeaseInv
<1>3. \A j \in Jobs :
         /\ Withdrawals \cap audit'[j] = Withdrawals \cap audit[j]
         /\ state[j] \notin Open => lease'[j] = lease[j] /\ state'[j] = state[j]
         /\ state'[j] \in Taken \/ state'[j] = "succeeded" => state'[j] = state[j]
    <2>1. TypeOK /\ OfferPendingJobs(Agent)
        BY DEF DTypeOK, Beat
    <2>2. "succeeded" # "offered"
        OBVIOUS
    <2> QED BY ZenonT(30), <1>1, <2>1, <2>2, OfferEffect
<1>4. AskInv' /\ AcceptInv'
    BY <1>1, <1>2 DEF AskInv, Unanswered, AcceptInv, Accepted
<1>5. WorkInv'
    BY <1>1, <1>2, <1>3 DEF WorkInv, DTypeOK
<1>6. \A j \in Jobs : ~ Accepted(j)'
    BY <1>2 DEF Accepted
<1>7. ReportInv'
    <2> SUFFICES ASSUME NEW r \in results
                 PROVE  /\ lease'[r[1]] = r[2] /\ 1 <= r[2] /\ Endpoint[r[1]] = Agent
                        /\ Kind[r[1]] \notin SessionKinds
                        /\ state'[r[1]] \in Taken \cup {r[3]}
                        /\ ~ Accepted(r[1])'
                        /\ \A w \in workers : w[1] # r[1]
                        /\ \A s \in results : s[1] = r[1] => s = r
                        /\ r[3] = "succeeded" => runs[r[1]] = 1
        BY ZenonT(30), <1>2 DEF ReportInv
    <2>1. r[1] \in Jobs /\ r[3] \in Terminal
        BY DEF DTypeOK
    <2>2. state[r[1]] \notin Open
        BY <1>1, <2>1 DEF ReportInv
    <2> QED BY ZenonT(30), <1>3, <1>6, <2>1, <2>2 DEF ReportInv
<1>8. RunInv'
    BY <1>1, <1>2, <1>3 DEF RunInv
<1>9. \A j \in Jobs : Withdrawals \cap audit'[j] # {} =>
                         state'[j] = "cancelled" /\ runs'[j] = 0 /\ ~ Accepted(j)'
    BY <1>1, <1>2, <1>3, <1>6 DEF EndInv
<1>10. SucceededRan'
    BY <1>2, <1>3 DEF EndInv, SucceededRan
<1>11. TakenIsSomebodys'
    BY <1>2, <1>3 DEF EndInv, TakenIsSomebodys
<1> QED BY ZenonT(30), <1>4, <1>5, <1>7, <1>8, <1>9, <1>10, <1>11 DEF EndInv

\* Somebody answers for the job, or a fault destroyed what did.
Somebodys(j) ==
    \/ j \in lost
    \/ pc = "acking" /\ cur[1] = j /\ reply = "ok"
    \/ \E w \in workers : w[1] = j
    \/ \E r \in results : r[1] = j

\* The agent drops something and the hub does nothing.
LEMMA ShrinkStep ==
    ASSUME DispatchInv, DTypeOK', UNCHANGED <<state, lease, audit, runs>>,
           todo' \subseteq todo, workers' \subseteq workers, results' \subseteq results,
           \/ Resume
           \/ UNCHANGED <<pc, cur>> /\ (reply' = reply \/ reply' = "refused"),
           \A j \in Jobs : state[j] \in Taken /\ Kind[j] \notin SessionKinds /\ Somebodys(j) => Somebodys(j)'
    PROVE  PlaceInv' /\ EndInv'
<1> USE DEF DispatchInv, PlaceInv
<1>1. \A o \in Jobs \X Nat : Unanswered(o)' => Unanswered(o)
    BY DEF Unanswered, Resume
<1>2. \A j \in Jobs : Accepted(j)' => Accepted(j) /\ cur' = cur
    BY DEF Accepted, Resume
<1>3. AskInv'
    BY <1>1 DEF AskInv
<1>4. AcceptInv'
    BY <1>2 DEF AcceptInv
<1>5. WorkInv' /\ RunInv'
    BY ZenonT(30) DEF WorkInv, RunInv
<1>6. ReportInv'
    <2>1. \A r \in results' : r[1] \in Jobs
        BY DEF DTypeOK
    <2> QED BY ZenonT(30), <1>2, <2>1 DEF ReportInv
<1>7. \A j \in Jobs : Withdrawals \cap audit'[j] # {} =>
                         state'[j] = "cancelled" /\ runs'[j] = 0 /\ ~ Accepted(j)'
    BY ZenonT(30), <1>2 DEF EndInv
<1>8. SucceededRan'
    BY ZenonT(30) DEF EndInv, SucceededRan
<1>9. TakenIsSomebodys'
    BY DEF EndInv, TakenIsSomebodys, Somebodys
<1> QED BY ZenonT(30), <1>3, <1>4, <1>5, <1>6, <1>7, <1>8, <1>9 DEF EndInv

\* Everything the agent does without starting or reporting a job.
LEMMA DropStep ==
    ASSUME DispatchInv, DTypeOK',
           \/ \E o \in todo : DropOffer(o)
           \/ AckFails \/ AckRefused
           \/ \E w \in workers : WorkerBeats(w) \/ SessionWorkerEnds(w) \/ WorkerDies(w)
           \/ AgentCrash \/ LoseRequest
           \/ \E j \in Jobs : GrantExpires(j)
    PROVE  PlaceInv' /\ EndInv'
<1>1. ASSUME NEW o \in todo, DropOffer(o) PROVE PlaceInv' /\ EndInv'
    BY ZenonT(30), <1>1, ShrinkStep DEF DropOffer, storeVars, Somebodys
<1>2. ASSUME AckFails PROVE PlaceInv' /\ EndInv'
    <2>1. \A j \in Jobs : Somebodys(j) => Somebodys(j)'
        BY ZenonT(30), <1>2 DEF AckFails, Somebodys
    <2> QED BY ZenonT(30), <1>2, <2>1, ShrinkStep DEF AckFails, storeVars
<1>3. ASSUME AckRefused PROVE PlaceInv' /\ EndInv'
    <2>1. \A j \in Jobs : Somebodys(j) => Somebodys(j)'
        BY ZenonT(30), <1>3 DEF AckRefused, Somebodys
    <2> QED BY ZenonT(30), <1>3, <2>1, ShrinkStep DEF AckRefused, storeVars
<1>4. ASSUME NEW w \in workers, WorkerBeats(w) PROVE PlaceInv' /\ EndInv'
    BY ZenonT(30), <1>4, ShrinkStep DEF WorkerBeats, storeVars, Somebodys
<1>5. ASSUME NEW w \in workers, SessionWorkerEnds(w) PROVE PlaceInv' /\ EndInv'
    <2>1. \A j \in Jobs : Kind[j] \notin SessionKinds /\ Somebodys(j) => Somebodys(j)'
        BY ZenonT(30), <1>5 DEF SessionWorkerEnds, Somebodys
    <2> QED BY ZenonT(30), <1>5, <2>1, ShrinkStep DEF SessionWorkerEnds, storeVars
<1>6. ASSUME NEW w \in workers, WorkerDies(w) PROVE PlaceInv' /\ EndInv'
    <2>1. \A j \in Jobs : Somebodys(j) => Somebodys(j)'
        BY ZenonT(30), <1>6 DEF WorkerDies, Somebodys
    <2> QED BY ZenonT(30), <1>6, <2>1, ShrinkStep DEF WorkerDies, storeVars
<1>7. ASSUME AgentCrash PROVE PlaceInv' /\ EndInv'
    <2>1. /\ workers' = IF pc = "collecting" THEN workers \ {cur} ELSE workers
          /\ lost' = IF pc = "collecting" \/ reply = "ok" THEN lost \cup {cur[1]} ELSE lost
          /\ results' = results
        BY <1>7 DEF AgentCrash
    <2>2. \A j \in Jobs : Somebodys(j) => Somebodys(j)'
        BY ZenonT(30), <2>1 DEF Somebodys
    <2>3. /\ UNCHANGED <<state, lease, audit, runs>> /\ Resume /\ todo' = {}
          /\ workers' \subseteq workers
        BY <1>7 DEF AgentCrash, storeVars
    <2> QED BY ZenonT(30), <2>1, <2>2, <2>3, ShrinkStep
<1>8. ASSUME LoseRequest PROVE PlaceInv' /\ EndInv'
    <2>1. \A j \in Jobs : Somebodys(j) => Somebodys(j)'
        BY ZenonT(30), <1>8 DEF LoseRequest, Somebodys
    <2>2. results' \subseteq results
        BY <1>8 DEF LoseRequest
    <2> QED BY ZenonT(30), <1>8, <2>1, <2>2, ShrinkStep DEF LoseRequest, storeVars
<1>9. ASSUME NEW j \in Jobs, GrantExpires(j) PROVE PlaceInv' /\ EndInv'
    BY ZenonT(30), <1>9, ShrinkStep DEF GrantExpires, storeVars, Somebodys
<1> QED BY <1>1, <1>2, <1>3, <1>4, <1>5, <1>6, <1>7, <1>8, <1>9

LEMMA AcceptOfferStep ==
    ASSUME DispatchInv, DTypeOK', NEW o \in todo, AcceptOffer(o)
    PROVE  PlaceInv' /\ EndInv'
<1> USE DEF DispatchInv, PlaceInv
<1>1. /\ UNCHANGED <<state, lease, audit, runs, workers, results, lost>>
      /\ pc = "loop" /\ pc' = "acking" /\ cur' = o /\ reply' = "none" /\ todo' \subseteq todo
    BY DEF AcceptOffer, NextOffer, storeVars
<1>2. \A p \in Jobs \X Nat : Unanswered(p)' => Unanswered(p)
    BY <1>1 DEF Unanswered
<1>3. \A j \in Jobs : ~ Accepted(j)' /\ ~ Accepted(j)
    BY <1>1 DEF Accepted
<1>4. AskInv' /\ AcceptInv' /\ WorkInv' /\ RunInv'
    BY <1>1, <1>2, <1>3 DEF AskInv, AcceptInv, WorkInv, RunInv
<1>5. ReportInv'
    <2>1. \A r \in results : r[1] \in Jobs
        BY DEF DTypeOK
    <2> QED BY ZenonT(30), <1>1, <1>3, <2>1 DEF ReportInv
<1>6. EndInv'
    BY <1>1, <1>3 DEF EndInv, SucceededRan, TakenIsSomebodys
<1> QED BY <1>4, <1>5, <1>6

LEMMA StartStep ==
    ASSUME DispatchInv, DTypeOK', StartWorker
    PROVE  PlaceInv' /\ EndInv'
<1> USE DEF DispatchInv, PlaceInv
<1> DEFINE j == cur[1]
<1>1. j \in Jobs /\ Accepted(j) /\ cur \in Jobs \X Nat
    BY DEF StartWorker, Accepted, LoopInv
<1>2. /\ UNCHANGED <<state, lease, audit, results, lost, todo>>
      /\ workers' = workers \cup {cur} /\ runs' = [runs EXCEPT ![j] = @ + 1]
      /\ reply' = "none" /\ pc' \in {"loop", "collecting"} /\ reply = "ok"
    BY DEF StartWorker, Resume, storeVars
<1>3. /\ lease[j] = cur[2] /\ state[j] \in Taken \cup Terminal /\ runs[j] = 0
      /\ Kind[j] \notin SessionKinds => state[j] \in Taken
    BY <1>1 DEF AcceptInv
<1>4. runs'[j] = 1 /\ \A k \in Jobs : k # j => runs'[k] = runs[k]
    BY <1>1, <1>2, <1>3 DEF DTypeOK
<1>5. \A k \in Jobs : ~ Accepted(k)'
    BY <1>2 DEF Accepted
<1>6. \A w \in workers : w[1] # j /\ w[1] \in Jobs
    BY <1>3 DEF WorkInv, DTypeOK
<1>7. \A r \in results : r[1] # j /\ r[1] \in Jobs
    BY <1>1 DEF ReportInv, DTypeOK
<1>8. AskInv'
    BY <1>2 DEF AskInv, Unanswered
<1>9. AcceptInv'
    BY ZenonT(30), <1>5 DEF AcceptInv
<1>10. WorkInv'
    BY ZenonT(30), <1>2, <1>3, <1>4, <1>6 DEF WorkInv
<1>11. ReportInv'
    BY ZenonT(30), <1>2, <1>4, <1>5, <1>7 DEF ReportInv
<1>12. RunInv'
    BY ZenonT(30), <1>2, <1>3, <1>4 DEF RunInv
<1>13. \A k \in Jobs : Withdrawals \cap audit'[k] # {} =>
                          state'[k] = "cancelled" /\ runs'[k] = 0 /\ ~ Accepted(k)'
    BY ZenonT(30), <1>1, <1>2, <1>4, <1>5 DEF EndInv
<1>14. SucceededRan'
    BY ZenonT(30), <1>2, <1>4 DEF EndInv, SucceededRan
<1>15. TakenIsSomebodys'
    BY ZenonT(30), <1>2 DEF EndInv, TakenIsSomebodys
<1> QED BY ZenonT(30), <1>8, <1>9, <1>10, <1>11, <1>12, <1>13, <1>14, <1>15 DEF EndInv

\* Posting the one result of a job that has nothing running any more.
LEMMA ReportStep ==
    ASSUME DispatchInv, DTypeOK', NEW j \in Jobs, NEW l \in Nat, NEW outcome \in Terminal,
           results' = results \cup {<<j, l, outcome>>},
           UNCHANGED <<state, lease, audit, runs, todo>>, lost' = lost,
           workers' \subseteq workers, \A w \in workers : w[1] # j => w \in workers',
           \A w \in workers' : w[1] # j,
           Resume \/ UNCHANGED <<pc, cur, reply>>, ~ Accepted(j)',
           \A k \in Jobs : k # j /\ Accepted(k) => Accepted(k)',
           \A r \in results : r[1] # j,
           lease[j] = l, 1 <= l, Endpoint[j] = Agent, Kind[j] \notin SessionKinds, state[j] \in Taken,
           outcome = "succeeded" => runs[j] = 1
    PROVE  PlaceInv' /\ EndInv'
<1> USE DEF DispatchInv, PlaceInv
<1> DEFINE new == <<j, l, outcome>>
<1>1. \A o \in Jobs \X Nat : Unanswered(o)' => Unanswered(o)
    BY DEF Unanswered, Resume
<1>2. \A k \in Jobs : Accepted(k)' => Accepted(k) /\ cur' = cur
    BY ZenonT(30) DEF Accepted, Resume
<1>3. AskInv' /\ AcceptInv' /\ WorkInv' /\ RunInv'
    BY ZenonT(30), <1>1, <1>2 DEF AskInv, AcceptInv, WorkInv, RunInv
<1>4. new[1] = j /\ new[2] = l /\ new[3] = outcome
    BY ZenonT(30)
<1>5. \A r \in results : r[1] \in Jobs
    BY DEF DTypeOK
<1> HIDE DEF new
<1>6. ReportInv'
    <2> SUFFICES ASSUME NEW r \in results'
                 PROVE  /\ lease'[r[1]] = r[2] /\ 1 <= r[2] /\ Endpoint[r[1]] = Agent
                        /\ Kind[r[1]] \notin SessionKinds
                        /\ state'[r[1]] \in Taken \cup {r[3]}
                        /\ ~ Accepted(r[1])'
                        /\ \A w \in workers' : w[1] # r[1]
                        /\ \A s \in results' : s[1] = r[1] => s = r
                        /\ r[3] = "succeeded" => runs'[r[1]] = 1
        BY ZenonT(30) DEF ReportInv
    <2>1. results' = results \cup {new}
        BY ZenonT(30) DEF new
    <2>2. CASE r = new
        BY ZenonT(30), <1>4, <2>1, <2>2
    <2>3. CASE r \in results
        <3>1. r[1] # j /\ r[1] \in Jobs
            BY ZenonT(30), <1>5, <2>3
        <3>2. /\ lease[r[1]] = r[2] /\ 1 <= r[2] /\ Endpoint[r[1]] = Agent
              /\ Kind[r[1]] \notin SessionKinds
              /\ state[r[1]] \in Taken \cup {r[3]}
              /\ ~ Accepted(r[1])
              /\ \A w \in workers : w[1] # r[1]
              /\ \A s \in results : s[1] = r[1] => s = r
              /\ r[3] = "succeeded" => runs[r[1]] = 1
            BY ZenonT(30), <2>3 DEF ReportInv
        <3>3. \A s \in results' : s[1] = r[1] => s = r
            BY ZenonT(30), <1>4, <2>1, <3>1, <3>2
        <3> QED BY ZenonT(30), <1>2, <3>1, <3>2, <3>3
    <2> QED BY ZenonT(30), <2>1, <2>2, <2>3
<1>7. \A k \in Jobs : Withdrawals \cap audit'[k] # {} =>
                         state'[k] = "cancelled" /\ runs'[k] = 0 /\ ~ Accepted(k)'
    BY ZenonT(30), <1>2 DEF EndInv
<1>8. SucceededRan'
    BY ZenonT(30) DEF EndInv, SucceededRan
<1>9. TakenIsSomebodys'
    <2>1. new \in results' /\ results \subseteq results'
        BY ZenonT(30) DEF new
    <2>2. Somebodys(j)'
        BY ZenonT(30), <1>4, <2>1 DEF Somebodys
    <2>3. ASSUME NEW k \in Jobs, k # j, Somebodys(k) PROVE Somebodys(k)'
        BY ZenonT(30), <2>1, <2>3 DEF Somebodys, Accepted
    <2> QED BY ZenonT(30), <2>2, <2>3 DEF EndInv, TakenIsSomebodys, Somebodys
<1> QED BY ZenonT(30), <1>3, <1>6, <1>7, <1>8, <1>9 DEF EndInv

LEMMA NothingStartsStep ==
    ASSUME DispatchInv, DTypeOK', NothingStarts
    PROVE  PlaceInv' /\ EndInv'
<1> DEFINE j == cur[1]
           l == cur[2]
<1>1. j \in Jobs /\ l \in Nat /\ Accepted(j) /\ pc = "acking" /\ reply = "ok"
    BY DEF NothingStarts, Accepted, LoopInv, DispatchInv
<1>2. /\ UNCHANGED <<state, lease, audit, runs, todo, workers>> /\ Resume
      /\ \A k \in Jobs : ~ Accepted(k)'
      /\ \A k \in Jobs : k # j => ~ Accepted(k)
    BY ZenonT(30) DEF NothingStarts, storeVars, Resume, Accepted
<1>3. CASE /\ Kind[j] = "script_exec"
           /\ results' = results \cup {<<j, l, "failed">>} /\ UNCHANGED lost
    <2>1. /\ lease[j] = l /\ state[j] \in Taken /\ runs[j] = 0 /\ Kind[j] \notin SessionKinds
        BY <1>1, <1>3 DEF DispatchInv, PlaceInv, AcceptInv, SessionKinds
    <2>2. 1 <= l /\ Endpoint[j] = Agent
        BY <1>1 DEF DispatchInv, LeaseInv
    <2>3. \A w \in workers : w[1] # j
        BY <2>1 DEF DispatchInv, PlaceInv, WorkInv
    <2>4. \A r \in results : r[1] # j
        BY <1>1 DEF DispatchInv, PlaceInv, ReportInv
    <2>5. "failed" \in Terminal /\ "failed" # "succeeded"
        BY DEF Terminal
    <2> HIDE DEF j, l
    <2> QED BY ZenonT(30), <1>1, <1>2, <1>3, <2>1, <2>2, <2>3, <2>4, <2>5, ReportStep
<1>4. CASE Kind[j] \in SessionKinds /\ UNCHANGED <<results, lost>>
    <2>1. \A k \in Jobs : Kind[k] \notin SessionKinds /\ Somebodys(k) => Somebodys(k)'
        BY ZenonT(30), <1>2, <1>4 DEF Somebodys
    <2> QED BY ZenonT(30), <1>2, <1>4, <2>1, ShrinkStep
<1>5. CASE lost' = lost \cup {j} /\ UNCHANGED results
    <2>1. \A k \in Jobs : Somebodys(k) => Somebodys(k)'
        BY <1>2, <1>5 DEF Somebodys
    <2> QED BY ZenonT(30), <1>2, <1>5, <2>1, ShrinkStep
<1> QED BY ZenonT(30), <1>3, <1>4, <1>5 DEF NothingStarts

LEMMA WorkerEndsStep ==
    ASSUME DispatchInv, DTypeOK', NEW w \in workers, NEW outcome \in Terminal, WorkerEnds(w, outcome)
    PROVE  PlaceInv' /\ EndInv'
<1> DEFINE j == w[1]
           l == w[2]
<1>1. j \in Jobs /\ l \in Nat
    BY DEF DispatchInv, DTypeOK
<1>2. /\ Kind[j] \notin SessionKinds
      /\ UNCHANGED <<state, lease, audit, runs, todo>> /\ lost' = lost
      /\ results' = results \cup {<<j, l, outcome>>} /\ workers' = workers \ {w}
      /\ (pc = "collecting" /\ Resume) \/ UNCHANGED <<pc, cur, reply>>
    BY DEF WorkerEnds, storeVars
<1>3. /\ lease[j] = l /\ state[j] \in Taken /\ runs[j] = 1
    BY ZenonT(30), <1>2 DEF DispatchInv, PlaceInv, WorkInv
<1>4. 1 <= l /\ Endpoint[j] = Agent
    BY DEF DispatchInv, LeaseInv
<1>5. \A v \in workers : v[1] = j => v = w
    <2>1. \A v \in workers : v[2] = lease[v[1]] /\ v \in Jobs \X Nat
        BY DEF DispatchInv, PlaceInv, WorkInv, DTypeOK
    <2> QED BY <2>1
<1>6. \A r \in results : r[1] # j
    BY ZenonT(30) DEF DispatchInv, PlaceInv, ReportInv
<1>7. ~ Accepted(j)
    BY <1>1, <1>3 DEF DispatchInv, PlaceInv, AcceptInv
<1>8. \A k \in Jobs : Accepted(k)' <=> Accepted(k)
    BY <1>2 DEF Accepted, Resume
<1>9. /\ workers' \subseteq workers /\ \A v \in workers : v[1] # j => v \in workers'
      /\ \A v \in workers' : v[1] # j
    BY <1>2, <1>5
<1> HIDE DEF j, l
<1> QED BY ZenonT(30), <1>1, <1>2, <1>3, <1>4, <1>6, <1>7, <1>8, <1>9, ReportStep

\* The hub handles an ack: the one waited for, a late one or a repeated one.
LEMMA HubAckStep ==
    ASSUME DispatchInv, DTypeOK', NEW o \in acks, HubAck(o)
    PROVE  PlaceInv' /\ EndInv'
<1> DEFINE j == o[1]
           l == o[2]
           waiting == pc = "acking" /\ cur = o /\ reply = "none"
<1>1. j \in Jobs /\ l \in Nat /\ o = <<j, l>> /\ o \in Jobs \X Nat
    BY DEF DispatchInv, DTypeOK
<1>2. UNCHANGED <<pc, todo, cur, workers, results, runs>>
    BY DEF HubAck
<1>3. CASE ~ CanAcknowledge(Agent, j, l, TRUE)
    <2>1. /\ UNCHANGED <<state, lease, audit, lost>>
          /\ reply' = reply \/ (reply' = "refused" /\ reply = "none")
        BY ZenonT(30), <1>3 DEF HubAck, storeVars
    <2>2. \A k \in Jobs : Somebodys(k) => Somebodys(k)'
        BY ZenonT(30), <1>2, <2>1 DEF Somebodys
    <2> QED BY ZenonT(30), <1>2, <2>1, <2>2, ShrinkStep
<1>4. CASE CanAcknowledge(Agent, j, l, TRUE)
    <2> USE DEF DispatchInv, PlaceInv
    <2>1. /\ state[j] \in {"offered", "acknowledged"} /\ lease[j] = l
          /\ AcknowledgeJob(Agent, j, l, TRUE)
          /\ reply' = IF waiting THEN "ok" ELSE reply
          /\ lost' = IF state[j] = "offered" /\ ~ waiting THEN lost \cup {j} ELSE lost
        BY ZenonT(30), <1>4 DEF CanAcknowledge, LeasedTo, IsValidTransition, Terminal, HubAck
    <2>2. lease' = lease /\ Becomes(j, "acknowledged")
        BY ZenonT(30), <2>1 DEF AcknowledgeJob
    <2>3. /\ state'[j] = "acknowledged"
          /\ \A k \in Jobs : k # j => state'[k] = state[k]
          /\ \A k \in Jobs : Withdrawals \cap audit'[k] = Withdrawals \cap audit[k]
        <3>1. Withdrawals \cap Row(state[j], "acknowledged") = {}
            BY DEF Withdrawals, Row
        <3> QED BY ZenonT(30), <1>1, <2>2, <3>1 DEF Becomes, DTypeOK, TypeOK
    <2>4. /\ "acknowledged" \in Taken /\ "offered" \notin Taken \cup Terminal
          /\ "acknowledged" \notin Terminal /\ "cancelled" \notin {"offered", "acknowledged"}
          /\ "acknowledged" # "succeeded"
        BY DEF Taken, Terminal
    <2>5. waiting => state[j] = "offered" /\ runs[j] = 0
        BY <1>1, <2>1, <2>4 DEF AskInv, Unanswered, RunInv
    <2>6. \A k \in Jobs : k # j => (Accepted(k)' <=> Accepted(k))
        BY ZenonT(30), <1>2, <2>1 DEF Accepted
    <2>7. Accepted(j)' => /\ cur[2] = l
                          /\ runs[j] = 0
                          /\ waiting \/ Accepted(j)
        BY <1>1, <1>2, <2>1, <2>5 DEF Accepted, AcceptInv
    <2>8. AskInv'
        <3> SUFFICES ASSUME NEW p \in Jobs \X Nat, Unanswered(p)', p[2] = lease[p[1]]
                     PROVE  state'[p[1]] \notin Taken
            BY ZenonT(30), <2>2 DEF AskInv
        <3>1. Unanswered(p)
            BY <1>2, <2>1 DEF Unanswered
        <3>2. p[1] # j
            <4>1. p = o => FALSE
                BY <1>2, <2>1 DEF Unanswered, LoopInv
            <4> QED BY <1>1, <2>1, <4>1
        <3> QED BY ZenonT(30), <2>3, <3>1, <3>2 DEF AskInv
    <2>9. AcceptInv'
        <3>1. ASSUME NEW k \in Jobs, k # j, Accepted(k)'
              PROVE  /\ lease'[k] = cur'[2] /\ state'[k] \in Taken \cup Terminal /\ runs'[k] = 0
                     /\ Kind[k] \notin SessionKinds => state'[k] \in Taken
            BY ZenonT(30), <1>2, <2>2, <2>3, <2>6, <3>1 DEF AcceptInv
        <3>2. ASSUME Accepted(j)'
              PROVE  /\ lease'[j] = cur'[2] /\ state'[j] \in Taken /\ runs'[j] = 0
            BY ZenonT(30), <1>2, <2>1, <2>2, <2>3, <2>4, <2>7, <3>2
        <3> QED BY ZenonT(30), <3>1, <3>2 DEF AcceptInv
    <2>10. WorkInv'
        BY ZenonT(30), <1>2, <2>2, <2>3, <2>4 DEF WorkInv, DTypeOK
    <2>11. ReportInv'
        <3> SUFFICES ASSUME NEW r \in results
                     PROVE  /\ lease[r[1]] = r[2] /\ 1 <= r[2] /\ Endpoint[r[1]] = Agent
                            /\ Kind[r[1]] \notin SessionKinds
                            /\ state'[r[1]] \in Taken \cup {r[3]}
                            /\ ~ Accepted(r[1])'
                            /\ \A w \in workers : w[1] # r[1]
                            /\ \A s \in results : s[1] = r[1] => s = r
                            /\ r[3] = "succeeded" => runs[r[1]] = 1
            BY ZenonT(30), <1>2, <2>2 DEF ReportInv
        <3>1. r[1] \in Jobs /\ r[3] \in Terminal
            BY DEF DTypeOK
        <3>2. state'[r[1]] \in Taken \cup {r[3]}
            BY ZenonT(30), <2>3, <2>4, <3>1 DEF ReportInv
        <3>3. ~ Accepted(r[1])'
            <4>1. CASE r[1] = j
                BY ZenonT(30), <2>4, <2>5, <2>7, <3>1, <4>1 DEF ReportInv
            <4>2. CASE r[1] # j
                BY ZenonT(30), <2>6, <3>1, <4>2 DEF ReportInv
            <4> QED BY ZenonT(30), <4>1, <4>2
        <3> QED BY ZenonT(30), <3>2, <3>3 DEF ReportInv
    <2>12. RunInv'
        BY ZenonT(30), <1>2, <2>3, <2>4 DEF RunInv
    <2>13. \A k \in Jobs : Withdrawals \cap audit'[k] # {} =>
                              state'[k] = "cancelled" /\ runs'[k] = 0 /\ ~ Accepted(k)'
        BY ZenonT(30), <1>1, <1>2, <2>1, <2>3, <2>4, <2>6 DEF EndInv
    <2>14. SucceededRan'
        BY ZenonT(30), <1>2, <2>3, <2>4 DEF EndInv, SucceededRan
    <2>15. TakenIsSomebodys'
        <3>1. Somebodys(j) => Somebodys(j)'
            BY ZenonT(30), <1>2, <2>1 DEF Somebodys
        <3>2. \A k \in Jobs : k # j /\ Somebodys(k) => Somebodys(k)'
            BY <1>2, <2>1, <1>1 DEF Somebodys
        <3>3. state[j] = "offered" => Somebodys(j)'
            <4>1. CASE waiting
                BY <1>1, <1>2, <2>1, <4>1 DEF Somebodys
            <4>2. CASE ~ waiting
                BY ZenonT(30), <2>1, <4>2 DEF Somebodys
            <4> QED BY <4>1, <4>2
        <3>4. \A k \in Jobs : state[k] \in Taken /\ Kind[k] \notin SessionKinds => Somebodys(k)
            BY DEF EndInv, TakenIsSomebodys, Somebodys
        <3>5. \A k \in Jobs : state'[k] \in Taken /\ Kind[k] \notin SessionKinds => Somebodys(k)'
            BY ZenonT(30), <2>1, <2>3, <2>4, <3>1, <3>2, <3>3, <3>4
        <3> QED BY <3>5 DEF TakenIsSomebodys, Somebodys
    <2> QED BY ZenonT(30), <2>8, <2>9, <2>10, <2>11, <2>12, <2>13, <2>14, <2>15 DEF EndInv
<1> QED BY ZenonT(30), <1>3, <1>4

\* The hub handles a result: the first copy ends the job, a repetition nothing.
LEMMA HubResultStep ==
    ASSUME DispatchInv, DTypeOK', NEW r \in results, HubResult(r)
    PROVE  PlaceInv' /\ EndInv'
<1> USE DEF DispatchInv, PlaceInv
<1> DEFINE j == r[1]
<1>1. j \in Jobs /\ r[2] \in Nat /\ r[3] \in Terminal
    BY DEF DTypeOK
<1>2. /\ UNCHANGED <<pc, todo, cur, reply, workers, runs, lost>>
      /\ results' \subseteq results /\ results \ {r} \subseteq results'
    BY DEF HubResult, Handled
<1>3. /\ Taken \cap Terminal = {} /\ "cancelled" \notin Taken /\ "succeeded" \notin Taken
    BY DEF Taken, Terminal
<1>4. /\ lease[j] = r[2] /\ r[2] # 0 /\ Endpoint[j] = Agent /\ Kind[j] \notin SessionKinds
      /\ state[j] \in Taken \cup {r[3]} /\ ~ Accepted(j) /\ \A w \in workers : w[1] # j
      /\ \A s \in results : s[1] = j => s = r
      /\ r[3] = "succeeded" => runs[j] = 1
    <2> HIDE DEF DispatchInv, PlaceInv
    <2>1. ReportInv
        BY DEF DispatchInv, PlaceInv
    <2>2. /\ lease[j] = r[2] /\ 1 <= r[2] /\ Endpoint[j] = Agent /\ Kind[j] \notin SessionKinds
          /\ state[j] \in Taken \cup {r[3]} /\ ~ Accepted(j) /\ \A w \in workers : w[1] # j
          /\ \A s \in results : s[1] = j => s = r
          /\ r[3] = "succeeded" => runs[j] = 1
        BY ZenonT(30), <2>1 DEF ReportInv
    <2>3. r[2] # 0
        BY <1>1, <2>2
    <2> QED BY ZenonT(30), <2>2, <2>3
<1>5. \A k \in Jobs : Accepted(k)' <=> Accepted(k)
    BY <1>2 DEF Accepted
<1>6. CASE state[j] \in Taken
    <2>1. CanComplete(Agent, j, r[2], r[3])
        BY ZenonT(30), <1>1, <1>4, <1>6 DEF CanComplete, LeasedTo, IsValidTransition, Taken, Terminal
    <2>2. Becomes(j, r[3]) /\ lease' = lease
        BY <2>1 DEF HubResult, CompleteJob
    <2>3. /\ state'[j] = r[3] /\ \A k \in Jobs : k # j => state'[k] = state[k]
          /\ \A k \in Jobs : Withdrawals \cap audit'[k] = Withdrawals \cap audit[k]
        <3>1. Withdrawals \cap Row(state[j], r[3]) = {}
            BY <1>6 DEF Withdrawals, Row, Taken
        <3> QED BY ZenonT(30), <1>1, <2>2, <3>1 DEF Becomes, DTypeOK, TypeOK
    <2>4. AskInv'
        BY ZenonT(30), <1>1, <1>2, <1>3, <2>2, <2>3 DEF AskInv, Unanswered
    <2>5. AcceptInv'
        BY ZenonT(30), <1>2, <1>4, <1>5, <2>2, <2>3 DEF AcceptInv
    <2>6. WorkInv'
        BY ZenonT(30), <1>2, <1>4, <2>2, <2>3 DEF WorkInv, DTypeOK
    <2>7. ReportInv'
        <3>1. \A s \in results : s[1] \in Jobs
            BY DEF DTypeOK
        <3>2. \A s \in results : state'[s[1]] \in Taken \cup {s[3]}
            BY ZenonT(30), <1>4, <2>3, <3>1 DEF ReportInv
        <3> QED BY ZenonT(30), <1>2, <1>5, <2>2, <3>1, <3>2 DEF ReportInv
    <2>8. RunInv'
        BY ZenonT(30), <1>1, <1>2, <2>3 DEF RunInv
    <2>9. \A k \in Jobs : Withdrawals \cap audit'[k] # {} =>
                             state'[k] = "cancelled" /\ runs'[k] = 0 /\ ~ Accepted(k)'
        BY <1>2, <1>3, <1>5, <1>6, <2>3 DEF EndInv
    <2>10. SucceededRan'
        BY ZenonT(30), <1>2, <1>4, <2>3 DEF EndInv, SucceededRan
    <2>11. TakenIsSomebodys'
        <3>1. \A k \in Jobs : k # j /\ Somebodys(k) => Somebodys(k)'
            BY <1>2 DEF Somebodys
        <3>2. \A k \in Jobs : state[k] \in Taken /\ Kind[k] \notin SessionKinds => Somebodys(k)
            BY DEF EndInv, TakenIsSomebodys, Somebodys
        <3>3. \A k \in Jobs : state'[k] \in Taken /\ Kind[k] \notin SessionKinds => Somebodys(k)'
            BY ZenonT(30), <1>1, <1>3, <2>3, <3>1, <3>2
        <3> QED BY <3>3 DEF TakenIsSomebodys, Somebodys
    <2> QED BY ZenonT(30), <2>4, <2>5, <2>6, <2>7, <2>8, <2>9, <2>10, <2>11 DEF EndInv
<1>7. CASE state[j] \notin Taken
    <2>1. state[j] \in Terminal
        BY ZenonT(30), <1>1, <1>4, <1>7
    <2>2. UNCHANGED <<state, lease, audit>>
        BY ZenonT(30), <2>1 DEF HubResult, CanComplete, storeVars
    <2>3. \A k \in Jobs : state[k] \in Taken /\ Somebodys(k) => Somebodys(k)'
        BY ZenonT(30), <1>2, <1>7 DEF Somebodys
    <2> QED BY ZenonT(30), <1>2, <2>2, <2>3, ShrinkStep
<1> QED BY ZenonT(30), <1>6, <1>7

-----------------------------------------------------------------------------
LEMMA DispatchInductive == DSpec => []DispatchInv
<1>1. DInit => DispatchInv
    <2> SUFFICES ASSUME DInit PROVE DispatchInv
        OBVIOUS
    <2>1. /\ TypeOK /\ AttemptInv /\ \A j \in Jobs : state[j] = "none" /\ audit[j] = {}
        BY StoreAssumption DEF DInit, Init, TypeOK, AttemptInv, States
    <2>2. DTypeOK /\ LoopInv /\ LeaseInv
        BY ZenonT(30), <2>1 DEF DInit, DTypeOK, LoopInv, LeaseInv
    <2>3. PlaceInv
        BY ZenonT(30) DEF DInit, PlaceInv, AskInv, Unanswered, AcceptInv, Accepted, WorkInv, ReportInv, RunInv
    <2>4. EndInv
        <3>1. "none" \notin Taken
            BY DEF Taken
        <3> QED BY ZenonT(30), <2>1, <3>1 DEF EndInv, SucceededRan, TakenIsSomebodys
    <2> QED BY <2>2, <2>3, <2>4 DEF DispatchInv
<1>2. ASSUME DispatchInv, DNext PROVE DispatchInv'
    <2>1. DTypeOK' /\ LoopInv' /\ LeaseInv'
        BY <1>2, TypeStep, LoopStep DEF DispatchInv, LeaseInv
    <2>2. PlaceInv' /\ EndInv'
        <3>1. ASSUME NEW w \in beats, NEW p \in Phases, HubBeat(w, p)
              PROVE  PlaceInv' /\ EndInv'
            <4>1. w[1] \in Jobs
                BY <1>2 DEF DispatchInv, DTypeOK
            <4>2. \A j \in Jobs : Quiet(j)
                <5>1. CASE UNCHANGED storeVars
                    BY ZenonT(30), <5>1 DEF storeVars, Quiet
                <5>2. CASE RecordHeartbeat(Agent, w[1], w[2], p)
                    BY <1>2, <4>1, <5>2, HeartbeatQuiet DEF DispatchInv, DTypeOK
                <5> QED BY ZenonT(30), <3>1, <5>1, <5>2 DEF HubBeat
            <4> QED BY ZenonT(30), <1>2, <2>1, <3>1, <4>2, QuietStep DEF HubBeat
        <3>2. CASE HubActs
            <4>1. \A j \in Jobs : Quiet(j)
                BY <1>2, <3>2, HubActsQuiet DEF DispatchInv, DTypeOK
            <4> QED BY <1>2, <2>1, <3>2, <4>1, QuietStep DEF HubActs, agentVars
        <3>3. CASE AgentStep
            BY <1>2, <2>1, <3>3, BeatStep, DropStep, AcceptOfferStep, StartStep, NothingStartsStep,
               WorkerEndsStep DEF AgentStep
        <3>4. CASE LoseRequest \/ \E j \in Jobs : GrantExpires(j)
            BY <1>2, <2>1, <3>4, DropStep
        <3>5. CASE \E o \in acks : HubAck(o)
            BY <1>2, <2>1, <3>5, HubAckStep
        <3>6. CASE \E r \in results : HubResult(r)
            BY <1>2, <2>1, <3>6, HubResultStep
        <3> QED BY <1>2, <3>1, <3>2, <3>3, <3>4, <3>5, <3>6 DEF DNext, HubStep
    <2> QED BY <2>1, <2>2 DEF DispatchInv
<1>3. ASSUME DispatchInv, UNCHANGED vars PROVE DispatchInv'
    <2>1. DTypeOK' /\ LoopInv' /\ LeaseInv'
        BY ZenonT(30), <1>3 DEF DispatchInv, DTypeOK, TypeOK, LoopInv, LeaseInv, AttemptInv, vars, storeVars, agentVars
    <2>2. \A j \in Jobs : Quiet(j)
        BY ZenonT(30), <1>3 DEF Quiet, vars, storeVars
    <2> QED BY <1>3, <2>1, <2>2, QuietStep DEF DispatchInv, vars, agentVars
<1> QED BY <1>1, <1>2, <1>3, PTL DEF DSpec

\* The variables of hub, network and agent keep their types.
THEOREM DispatchTypeCorrect == DSpec => []DTypeOK
<1>1. DispatchInv => DTypeOK
    BY DEF DispatchInv
<1> QED BY <1>1, DispatchInductive, PTL

\* The agent calls the store only in ways ResponseStore allows, so everything
\* proved of the store's Spec holds of the composition.
THEOREM DispatchUsesStore == DSpec => Spec
<1>1. DInit => Init
    BY DEF DInit
<1>2. DispatchInv /\ [DNext]_vars => [Next]_storeVars
    BY StoreSteps DEF DispatchInv, LeaseInv, vars
<1> QED BY <1>1, <1>2, DispatchInductive, PTL DEF DSpec, Spec

\* Hub, network and agent together implement JobContract, whatever is lost,
\* repeated or late, and the store's invariants hold of them.
THEOREM DispatchKeepsContract ==
    DSpec => KeepsContract /\ [](OfferedWithinLimit /\ AuditExplainsState
                                    /\ SupervisedWasTaken /\ OffersPacked)
BY DispatchUsesStore, StoreKeepsContract, OffersLimited, AuditComplete, SupervisedTaken,
   HeartbeatOffersPacked, PTL

\* No job's action is started twice, whatever is lost, repeated, late or crashed
\* and even if the agent's replay cache forgets.
THEOREM StartedOnce == DSpec => []RunsAtMostOnce
<1>1. DispatchInv => RunsAtMostOnce
    BY DEF DispatchInv, PlaceInv, RunInv, RunsAtMostOnce
<1> QED BY <1>1, DispatchInductive, PTL

\* A job withdrawn before an agent took it is never started.
THEOREM WithdrawnStaysUnstarted == DSpec => []WithdrawnNeverRuns
<1>1. DispatchInv => WithdrawnNeverRuns
    BY DEF DispatchInv, EndInv, WithdrawnNeverRuns, Withdrawals
<1> QED BY <1>1, DispatchInductive, PTL

\* A running worker's job is taken under the worker's own lease.
THEOREM WorkersHoldTheirJobs == DSpec => []WorkerHoldsJob
<1>1. DispatchInv => WorkerHoldsJob
    BY ZenonT(30) DEF DispatchInv, PlaceInv, WorkInv, WorkerHoldsJob
<1> QED BY <1>1, DispatchInductive, PTL

\* Every result in flight is for its job's current lease and will be accepted,
\* or its job has ended exactly as the result says.
THEOREM ResultsAreExpected == DSpec => []ResultsFindTheirJob
<1>1. DispatchInv => ResultsFindTheirJob
    BY DEF DispatchInv, PlaceInv, ReportInv, ResultsFindTheirJob
<1> QED BY <1>1, DispatchInductive, PTL

\* A taken script or collection is about to start, running or reported, unless
\* a fault destroyed the work or its report.
THEOREM TakenHasOwner == DSpec => []TakenIsSomebodys
<1>1. DispatchInv => TakenIsSomebodys
    BY DEF DispatchInv, EndInv
<1> QED BY <1>1, DispatchInductive, PTL

\* A script or collection that succeeded was started, once.
THEOREM SuccessMeansRun == DSpec => []SucceededRan
<1>1. DispatchInv => SucceededRan
    BY DEF DispatchInv, EndInv
<1> QED BY <1>1, DispatchInductive, PTL
=============================================================================
