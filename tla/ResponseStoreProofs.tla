------------------------ MODULE ResponseStoreProofs ------------------------
(***************************************************************************)
(* What ResponseStore guarantees for any set of jobs and endpoints and any *)
(* limits.  Every step moves each job along one allowed transition, with   *)
(* its audit row, or leaves it alone (StepMoves); the contract and the     *)
(* audit invariants follow from that alone.                                *)
(***************************************************************************)
EXTENDS ResponseStore, FiniteSetTheorems, TLAPS

\* A state change the store makes: creation, or an allowed transition that is
\* neither a repetition nor the unused way back from offered to queued.
Forward(s, t) ==
    \/ s = "none" /\ t = "queued"
    \/ s # "none" /\ s # t /\ t # "queued" /\ IsValidTransition(s, t)

Moves(j) ==
    /\ \/ state'[j] = state[j] /\ audit'[j] = audit[j]
       \/ /\ Forward(state[j], state'[j])
          /\ audit'[j] = audit[j] \cup {<<state[j], state'[j]>>}
    /\ phase'[j] # phase[j] => state[j] \in Taken
    /\ \/ attempt'[j] = attempt[j] /\ lease'[j] = lease[j]
       \/ /\ state[j] \in Open /\ state'[j] = "offered" /\ ~ Exhausted(j)
          /\ attempt'[j] = attempt[j] + 1 /\ lease'[j] = nextLease /\ nextLease' = nextLease + 1
    /\ nextLease' >= nextLease

-----------------------------------------------------------------------------
\* recordAudit with the UPDATE: one job moves, the others do not.
LEMMA BecomesMoves ==
    ASSUME TypeOK, NEW j \in Jobs, NEW to \in States, Becomes(j, to),
           to = state[j] \/ Forward(state[j], to)
    PROVE  /\ state' \in [Jobs -> States]
           /\ audit' \in [Jobs -> SUBSET (States \X States)]
           /\ \A k \in Jobs :
                 \/ state'[k] = state[k] /\ audit'[k] = audit[k]
                 \/ /\ Forward(state[k], state'[k])
                    /\ audit'[k] = audit[k] \cup {<<state[k], state'[k]>>}
<1> DEFINE row == Row(state[j], to)
<1>1. row \subseteq States \X States
    BY DEF TypeOK, Row
<1>2. audit' = [audit EXCEPT ![j] = audit[j] \cup row]
    BY DEF TypeOK, Becomes
<1>3. state' = [state EXCEPT ![j] = to]
    BY DEF Becomes
<1>4. audit' \in [Jobs -> SUBSET (States \X States)] /\ state' \in [Jobs -> States]
    BY <1>1, <1>2, <1>3 DEF TypeOK
<1>5. ASSUME NEW k \in Jobs
      PROVE  \/ state'[k] = state[k] /\ audit'[k] = audit[k]
             \/ /\ Forward(state[k], state'[k])
                /\ audit'[k] = audit[k] \cup {<<state[k], state'[k]>>}
    <2>1. CASE k # j
        BY <2>1, <1>2, <1>3 DEF TypeOK
    <2>2. CASE k = j
        <3>1. state'[j] = to /\ audit'[j] = audit[j] \cup row
            BY <1>2, <1>3 DEF TypeOK
        <3>2. CASE to = state[j]
            BY <3>1, <3>2, <2>2 DEF Row
        <3>3. CASE to # state[j]
            BY <3>1, <3>3, <2>2 DEF Row
        <3> QED BY <3>2, <3>3
    <2> QED BY <2>1, <2>2
<1> QED BY <1>4, <1>5

\* One heartbeat: offered and exhausted jobs were open, the rest do not move.
LEMMA OfferMoves ==
    ASSUME TypeOK, NEW e \in Endpoints, OfferPendingJobs(e)
    PROVE  TypeOK' /\ \A j \in Jobs : Moves(j)
<1> DEFINE offers == Offers(e)
           dead == NeverTaken(e)
<1>1. /\ offers \subseteq Jobs /\ dead \subseteq Jobs
      /\ \A j \in offers : state[j] \in Open /\ ~ Exhausted(j)
      /\ \A j \in dead : state[j] = "offered" /\ j \notin offers
    BY DEF Offers, NeverTaken, Reached, Items, Pending, Exhausted, Open
<1> HIDE DEF offers, dead
<1>2. /\ state' = [j \in Jobs |-> IF j \in offers \cup dead
                                  THEN IF j \in offers THEN "offered" ELSE "failed" ELSE state[j]]
      /\ audit' = [j \in Jobs |-> IF j \in offers \cup dead
                                  THEN audit[j] \cup Row(state[j], IF j \in offers THEN "offered" ELSE "failed")
                                  ELSE audit[j]]
      /\ lease' = [j \in Jobs |-> IF j \in offers THEN nextLease ELSE lease[j]]
      /\ leaseLive' = [j \in Jobs |-> IF j \in offers THEN TRUE ELSE leaseLive[j]]
      /\ attempt' = [j \in Jobs |-> IF j \in offers THEN attempt[j] + 1 ELSE attempt[j]]
      /\ nextLease' = IF offers = {} THEN nextLease ELSE nextLease + 1
      /\ UNCHANGED <<requested, phase>>
    BY DEF OfferPendingJobs, offers, dead
<1>3. nextLease' \in Nat \ {0} /\ nextLease' >= nextLease
    BY <1>2 DEF TypeOK
<1>4. ASSUME NEW j \in Jobs
      PROVE  /\ Moves(j)
             /\ state'[j] \in States /\ audit'[j] \in SUBSET (States \X States)
    <2>1. CASE j \in offers
        <3>1. /\ state'[j] = "offered" /\ attempt'[j] = attempt[j] + 1
              /\ lease'[j] = nextLease /\ phase'[j] = phase[j]
              /\ nextLease' = nextLease + 1
              /\ audit'[j] = audit[j] \cup Row(state[j], "offered")
              /\ state[j] \in Open /\ ~ Exhausted(j)
            BY <1>1, <1>2, <2>1
        <3>2. CASE state[j] = "offered"
            BY <1>3, <3>1, <3>2 DEF Moves, Row, States, Open, TypeOK
        <3>3. CASE state[j] = "queued"
            <4>1. audit'[j] = audit[j] \cup {<<"queued", "offered">>}
                BY <3>1, <3>3 DEF Row
            <4> QED BY <1>3, <3>1, <3>3, <4>1 DEF Moves, Forward, IsValidTransition, States, Open, TypeOK
        <3> QED BY <3>1, <3>2, <3>3 DEF Open
    <2>2. CASE j \in dead
        <3>1. /\ state'[j] = "failed" /\ attempt'[j] = attempt[j] /\ lease'[j] = lease[j]
              /\ phase'[j] = phase[j] /\ state[j] = "offered"
              /\ audit'[j] = audit[j] \cup Row("offered", "failed")
            BY <1>1, <1>2, <2>2
        <3>2. audit'[j] = audit[j] \cup {<<"offered", "failed">>}
            BY <3>1 DEF Row
        <3> QED BY <1>3, <3>1, <3>2 DEF Moves, Forward, IsValidTransition, States, Open, Terminal, TypeOK
    <2>3. CASE j \notin offers \cup dead
        BY <1>2, <1>3, <2>3 DEF Moves, TypeOK
    <2> QED BY <2>1, <2>2, <2>3
<1>5. TypeOK'
    <2>1. state' \in [Jobs -> States] /\ audit' \in [Jobs -> SUBSET (States \X States)]
        BY <1>2, <1>4
    <2>2. lease' \in [Jobs -> Nat] /\ attempt' \in [Jobs -> Nat]
        BY <1>2 DEF TypeOK
    <2>3. leaseLive' \in [Jobs -> BOOLEAN]
        <3>1. leaseLive' = [j \in Jobs |-> IF j \in offers THEN TRUE ELSE leaseLive[j]]
            BY <1>2
        <3>2. \A j \in Jobs : leaseLive[j] \in BOOLEAN
            BY DEF TypeOK
        <3> QED BY <3>1, <3>2, Zenon
    <2> QED BY ZenonT(30), <1>2, <1>3, <2>1, <2>2, <2>3 DEF TypeOK
<1> QED BY <1>4, <1>5

\* Every step of the store, whoever called it, moves each job at most once.
LEMMA StepMoves ==
    ASSUME TypeOK, Next
    PROVE  TypeOK' /\ \A j \in Jobs : Moves(j)
<1> USE DEF States, Open, Taken, Terminal
<1>1. ASSUME NEW j \in Jobs, NEW to \in States, Becomes(j, to),
             to = state[j] \/ Forward(state[j], to),
             UNCHANGED <<lease, attempt, phase, nextLease>>
      PROVE  /\ state' \in [Jobs -> States]
             /\ audit' \in [Jobs -> SUBSET (States \X States)]
             /\ \A k \in Jobs : Moves(k)
    <2> HIDE DEF States, Open, Taken, Terminal
    <2>1. nextLease' >= nextLease
        BY <1>1 DEF TypeOK
    <2> QED BY <1>1, <2>1, BecomesMoves DEF Moves
<1>2. ASSUME NEW j \in Jobs, CreateJob(j)
      PROVE  TypeOK' /\ \A k \in Jobs : Moves(k)
    <2>1. /\ state' \in [Jobs -> States]
          /\ audit' \in [Jobs -> SUBSET (States \X States)]
          /\ \A k \in Jobs : Moves(k)
        BY <1>1, <1>2 DEF CreateJob, Forward
    <2>2. Cardinality(Created) \in Nat
        BY FS_Subset, FS_CardinalityType, StoreAssumption DEF Created
    <2>3. requested' \in [Jobs -> Nat]
        BY <1>2, <2>2 DEF CreateJob, TypeOK
    <2> QED BY <1>2, <2>1, <2>3 DEF CreateJob, TypeOK
<1>3. ASSUME NEW j \in Jobs, CancelJob(j)
      PROVE  TypeOK' /\ \A k \in Jobs : Moves(k)
    <2>1. /\ state' \in [Jobs -> States]
          /\ audit' \in [Jobs -> SUBSET (States \X States)]
          /\ \A k \in Jobs : Moves(k)
        BY <1>1, <1>3 DEF CancelJob, Forward, TypeOK
    <2> QED BY <1>3, <2>1 DEF CancelJob, TypeOK
<1>4. ASSUME NEW j \in Jobs, ExpireLease(j)
      PROVE  TypeOK' /\ \A k \in Jobs : Moves(k)
    <2>1. leaseLive' \in [Jobs -> BOOLEAN]
        BY <1>4, Zenon DEF ExpireLease, TypeOK
    <2>2. UNCHANGED <<state, requested, lease, attempt, phase, audit, nextLease>>
        BY <1>4 DEF ExpireLease
    <2> QED BY <2>1, <2>2 DEF Moves, TypeOK
<1>5. ASSUME NEW j \in Jobs, NEW unclean \in BOOLEAN, EndSessionJob(j, unclean)
      PROVE  TypeOK' /\ \A k \in Jobs : Moves(k)
    <2> DEFINE to == IF state[j] \in Open THEN "cancelled"
                     ELSE IF unclean THEN "failed" ELSE "succeeded"
    <2>1. to \in {"cancelled", "failed", "succeeded"}
        BY DEF to
    <2>2. /\ state[j] # "none" /\ state[j] # to /\ IsValidTransition(state[j], to) /\ Becomes(j, to)
          /\ UNCHANGED <<requested, lease, leaseLive, attempt, phase, nextLease>>
        BY <1>5 DEF EndSessionJob
    <2> HIDE DEF to
    <2>3. /\ state' \in [Jobs -> States]
          /\ audit' \in [Jobs -> SUBSET (States \X States)]
          /\ \A k \in Jobs : Moves(k)
        BY <1>1, <2>1, <2>2 DEF Forward
    <2> QED BY <2>2, <2>3 DEF TypeOK
<1>6. ASSUME NEW e \in Endpoints, NEW j \in Jobs, NEW l \in Nat, NEW accepted \in BOOLEAN,
             AcknowledgeJob(e, j, l, accepted)
      PROVE  TypeOK' /\ \A k \in Jobs : Moves(k)
    <2>1. PICK to \in {"acknowledged", "failed"} :
             /\ state[j] # "none" /\ IsValidTransition(state[j], to) /\ Becomes(j, to)
             /\ UNCHANGED <<requested, lease, leaseLive, attempt, phase, nextLease>>
        BY <1>6 DEF AcknowledgeJob, CanAcknowledge, LeasedTo
    <2>2. /\ state' \in [Jobs -> States]
          /\ audit' \in [Jobs -> SUBSET (States \X States)]
          /\ \A k \in Jobs : Moves(k)
        BY <1>1, <2>1 DEF Forward
    <2> QED BY <2>1, <2>2 DEF TypeOK
<1>7. ASSUME NEW e \in Endpoints, NEW j \in Jobs, NEW l \in Nat, RecordProgress(e, j, l)
      PROVE  TypeOK' /\ \A k \in Jobs : Moves(k)
    <2>1. PICK to \in States :
             /\ to = state[j] \/ (state[j] = "acknowledged" /\ to = "running")
             /\ Becomes(j, to)
             /\ UNCHANGED <<requested, lease, leaseLive, attempt, phase, nextLease>>
        BY <1>7 DEF RecordProgress, TypeOK
    <2>2. /\ state' \in [Jobs -> States]
          /\ audit' \in [Jobs -> SUBSET (States \X States)]
          /\ \A k \in Jobs : Moves(k)
        BY <1>1, <2>1 DEF Forward, IsValidTransition
    <2> QED BY <2>1, <2>2 DEF TypeOK
<1>8. ASSUME NEW e \in Endpoints, NEW j \in Jobs, NEW l \in Nat, NEW p \in Phases,
             RecordHeartbeat(e, j, l, p)
      PROVE  TypeOK' /\ \A k \in Jobs : Moves(k)
    <2>1. /\ state[j] \in Taken /\ phase' = [phase EXCEPT ![j] = p]
          /\ UNCHANGED <<requested, lease, leaseLive, attempt, nextLease>>
        BY <1>8 DEF RecordHeartbeat, CanHeartbeat
    <2>2. \/ UNCHANGED <<state, audit>>
          \/ \E to \in States : /\ to = state[j] \/ (state[j] = "acknowledged" /\ to = "running")
                                /\ Becomes(j, to)
        BY <1>8 DEF RecordHeartbeat, TypeOK
    <2>3. /\ state' \in [Jobs -> States]
          /\ audit' \in [Jobs -> SUBSET (States \X States)]
          /\ \A k \in Jobs :
                \/ state'[k] = state[k] /\ audit'[k] = audit[k]
                \/ /\ Forward(state[k], state'[k])
                   /\ audit'[k] = audit[k] \cup {<<state[k], state'[k]>>}
        BY <2>2, BecomesMoves DEF TypeOK, Forward, IsValidTransition
    <2>4. \A k \in Jobs : phase'[k] # phase[k] => state[k] \in Taken
        BY <2>1 DEF TypeOK
    <2>5. nextLease' >= nextLease
        BY <2>1 DEF TypeOK
    <2> QED BY ZenonT(30), <2>1, <2>3, <2>4, <2>5 DEF Moves, TypeOK
<1>9. ASSUME NEW e \in Endpoints, NEW j \in Jobs, NEW l \in Nat, NEW outcome \in Terminal,
             CompleteJob(e, j, l, outcome)
      PROVE  TypeOK' /\ \A k \in Jobs : Moves(k)
    <2>1. /\ state[j] # "none" /\ IsValidTransition(state[j], outcome) /\ Becomes(j, outcome)
          /\ UNCHANGED <<requested, lease, leaseLive, attempt, phase, nextLease>>
        BY <1>9 DEF CompleteJob, CanComplete, LeasedTo
    <2>2. /\ state' \in [Jobs -> States]
          /\ audit' \in [Jobs -> SUBSET (States \X States)]
          /\ \A k \in Jobs : Moves(k)
        BY <1>1, <2>1 DEF Forward
    <2> QED BY <2>1, <2>2 DEF TypeOK
<1>10. \A l \in 1 .. nextLease - 1 : l \in Nat
    BY DEF TypeOK
<1> QED BY <1>2, <1>3, <1>4, <1>5, <1>6, <1>7, <1>8, <1>9, <1>10, OfferMoves DEF Next

-----------------------------------------------------------------------------
\* The rows of the response_jobs table keep their types under any requests.
THEOREM StoreTypeCorrect == Spec => []TypeOK
<1>1. Init => TypeOK
    BY DEF Init, TypeOK, States
<1>2. TypeOK /\ [Next]_storeVars => TypeOK'
    <2>1. ASSUME TypeOK, Next PROVE TypeOK'
        BY <2>1, StepMoves
    <2>2. ASSUME TypeOK, UNCHANGED storeVars PROVE TypeOK'
        BY <2>2 DEF TypeOK, storeVars
    <2> QED BY <2>1, <2>2
<1> QED BY <1>1, <1>2, PTL DEF Spec

\* A stage move of one job, from its store move.
LEMMA MoveKeepsContract ==
    ASSUME NEW s \in States, NEW t \in States, s = t \/ Forward(s, t)
    PROVE  /\ Stage(t) \in {"absent", "open", "taken", "ended"}
           /\ \/ s = t
              \/ Stage(s) = "absent" /\ Stage(t) = "open" /\ t \notin Terminal
              \/ Stage(s) = "open" /\ Stage(t) = "open" /\ s \notin Terminal /\ t \notin Terminal
              \/ Stage(s) = "taken" /\ Stage(t) = "taken" /\ s \notin Terminal /\ t \notin Terminal
              \/ Stage(s) = "open" /\ Stage(t) = "taken" /\ t \notin Terminal
              \/ Stage(s) = "open" /\ Stage(t) = "ended" /\ t \in {"failed", "cancelled"}
              \/ Stage(s) = "taken" /\ Stage(t) = "ended" /\ t \in Terminal
    BY DEF States, Open, Taken, Terminal, Stage, Forward, IsValidTransition

\* ResponseStore implements JobContract: a job is taken at most once, ends at
\* most once, and succeeds only after it was taken, whatever requests arrive.
THEOREM StoreKeepsContract == Spec => KeepsContract
<1>1. Init => Contract!JobInit
    BY DEF Init, Contract!JobInit, Stage, Open, Taken, Terminal
<1>2. ASSUME TypeOK, Next
      PROVE  Contract!JobNext
    <2>1. TypeOK' /\ \A j \in Jobs : Moves(j)
        BY <1>2, StepMoves
    <2>2. ASSUME NEW j \in Jobs
          PROVE  state[j] \in States /\ state'[j] \in States
                 /\ (state[j] = state'[j] \/ Forward(state[j], state'[j]))
        BY <1>2, <2>1 DEF TypeOK, Moves
    <2>3. [j \in Jobs |-> Stage(state'[j])] \in [Jobs -> {"absent", "open", "taken", "ended"}]
        BY <2>2, MoveKeepsContract
    <2>4. [j \in Jobs |-> IF state'[j] \in Terminal THEN state'[j] ELSE "none"]
             \in [Jobs -> Contract!Outcomes \cup {"none"}]
        BY DEF Terminal, Contract!Outcomes
    <2>5. ASSUME NEW j \in Jobs
          PROVE  \/ Contract!Stays(j) \/ Contract!Create(j) \/ Contract!Take(j)
                 \/ Contract!Withdraw(j) \/ Contract!Finish(j)
        BY <2>2, MoveKeepsContract
        DEF Contract!Stays, Contract!Create, Contract!Take, Contract!Withdraw, Contract!Finish,
            Contract!Outcomes, Terminal
    <2> QED BY <2>3, <2>4, <2>5 DEF Contract!JobNext
<1>3. UNCHANGED storeVars => UNCHANGED Contract!jobVars
    BY DEF storeVars, Contract!jobVars
<1>4. TypeOK /\ [Next]_storeVars => [Contract!JobNext]_(Contract!jobVars)
    BY <1>2, <1>3
<1> QED BY <1>1, <1>4, StoreTypeCorrect, PTL DEF Spec, KeepsContract, Contract!JobSpec

-----------------------------------------------------------------------------
\* A job that was never offered has made no attempt; leases in use were issued.
AttemptInv ==
    /\ \A j \in Jobs : attempt[j] <= OfferAttemptsMax
    /\ \A j \in Jobs : state[j] \in {"none", "queued"} => attempt[j] = 0
    /\ \A j \in Jobs : lease[j] < nextLease

LEMMA AttemptStep ==
    ASSUME TypeOK, AttemptInv, Next
    PROVE  AttemptInv'
<1>1. \A j \in Jobs : Moves(j)
    BY StepMoves
<1>2. ASSUME NEW j \in Jobs
      PROVE  /\ attempt'[j] <= OfferAttemptsMax
             /\ state'[j] \in {"none", "queued"} => attempt'[j] = 0
             /\ lease'[j] < nextLease'
    <2> USE <1>1, StoreAssumption DEF AttemptInv, TypeOK
    <2>1. CASE attempt'[j] = attempt[j] /\ lease'[j] = lease[j]
        <3>1. state'[j] \in {"none", "queued"} => state[j] \in {"none", "queued"}
            BY DEF Moves, Forward, IsValidTransition, Terminal
        <3>2. nextLease' >= nextLease /\ nextLease' \in Nat
            BY StepMoves DEF Moves
        <3> QED BY <2>1, <3>1, <3>2
    <2>2. CASE /\ state[j] \in Open /\ state'[j] = "offered" /\ ~ Exhausted(j)
               /\ attempt'[j] = attempt[j] + 1 /\ lease'[j] = nextLease
               /\ nextLease' = nextLease + 1
        BY <2>2 DEF Exhausted, Open
    <2> QED BY <2>1, <2>2 DEF Moves
<1> QED BY <1>2 DEF AttemptInv

\* OfferPendingJobs never offers a job more than offerAttemptsMax times.
THEOREM OffersLimited == Spec => []OfferedWithinLimit
<1>1. Init => AttemptInv
    BY StoreAssumption DEF Init, AttemptInv
<1>2. ASSUME AttemptInv, UNCHANGED storeVars PROVE AttemptInv'
    BY <1>2 DEF AttemptInv, storeVars
<1>3. AttemptInv => OfferedWithinLimit
    BY DEF AttemptInv, OfferedWithinLimit
<1> QED BY <1>1, <1>2, <1>3, AttemptStep, StoreTypeCorrect, PTL DEF Spec

\* How far along its life a job is; every audited transition moves up.
Rank(s) ==
    CASE s = "none" -> 0
      [] s = "queued" -> 1
      [] s = "offered" -> 2
      [] s = "acknowledged" -> 3
      [] s = "running" -> 4
      [] s = "cancel_requested" -> 5
      [] s \in Terminal -> 6

LEMMA ForwardRises ==
    ASSUME NEW s \in States, NEW t \in States, Forward(s, t)
    PROVE  Rank(s) \in Nat /\ Rank(t) \in Nat /\ Rank(s) < Rank(t)
    BY DEF States, Open, Taken, Terminal, Rank, Forward, IsValidTransition

\* The audit rows of one job in state s: its story, and never out of s.
Story(rows, s) ==
    /\ s = "none" => rows = {}
    /\ s # "none" => <<"none", "queued">> \in rows
    /\ s \in Taken => <<"offered", "acknowledged">> \in rows
    /\ \A row \in rows : /\ Forward(row[1], row[2])
                         /\ Rank(row[1]) < Rank(s)
                         /\ row[2] = s \/ \E r \in rows : r[1] = row[2]
                         /\ row[1] = "none" \/ \E r \in rows : r[2] = row[1]
    /\ s = "none" \/ \E r \in rows : r[2] = s

LEMMA StoryGoesOn ==
    ASSUME NEW rows \in SUBSET (States \X States), NEW s \in States, NEW t \in States,
           Story(rows, s), Forward(s, t)
    PROVE  Story(rows \cup {<<s, t>>}, t)
<1> DEFINE new == rows \cup {<<s, t>>}
<1>1. Rank(s) \in Nat /\ Rank(t) \in Nat /\ Rank(s) < Rank(t)
    BY ForwardRises
<1>2. t # "none" /\ <<"none", "queued">> \in new
    BY DEF Story, Forward, IsValidTransition, Terminal
<1>3. t \in Taken => <<"offered", "acknowledged">> \in new
    BY DEF Story, Forward, IsValidTransition, Taken, Terminal
<1>4. ASSUME NEW row \in new
      PROVE  /\ Forward(row[1], row[2])
             /\ Rank(row[1]) < Rank(t)
             /\ row[2] = t \/ \E r \in new : r[1] = row[2]
             /\ row[1] = "none" \/ \E r \in new : r[2] = row[1]
    <2>1. CASE row \in rows
        <3>1. /\ Forward(row[1], row[2]) /\ Rank(row[1]) < Rank(s)
              /\ row[2] = s \/ \E r \in rows : r[1] = row[2]
              /\ row[1] = "none" \/ \E r \in rows : r[2] = row[1]
            BY <2>1 DEF Story
        <3>2. row[1] \in States /\ row[2] \in States
            BY <2>1
        <3>3. Rank(row[1]) \in Nat
            BY <3>1, <3>2, ForwardRises
        <3>4. row[2] = s => \E r \in new : r[1] = row[2]
            <4>1. <<s, t>> \in new /\ <<s, t>>[1] = s
                OBVIOUS
            <4> QED BY <4>1, Zenon
        <3>5. Rank(row[1]) < Rank(t)
            BY <1>1, <3>1, <3>3
        <3> QED BY ZenonT(30), <3>1, <3>4, <3>5
    <2>2. CASE row = <<s, t>>
        <3>1. s = "none" \/ \E r \in rows : r[2] = s
            BY DEF Story
        <3> QED BY <1>1, <2>2, <3>1
    <2> QED BY <2>1, <2>2
<1>5. \E r \in new : r[2] = t
    <2>1. <<s, t>> \in new /\ <<s, t>>[2] = t
        OBVIOUS
    <2> QED BY <2>1, Zenon
<1> QED BY <1>2, <1>3, <1>4, <1>5 DEF Story

StoryInv == \A j \in Jobs : Story(audit[j], state[j])

LEMMA StoryInductive == Spec => [](TypeOK /\ StoryInv)
<1>1. Init => StoryInv
    BY DEF Init, StoryInv, Story, Taken
<1>2. ASSUME TypeOK, StoryInv, Next
      PROVE  StoryInv'
    <2>1. \A j \in Jobs : Moves(j) /\ state'[j] \in States
        BY <1>2, StepMoves DEF TypeOK
    <2>2. ASSUME NEW j \in Jobs
          PROVE  Story(audit'[j], state'[j])
        <3>1. Story(audit[j], state[j]) /\ state[j] \in States /\ audit[j] \in SUBSET (States \X States)
            BY <1>2 DEF StoryInv, TypeOK
        <3> QED BY <2>1, <3>1, StoryGoesOn DEF Moves
    <2> QED BY <2>2 DEF StoryInv
<1>3. ASSUME StoryInv, UNCHANGED storeVars PROVE StoryInv'
    BY <1>3 DEF StoryInv, storeVars
<1> QED BY <1>1, <1>2, <1>3, StoreTypeCorrect, PTL DEF Spec

\* The audit trail of every job leads from its creation along allowed
\* transitions to the state it is in, and to no other.
THEOREM AuditComplete == Spec => []AuditExplainsState
<1>1. ASSUME TypeOK, StoryInv
      PROVE  AuditExplainsState
    <2> SUFFICES ASSUME NEW j \in Created
                 PROVE  LET reached == {row[2] : row \in audit[j]}
                            left == {row[1] : row \in audit[j]}
                        IN  /\ <<"none", "queued">> \in audit[j]
                            /\ \A row \in audit[j] :
                                  row[1] = "none" \/ IsValidTransition(row[1], row[2])
                            /\ left \subseteq reached \cup {"none"}
                            /\ reached \ left = {state[j]}
        BY ZenonT(30) DEF AuditExplainsState
    <2> DEFINE reached == {row[2] : row \in audit[j]}
               left == {row[1] : row \in audit[j]}
    <2>1. j \in Jobs /\ state[j] # "none" /\ state[j] \in States
          /\ audit[j] \in SUBSET (States \X States) /\ Story(audit[j], state[j])
        BY <1>1 DEF Created, StoryInv, TypeOK
    <2>2. <<"none", "queued">> \in audit[j]
        BY <2>1 DEF Story
    <2>3. \A row \in audit[j] : row[1] = "none" \/ IsValidTransition(row[1], row[2])
        BY <2>1 DEF Story, Forward
    <2>4. left \subseteq reached \cup {"none"}
        BY <2>1 DEF Story
    <2>5. state[j] \in reached
        BY <2>1 DEF Story
    <2>6. state[j] \notin left
        <3>1. \A row \in audit[j] : Rank(row[1]) \in Nat /\ Rank(row[1]) < Rank(state[j])
            BY <2>1, ForwardRises DEF Story
        <3> QED BY <3>1
    <2>7. \A t \in reached : t = state[j] \/ t \in left
        BY <2>1 DEF Story
    <2> QED BY <2>2, <2>3, <2>4, <2>5, <2>6, <2>7
<1> QED BY <1>1, StoryInductive, PTL

\* A job has a supervision row only after an ack of it was accepted.
THEOREM SupervisedTaken == Spec => []SupervisedWasTaken
<1>1. Init => SupervisedWasTaken
    BY DEF Init, SupervisedWasTaken
<1>2. ASSUME TypeOK, StoryInv, SupervisedWasTaken, Next
      PROVE  SupervisedWasTaken'
    <2>1. \A j \in Jobs : Moves(j)
        BY <1>2, StepMoves
    <2>2. ASSUME NEW j \in Jobs, phase'[j] # "none"
          PROVE  <<"offered", "acknowledged">> \in audit'[j]
        <3>1. audit[j] \subseteq audit'[j]
            BY <2>1 DEF Moves
        <3>2. CASE phase'[j] = phase[j]
            BY <1>2, <2>2, <3>1, <3>2 DEF SupervisedWasTaken
        <3>3. CASE phase'[j] # phase[j]
            BY <1>2, <2>1, <3>1, <3>3 DEF Moves, StoryInv, Story
        <3> QED BY <3>2, <3>3
    <2> QED BY <2>2 DEF SupervisedWasTaken
<1>3. ASSUME SupervisedWasTaken, UNCHANGED storeVars PROVE SupervisedWasTaken'
    BY <1>3 DEF SupervisedWasTaken, storeVars
<1> QED BY <1>1, <1>2, <1>3, StoryInductive, PTL DEF Spec

-----------------------------------------------------------------------------
(* How OfferPendingJobs packs a heartbeat's offers.  Its budget is a sum over *)
(* a set of jobs; SumIsCount says what that sum is.                          *)

\* The bytes of a set of jobs, each byte counted.
Units(S) == {p \in S \X Nat : p[2] \in 1 .. Size[p[1]]}

SumOf(S) == MapThenSumSet(LAMBDA k : Size[k], S)

IsFold(g, S) ==
    g = [s \in SUBSET S |-> IF s = {} THEN 0
                            ELSE Size[CHOOSE x \in s : TRUE]
                                    + g[s \ {CHOOSE x \in s : TRUE}]]

LEMMA UnitsOfEmpty == Units({}) = {} /\ Cardinality(Units({})) = 0 /\ IsFiniteSet(Units({}))
<1>1. Units({}) = {}
    BY DEF Units
<1> QED BY <1>1, FS_EmptySet

\* One job more adds its bytes.
LEMMA UnitsOfOneMore ==
    ASSUME NEW S \in SUBSET Jobs, NEW x \in Jobs, x \notin S, IsFiniteSet(Units(S))
    PROVE  /\ IsFiniteSet(Units(S \cup {x}))
           /\ Cardinality(Units(S \cup {x})) = Size[x] + Cardinality(Units(S))
<1> DEFINE own == {x} \X (1 .. Size[x])
<1>1. Size[x] \in Nat
    BY StoreAssumption
<1>2. IsFiniteSet(1 .. Size[x]) /\ Cardinality(1 .. Size[x]) = Size[x]
    <2> DEFINE n == Size[x]
    <2>1. 1 \in Int /\ n \in Int /\ n \in Nat
        BY <1>1
    <2> HIDE DEF n
    <2>2. IsFiniteSet(1 .. n) /\ Cardinality(1 .. n) = IF 1 > n THEN 0 ELSE n - 1 + 1
        BY <2>1, FS_Interval
    <2>3. IsFiniteSet(1 .. n) /\ Cardinality(1 .. n) = n
        BY SMTT(60), <2>1, <2>2
    <2> QED BY <2>3 DEF n
<1>3. IsFiniteSet({x}) /\ Cardinality({x}) = 1
    BY ZenonT(30), FS_Singleton
<1>4. IsFiniteSet(own) /\ Cardinality(own) = Size[x]
    <2>1. /\ IsFiniteSet({x} \X (1 .. Size[x]))
          /\ Cardinality({x} \X (1 .. Size[x])) = Cardinality({x}) * Cardinality(1 .. Size[x])
        BY ZenonT(30), <1>2, <1>3, FS_Product
    <2>2. Cardinality({x} \X (1 .. Size[x])) = 1 * Size[x]
        BY <1>2, <1>3, <2>1
    <2> QED BY <1>1, <2>1, <2>2
<1>5. Units(S \cup {x}) = own \cup Units(S)
    BY <1>1 DEF Units
<1>6. own \cap Units(S) = {}
    BY DEF Units
<1> HIDE DEF own
<1>7. Cardinality(own \cap Units(S)) = 0
    BY <1>6, FS_EmptySet
<1>8. Cardinality(Units(S)) \in Nat
    BY FS_CardinalityType
<1>9. /\ IsFiniteSet(own \cup Units(S))
      /\ Cardinality(own \cup Units(S)) =
            Cardinality(own) + Cardinality(Units(S)) - Cardinality(own \cap Units(S))
    BY <1>4, FS_Union
<1>10. Cardinality(own \cup Units(S)) = Size[x] + (Cardinality(Units(S)) - 0)
    BY <1>4, <1>7, <1>9, Zenon
<1>11. \A a, c \in Nat : a + (c - 0) = a + c
    OBVIOUS
<1>12. Cardinality(own \cup Units(S)) = Size[x] + Cardinality(Units(S))
    BY <1>1, <1>8, <1>10, <1>11, Zenon
<1> QED BY <1>5, <1>9, <1>12, Zenon

\* The smallest set of a family of finite sets; induction is drawn from this.
LEMMA LeastSet ==
    ASSUME NEW S, IsFiniteSet(S), NEW F \in SUBSET (SUBSET S), F # {}
    PROVE  \E s \in F : \A t \in F : ~ (t \subseteq s /\ t # s)
<1> DEFINE R == StrictSubsetOrdering(S)
<1>1. IsWellFoundedOn(R, SUBSET S)
    BY ZenonT(30), FS_StrictSubsetOrderingWellFounded, FS_FiniteSubsetsOfFinite
<1>2. \A s, t \in SUBSET S : t \subseteq s /\ t # s => <<t, s>> \in R
    BY DEF StrictSubsetOrdering
<1> HIDE DEF R
<1>3. \E s \in F : \A t \in F : <<t, s>> \notin R
    BY <1>1, WFMin
<1> QED BY ZenonT(30), <1>2, <1>3

\* A set of naturals has a least element.
LEMMA LeastNat ==
    ASSUME NEW T \in SUBSET Nat, T # {}
    PROVE  \E n \in T : \A m \in T : n <= m
<1> DEFINE R == OpToRel(<, Nat)
<1>1. IsWellFoundedOn(R, Nat)
    BY ZenonT(30), NatLessThanWellFounded
<1>2. \A m, n \in Nat : m < n => <<m, n>> \in R
    BY DEF OpToRel
<1> HIDE DEF R
<1>3. PICK n \in T : \A m \in T : <<m, n>> \notin R
    BY ZenonT(30), <1>1, WFMin
<1>4. \A m \in T : ~ (m < n)
    BY ZenonT(30), <1>2, <1>3
<1>5. \A m \in T : n <= m
    BY <1>4
<1> QED BY <1>5

\* Finitely many jobs have finitely many bytes.
LEMMA UnitsFinite ==
    ASSUME NEW S \in SUBSET Jobs
    PROVE  IsFiniteSet(Units(S)) /\ Cardinality(Units(S)) \in Nat
<1> DEFINE F == {s \in SUBSET Jobs : ~ IsFiniteSet(Units(s))}
<1>1. ASSUME F # {} PROVE FALSE
    <2>1. PICK s \in F : \A t \in F : ~ (t \subseteq s /\ t # s)
        <3>1. F \in SUBSET (SUBSET Jobs) /\ IsFiniteSet(Jobs)
            BY StoreAssumption
        <3> HIDE DEF F
        <3> QED BY SMTT(60), <1>1, <3>1, LeastSet
    <2>2. s # {}
        BY ZenonT(30), UnitsOfEmpty
    <2>3. PICK x \in s : TRUE
        BY <2>2
    <2> DEFINE t == s \ {x}
    <2>4. t \in SUBSET Jobs /\ x \in Jobs /\ x \notin t /\ t # s /\ t \subseteq s /\ t \cup {x} = s
        BY <2>3
    <2>5. IsFiniteSet(Units(t))
        BY <2>1, <2>4
    <2> HIDE DEF t
    <2> QED BY <2>4, <2>5, UnitsOfOneMore
<1> QED BY <1>1, FS_CardinalityType

\* What MapThenSumSet computes for a set of jobs, whatever order it takes.
LEMMA SumIsCount ==
    ASSUME NEW S \in SUBSET Jobs
    PROVE  SumOf(S) = Cardinality(Units(S))
<1> DEFINE pick(s) == CHOOSE x \in s : TRUE
           g == [s \in SUBSET S |-> Cardinality(Units(s))]
           h == CHOOSE f : IsFold(f, S)
           F == {s \in SUBSET S : h[s] # Cardinality(Units(s))}
<1>1. SumOf(S) = h[S]
    BY DEF SumOf, MapThenSumSet, MapThenFoldSet, IsFold
<1>2. ASSUME NEW s \in SUBSET S, s # {}
      PROVE  /\ pick(s) \in s /\ pick(s) \in Jobs
             /\ s \ {pick(s)} \in SUBSET S /\ s \ {pick(s)} # s
             /\ Cardinality(Units(s)) = Size[pick(s)] + Cardinality(Units(s \ {pick(s)}))
    <2>1. pick(s) \in s
        BY <1>2
    <2> DEFINE x == pick(s)
               t == s \ {x}
    <2> HIDE DEF x
    <2>2. x \in Jobs /\ t \in SUBSET Jobs /\ x \notin t /\ t \cup {x} = s /\ t # s
        BY <2>1 DEF x
    <2>3. IsFiniteSet(Units(t))
        BY <2>2, UnitsFinite
    <2> HIDE DEF t
    <2>4. Cardinality(Units(s)) = Size[x] + Cardinality(Units(t))
        BY <2>2, <2>3, UnitsOfOneMore
    <2> QED BY <1>2, <2>1, <2>2, <2>4 DEF x, t
<1>3. IsFold(g, S)
    <2>1. ASSUME NEW s \in SUBSET S
          PROVE  g[s] = IF s = {} THEN 0
                        ELSE Size[CHOOSE x \in s : TRUE] + g[s \ {CHOOSE x \in s : TRUE}]
        <3>1. CASE s = {}
            BY <3>1, UnitsOfEmpty
        <3>2. CASE s # {}
            BY ZenonT(30), <1>2, <3>2
        <3> QED BY <3>1, <3>2
    <2>2. g = [s \in SUBSET S |-> g[s]]
        OBVIOUS
    <2> HIDE DEF g
    <2> QED BY ZenonT(30), <2>1, <2>2 DEF IsFold
<1>4. IsFold(h, S)
    BY <1>3
<1> HIDE DEF h
<1>5. \A s \in SUBSET S : h[s] = IF s = {} THEN 0
                          ELSE Size[pick(s)] + h[s \ {pick(s)}]
    BY <1>4 DEF IsFold
<1> HIDE DEF pick
<1>6. ASSUME F # {} PROVE FALSE
    <2>1. PICK s \in F : \A t \in F : ~ (t \subseteq s /\ t # s)
        <3>1. F \in SUBSET (SUBSET S) /\ IsFiniteSet(S)
            BY StoreAssumption, FS_Subset
        <3> HIDE DEF F
        <3> QED BY SMTT(60), <1>6, <3>1, LeastSet
    <2>2. s # {}
        BY ZenonT(30), <1>5, <2>1, UnitsOfEmpty
    <2>3. s \ {pick(s)} \notin F
        BY <1>2, <2>1, <2>2
    <2>4. h[s \ {pick(s)}] = Cardinality(Units(s \ {pick(s)}))
        BY <1>2, <2>2, <2>3
    <2> QED BY <1>2, <1>5, <2>1, <2>2, <2>4
<1> QED BY <1>1, <1>6

-----------------------------------------------------------------------------
(* requested_at orders the jobs there are.                                  *)

OrderInv ==
    /\ \A j \in Created : requested[j] < Cardinality(Created)
    /\ \A j, k \in Created : requested[j] = requested[k] => j = k

LEMMA CreatedFinite == IsFiniteSet(Created) /\ Cardinality(Created) \in Nat
<1>1. Created \in SUBSET Jobs
    BY DEF Created
<1> QED BY <1>1, StoreAssumption, FS_Subset, FS_CardinalityType

\* A job that is there stays, and only CreateJob adds one.
LEMMA CreatedStays ==
    ASSUME TypeOK, [Next]_storeVars, ~ \E j \in Jobs : CreateJob(j)
    PROVE  Created' = Created /\ requested' = requested
<1>1. ASSUME NEW j \in Jobs, state[j] # "none", NEW to \in States \ {"none"}, Becomes(j, to)
      PROVE  Created' = Created
    BY <1>1 DEF Becomes, TypeOK, Created
<1>2. ASSUME NEW j \in Jobs, CancelJob(j) PROVE Created' = Created /\ requested' = requested
    BY <1>1, <1>2 DEF CancelJob, States, Taken, Terminal
<1>3. ASSUME NEW j \in Jobs, ExpireLease(j) PROVE Created' = Created /\ requested' = requested
    BY <1>3 DEF ExpireLease, Created
<1>4. ASSUME NEW j \in Jobs, NEW unclean \in BOOLEAN, EndSessionJob(j, unclean)
      PROVE  Created' = Created /\ requested' = requested
    BY <1>1, <1>4 DEF EndSessionJob, States, Taken, Terminal
<1>5. ASSUME NEW e \in Endpoints, OfferPendingJobs(e)
      PROVE  Created' = Created /\ requested' = requested
    <2>1. \A j \in Offers(e) \cup NeverTaken(e) : state[j] # "none"
        BY DEF Offers, NeverTaken, Reached, Items, Pending
    <2>2. \A j \in Jobs :
             state'[j] = state[j] \/ (j \in Offers(e) \cup NeverTaken(e) /\ state'[j] # "none")
        BY <1>5 DEF OfferPendingJobs
    <2>3. requested' = requested
        BY <1>5 DEF OfferPendingJobs
    <2> QED BY <2>1, <2>2, <2>3 DEF Created
<1>6. ASSUME NEW e \in Endpoints, NEW j \in Jobs, NEW l, NEW accepted \in BOOLEAN,
             AcknowledgeJob(e, j, l, accepted)
      PROVE  Created' = Created /\ requested' = requested
    BY <1>1, <1>6 DEF AcknowledgeJob, CanAcknowledge, LeasedTo, States, Taken, Terminal
<1>7. ASSUME NEW e \in Endpoints, NEW j \in Jobs, NEW l, RecordProgress(e, j, l)
      PROVE  Created' = Created /\ requested' = requested
    BY ZenonT(30), <1>1, <1>7 DEF RecordProgress, LeasedTo, States, Taken, TypeOK
<1>8. ASSUME NEW e \in Endpoints, NEW j \in Jobs, NEW l, NEW p \in Phases,
             RecordHeartbeat(e, j, l, p)
      PROVE  Created' = Created /\ requested' = requested
    <2>1. CASE \E to \in States \ {"none"} : Becomes(j, to)
        BY <1>1, <1>8, <2>1 DEF RecordHeartbeat, CanHeartbeat, LeasedTo
    <2>2. CASE UNCHANGED state
        BY <1>8, <2>2 DEF RecordHeartbeat, Created
    <2> QED BY <1>8, <2>1, <2>2 DEF RecordHeartbeat, CanHeartbeat, States, Taken
<1>9. ASSUME NEW e \in Endpoints, NEW j \in Jobs, NEW l, NEW outcome \in Terminal,
             CompleteJob(e, j, l, outcome)
      PROVE  Created' = Created /\ requested' = requested
    BY <1>1, <1>9 DEF CompleteJob, CanComplete, LeasedTo, States, Terminal
<1>10. CASE UNCHANGED storeVars
    BY <1>10 DEF storeVars, Created
<1> QED BY <1>2, <1>3, <1>4, <1>5, <1>6, <1>7, <1>8, <1>9, <1>10 DEF Next

LEMMA OrderInvariant == Spec => [](TypeOK /\ OrderInv)
<1>1. Init => OrderInv
    BY DEF Init, OrderInv, Created
<1>2. ASSUME TypeOK, OrderInv, [Next]_storeVars PROVE OrderInv'
    <2>1. ASSUME NEW j \in Jobs, CreateJob(j) PROVE OrderInv'
        <3>1. /\ state[j] = "none" /\ state' = [state EXCEPT ![j] = "queued"]
              /\ requested' = [requested EXCEPT ![j] = Cardinality(Created)]
            BY <2>1 DEF CreateJob, Becomes
        <3>2. Created' = Created \cup {j} /\ j \notin Created
            BY <3>1, <1>2 DEF Created, TypeOK
        <3>3. Cardinality(Created') = Cardinality(Created) + 1 /\ Cardinality(Created) \in Nat
            BY <3>2, CreatedFinite, FS_AddElement
        <3>4. /\ requested'[j] = Cardinality(Created)
              /\ \A k \in Created : requested'[k] = requested[k] /\ requested[k] \in Nat
            BY <3>1, <3>2, <1>2 DEF TypeOK, Created
        <3>5. \A k \in Created' : requested'[k] < Cardinality(Created')
            BY SMTT(60), <3>2, <3>3, <3>4, <1>2 DEF OrderInv
        <3>6. \A i, k \in Created' : requested'[i] = requested'[k] => i = k
            BY SMTT(60), <3>2, <3>3, <3>4, <1>2 DEF OrderInv
        <3> QED BY <3>5, <3>6 DEF OrderInv
    <2>2. CASE ~ \E j \in Jobs : CreateJob(j)
        <3>1. Created' = Created /\ requested' = requested
            BY <1>2, <2>2, CreatedStays
        <3>2. (\A j \in Created' : requested'[j] < Cardinality(Created'))
            BY <1>2, <3>1 DEF OrderInv
        <3> QED BY <1>2, <3>1, <3>2 DEF OrderInv
    <2> QED BY <2>1, <2>2
<1> QED BY <1>1, <1>2, StoreTypeCorrect, PTL DEF Spec

-----------------------------------------------------------------------------
(* The offers of one heartbeat.                                             *)

LEMMA OfferedAreCreated ==
    ASSUME NEW e \in Endpoints
    PROVE  /\ Offers(e) \subseteq Offerable(e)
           /\ Offerable(e) \subseteq Created /\ Created \subseteq Jobs
BY DEF Offers, Offerable, Reached, Items, Pending, Created

\* An older job goes with a younger one, the oldest always.
LEMMA OffersAhead ==
    ASSUME TypeOK, NEW e \in Endpoints
    PROVE  /\ \A j \in Offerable(e) : (\A k \in Offerable(e) : ~ Before(k, j)) => j \in Offers(e)
           /\ \A j \in Offers(e), k \in Offerable(e) : Before(k, j) => k \in Offers(e)
<1> DEFINE offerable == Offerable(e)
           stops == {k \in offerable : Breaks(offerable, k)}
<1>1. \A j \in offerable : requested[j] \in Nat
    BY OfferedAreCreated DEF TypeOK
<1>2. \A j : j \in Offers(e) <=> (j \in offerable /\ \A k \in stops : Before(j, k))
    BY DEF Offers, Offerable, Reached
<1>3. \A k \in stops : \E m \in offerable : Before(m, k)
    BY DEF Breaks
<1> HIDE DEF offerable, stops
<1>s. stops \subseteq offerable
    BY DEF stops
<1>4. ASSUME NEW j \in offerable, \A k \in offerable : ~ Before(k, j)
      PROVE  j \in Offers(e)
    BY SMTT(60), <1>1, <1>2, <1>3, <1>4, <1>s DEF Before
<1>5. ASSUME NEW j \in Offers(e), NEW k \in offerable, Before(k, j)
      PROVE  k \in Offers(e)
    BY SMTT(60), <1>1, <1>2, <1>5, <1>s DEF Before
<1> QED BY <1>4, <1>5 DEF offerable

LEMMA LastCreated ==
    ASSUME TypeOK, OrderInv, NEW S, S \subseteq Created, S # {}
    PROVE  \E j \in S : \A k \in S : k = j \/ Before(k, j)
<1> DEFINE n == Cardinality(Created)
           T == {m \in Nat : \E j \in S : m + requested[j] = n}
<1>1. \A j \in S : j \in Created /\ requested[j] \in Nat /\ n - requested[j] \in Nat
    BY SMTT(60), CreatedFinite DEF TypeOK, OrderInv, Created
<1> HIDE DEF n
<1>2. T # {}
    BY <1>1, CreatedFinite DEF n
<1>3. PICK m \in T : \A i \in T : m <= i
    <2>1. T \in SUBSET Nat
        OBVIOUS
    <2> HIDE DEF T
    <2> QED BY <1>2, <2>1, LeastNat
<1>4. PICK j \in S : m + requested[j] = n
    BY <1>3
<1>5. \A k \in S : requested[k] <= requested[j]
    <2> TAKE k \in S
    <2>1. n \in Nat /\ n - requested[k] \in T
        BY SMTT(60), <1>1, CreatedFinite DEF n
    <2> QED BY SMTT(60), <1>1, <1>3, <1>4, <2>1
<1> QED BY SMTT(60), <1>1, <1>5 DEF OrderInv, Before

\* LIMIT maxOffers: no two jobs there are share a requested_at.
LEMMA OffersFew ==
    ASSUME TypeOK, OrderInv, NEW e \in Endpoints
    PROVE  Cardinality(Offers(e)) <= MaxOffers
<1>1. /\ Offers(e) \subseteq Items(e) /\ Items(e) \subseteq Pending(e)
      /\ Pending(e) \subseteq Created /\ Created \subseteq Jobs
    BY DEF Offers, Reached, Items, Pending, Created
<1>2. MaxOffers \in Nat \ {0}
    BY StoreAssumption
<1>3. CASE Items(e) = {}
    <2>1. Offers(e) = {}
        BY <1>1, <1>3
    <2> QED BY SMTT(60), <1>2, <2>1, FS_EmptySet
<1>4. CASE Items(e) # {}
    <2>1. PICK j \in Items(e) : \A k \in Items(e) : k = j \/ Before(k, j)
        BY <1>1, <1>4, LastCreated
    <2> DEFINE ahead == {k \in Pending(e) : Before(k, j)}
    <2>2. Cardinality(ahead) < MaxOffers
        BY DEF Items
    <2>3. Offers(e) \in SUBSET (ahead \cup {j})
        BY <1>1, <2>1
    <2>4. ahead \in SUBSET Created
        BY <1>1
    <2> HIDE DEF ahead
    <2>5. IsFiniteSet(ahead) /\ Cardinality(ahead) \in Nat
        BY <2>4, CreatedFinite, FS_Subset, FS_CardinalityType
    <2>6. /\ IsFiniteSet(ahead \cup {j})
          /\ \/ Cardinality(ahead \cup {j}) = Cardinality(ahead)
             \/ Cardinality(ahead \cup {j}) = Cardinality(ahead) + 1
        BY <2>5, FS_AddElement
    <2>7. Cardinality(Offers(e)) <= Cardinality(ahead \cup {j}) /\ Cardinality(Offers(e)) \in Nat
        BY <2>3, <2>6, FS_Subset, FS_CardinalityType
    <2> QED BY SMTT(60), <1>2, <2>2, <2>5, <2>6, <2>7
<1> QED BY <1>3, <1>4

\* The offers fit the budget together, or there is one.
LEMMA OffersFit ==
    ASSUME TypeOK, OrderInv, NEW e \in Endpoints
    PROVE  SumOf(Offers(e)) <= OfferBytesMax \/ Cardinality(Offers(e)) = 1
<1> DEFINE offers == Offers(e)
           offerable == Offerable(e)
<1>j. offers \subseteq offerable /\ offerable \subseteq Jobs
    BY OfferedAreCreated
<1>1. CASE offers = {}
    <2>1. SumOf({}) = 0
        BY SumIsCount, UnitsOfEmpty
    <2> QED BY SMTT(60), <1>1, <2>1, StoreAssumption
<1>2. CASE offers # {}
    <2>1. PICK j \in offers : \A k \in offers : k = j \/ Before(k, j)
        BY <1>2, OfferedAreCreated, LastCreated
    <2> DEFINE earlier == {k \in offerable : Before(k, j)}
    <2>2. requested[j] \in Nat
        BY <1>j DEF TypeOK
    <2>3. offers = earlier \cup {j} /\ j \notin earlier
        BY SMTT(60), <2>1, <2>2, OffersAhead, <1>j DEF Before
    <2>4. ~ Breaks(offerable, j)
        BY <2>2 DEF Offers, Offerable, Reached, Before
    <2>5. earlier = {} \/ ~ (SumOf(earlier) + Size[j] > OfferBytesMax)
        BY <2>4 DEF Breaks, SumOf
    <2>e. earlier \in SUBSET Jobs /\ j \in Jobs
        BY <1>j
    <2> HIDE DEF earlier
    <2>6. SumOf(offers) = Size[j] + SumOf(earlier) /\ SumOf(earlier) \in Nat
        <3>1. SumOf(earlier \cup {j}) = Cardinality(Units(earlier \cup {j}))
            BY <2>e, SumIsCount
        <3>2. SumOf(earlier) = Cardinality(Units(earlier))
            BY <2>e, SumIsCount
        <3>3. IsFiniteSet(Units(earlier)) /\ Cardinality(Units(earlier)) \in Nat
            BY <2>e, UnitsFinite
        <3>4. Cardinality(Units(earlier \cup {j})) = Size[j] + Cardinality(Units(earlier))
            BY <2>3, <2>e, <3>3, UnitsOfOneMore
        <3> QED BY <2>3, <3>1, <3>2, <3>3, <3>4
    <2>7. CASE earlier = {}
        <3>1. offers = {j}
            BY <2>3, <2>7
        <3> QED BY <3>1, FS_Singleton
    <2>8. CASE ~ (SumOf(earlier) + Size[j] > OfferBytesMax)
        BY SMTT(60), <2>6, <2>8, <2>e, StoreAssumption
    <2> QED BY <2>5, <2>7, <2>8
<1> QED BY <1>1, <1>2

\* One heartbeat's offers, for any jobs, sizes and budget: the oldest pending job
\* always goes, the offers are over offerBytesMax only when there is just one, no
\* younger job goes before an older one that has to wait, and maxOffers limits them.
THEOREM HeartbeatOffersPacked == Spec => []OffersPacked
<1>1. ASSUME TypeOK, OrderInv PROVE OffersPacked
    <2> SUFFICES ASSUME NEW e \in Endpoints
                 PROVE  /\ \A j \in Offerable(e) :
                              (\A k \in Offerable(e) : ~ Before(k, j)) => j \in Offers(e)
                        /\ \/ SumOf(Offers(e)) <= OfferBytesMax
                           \/ Cardinality(Offers(e)) = 1
                        /\ \A j \in Offers(e), k \in Offerable(e) : Before(k, j) => k \in Offers(e)
                        /\ Cardinality(Offers(e)) <= MaxOffers
        BY ZenonT(30) DEF OffersPacked, SumOf
    <2> QED BY <1>1, OffersAhead, OffersFit, OffersFew
<1> QED BY <1>1, OrderInvariant, PTL
=============================================================================
