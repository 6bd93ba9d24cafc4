------------------------- MODULE TelemetryAgentProofs ------------------------
(***************************************************************************)
(* The inductive invariant of TelemetryUpload, and that every step of the   *)
(* agent's loop keeps it, for any batches, slots, budgets and faults.       *)
(***************************************************************************)
EXTENDS TelemetryUpload, TLAPS

Requests == [batch : Batches \cup {NoBatch}, live : BOOLEAN, at : Stages,
             status : Statuses]

Typed ==
    /\ apc \in Steps /\ cur \in Batches \cup {NoBatch}
    /\ queue \in Seq(Batches) /\ wait \in Slots \cup {NoSlot}
    /\ fate \in [Batches -> Fates] /\ req \in [Slots -> Requests]
    /\ seen \in [Batches -> {"no", "storing", "done"}]
    /\ copies \in [Batches -> Nat] /\ forgot \subseteq Batches

\* What the loop holds, and what it waits for.
HandInv ==
    /\ apc \in {"posted", "push"} <=> cur # NoBatch
    /\ apc = "replayed" => queue # <<>>
    /\ wait # NoSlot =>
          /\ apc \in {"posted", "replayed"}
          /\ req[wait].at # "free" =>
                req[wait].batch = (IF apc = "posted" THEN cur ELSE Head(queue))
    /\ \A s \in Slots : req[s].at = "free" <=> req[s].batch = NoBatch

\* Where the hub has answered, or may answer, that a batch is stored, it is.
StoredInv ==
    /\ \A s \in Slots :
          \/ req[s].at \in {"stored", "ok"}
          \/ req[s].at = "answer" /\ req[s].status = "accepted"
          => copies[req[s].batch] > 0
    /\ \A s \in Slots : req[s].at = "failed" => req[s].status # "accepted"
    /\ \A b \in Batches : seen[b] = "done" => copies[b] > 0

Handles(s, b) ==
    req[s].batch = b /\ req[s].at \in {"ingest", "stored", "ok", "failed"}

\* An id not forgotten has one handler while it is being stored, and a copy
\* only behind that handler or once it is done.
Ledger(b) ==
    /\ seen[b] = "no" => copies[b] = 0 /\ \A s \in Slots : ~Handles(s, b)
    /\ seen[b] = "done" => copies[b] <= 1 /\ \A s \in Slots : ~Handles(s, b)
    /\ seen[b] = "storing" =>
          /\ copies[b] <= 1
          /\ \A s, t \in Slots : Handles(s, b) /\ Handles(t, b) => s = t
          /\ \A s \in Slots :
                Handles(s, b) /\ req[s].at = "ingest" => copies[b] = 0

LedgerInv == \A b \in Batches \ forgot : Ledger(b)

UploadInv ==
    /\ Typed /\ HandInv /\ HeldOnce
    /\ StoredInv /\ DeliveredIsStored /\ LedgerInv

-----------------------------------------------------------------------------
(* A step that keeps the invariant.                                         *)
Keeps(A) == UploadInv /\ A => UploadInv'

(* What a step of a handler leaves of the requests, and what that keeps.    *)

Moves(s, step, status) ==
    /\ req' \in [Slots -> Requests]
    /\ \A t \in Slots : req'[t].batch = req[t].batch
    /\ \A t \in Slots \ {s} : req'[t] = req[t]
    /\ req'[s].at = step /\ req'[s].status = status

LEMMA ToMoves ==
    ASSUME Typed, NEW s \in Slots, NEW step \in Stages, NEW status \in Statuses,
           To(s, step, status)
    PROVE  Moves(s, step, status)
<1> DEFINE r == [req[s] EXCEPT !.at = step, !.status = status]
<1>1. req[s] \in Requests
  BY DEF Typed
<1>2. r \in Requests /\ r.batch = req[s].batch /\ r.at = step /\ r.status = status
  BY ZenonT(60), <1>1 DEF Requests
<1>3. req' = [req EXCEPT ![s] = r]
  BY ZenonT(60) DEF To
<1> HIDE DEF r
<1> QED BY <1>2, <1>3 DEF Typed, Moves

\* A handler that goes on is still the request the agent waits for.
LEMMA HandKept ==
    ASSUME Typed, HandInv, UNCHANGED agentVars, NEW s \in Slots, NEW step, NEW status,
           Moves(s, step, status), req[s].at # "free", step # "free"
    PROVE  HandInv'
<1>1. \A t \in Slots : req'[t].batch = req[t].batch
  BY DEF Moves
<1>2. \A t \in Slots : req'[t].at = "free" <=> req[t].at = "free"
  BY DEF Moves
<1>3. apc' = apc /\ cur' = cur /\ queue' = queue /\ wait' = wait
  BY DEF agentVars
<1>4. wait # NoSlot => wait \in Slots
  BY DEF Typed
<1> QED BY <1>1, <1>2, <1>3, <1>4 DEF HandInv

\* An id whose entry and copies stay has no more handlers than before.
LEMMA LedgerKept ==
    ASSUME NEW c \in Batches, Ledger(c), seen'[c] = seen[c], copies'[c] = copies[c],
           \A t \in Slots : Handles(t, c)' =>
               Handles(t, c) /\ (req'[t].at = "ingest" => req[t].at = "ingest")
    PROVE  Ledger(c)'
BY DEF Ledger

\* A request that is over takes nothing with it.
LEMMA Freed ==
    ASSUME Typed, HandInv, StoredInv, LedgerInv, NEW s \in Slots,
           req' = [req EXCEPT ![s] = Free], UNCHANGED <<seen, copies, forgot>>
    PROVE  /\ req' \in [Slots -> Requests] /\ StoredInv' /\ LedgerInv'
           /\ \A t \in Slots : req'[t].at = "free" <=> req'[t].batch = NoBatch
<1>0. Free \in Requests /\ Free.at = "free" /\ Free.batch = NoBatch
  BY DEF Free, Requests, Stages, Statuses
<1>1. req'[s] = Free /\ \A t \in Slots \ {s} : req'[t] = req[t]
  BY DEF Typed
<1>2. req' \in [Slots -> Requests]
  BY <1>0 DEF Typed
<1>3. StoredInv'
  BY <1>0, <1>1 DEF StoredInv
<1>4. LedgerInv'
  BY <1>0, <1>1, LedgerKept DEF LedgerInv, Handles
<1> QED BY <1>0, <1>1, <1>2, <1>3, <1>4 DEF HandInv

\* A step of the loop that sends and hears nothing.
LEMMA HubUntouched ==
    ASSUME StoredInv, LedgerInv, UNCHANGED <<req, seen, copies, forgot>>
    PROVE  StoredInv' /\ LedgerInv'
<1>1. req' = req /\ seen' = seen /\ copies' = copies /\ forgot' = forgot
  OBVIOUS
<1>2. StoredInv'
  BY <1>1 DEF StoredInv
<1>3. LedgerInv'
  BY <1>1 DEF LedgerInv, Ledger, Handles
<1> QED BY <1>2, <1>3

\* The head leaves the queue, and no other batch does.
LEMMA Popped ==
    ASSUME Typed, HeldOnce, queue # <<>>, NEW how \in Fates \ {"held"},
           queue' = Tail(queue), fate' = [fate EXCEPT ![Head(queue)] = how],
           UNCHANGED cur
    PROVE  /\ Head(queue) \in Batches /\ queue' \in Seq(Batches)
           /\ fate' \in [Batches -> Fates] /\ HeldOnce'
<1>1. /\ Head(queue) = queue[1] /\ queue[1] \in Batches /\ queue' \in Seq(Batches)
      /\ Len(queue) \in Nat \ {0} /\ DOMAIN queue = 1..Len(queue)
      /\ DOMAIN queue' = 1..(Len(queue) - 1)
      /\ \A i \in DOMAIN queue' : queue'[i] = queue[i + 1] /\ i + 1 \in DOMAIN queue
  BY DEF Typed
<1>2. \A b \in Batches : fate'[b] = IF b = queue[1] THEN how ELSE fate[b]
  BY <1>1 DEF Typed
<1>3. \A b \in Batches : (\E i \in DOMAIN queue' : queue'[i] = b) <=>
                         (b # queue[1] /\ \E i \in DOMAIN queue : queue[i] = b)
  <2> SUFFICES ASSUME NEW b \in Batches
               PROVE  (\E i \in DOMAIN queue' : queue'[i] = b) <=>
                      (b # queue[1] /\ \E i \in DOMAIN queue : queue[i] = b)
    OBVIOUS
  <2>1. ASSUME NEW i \in DOMAIN queue', queue'[i] = b
        PROVE  b # queue[1] /\ \E j \in DOMAIN queue : queue[j] = b
    <3>1. queue[i + 1] = b /\ i + 1 \in DOMAIN queue /\ 1 \in DOMAIN queue /\ i + 1 # 1
      BY <1>1, <2>1
    <3> QED BY <3>1 DEF HeldOnce
  <2>2. ASSUME b # queue[1], NEW j \in DOMAIN queue, queue[j] = b
        PROVE  \E i \in DOMAIN queue' : queue'[i] = b
    <3>1. j - 1 \in DOMAIN queue' /\ (j - 1) + 1 = j
      BY <1>1, <2>2
    <3> QED BY <1>1, <2>2, <3>1
  <2> QED BY <2>1, <2>2
<1>4. queue[1] # cur
  BY <1>1 DEF HeldOnce
<1>5. \A b \in Batches :
         fate'[b] = "held" <=> (b = cur' \/ \E i \in DOMAIN queue' : queue'[i] = b)
  BY <1>2, <1>3, <1>4 DEF HeldOnce
<1>6. \A i, j \in DOMAIN queue' : queue'[i] = queue'[j] => i = j
  BY <1>1 DEF HeldOnce
<1>7. \A i \in DOMAIN queue' : queue'[i] # cur'
  BY <1>1 DEF HeldOnce
<1>8. HeldOnce'
  BY <1>5, <1>6, <1>7 DEF HeldOnce
<1> QED BY <1>1, <1>8 DEF Typed

-----------------------------------------------------------------------------
(* One lemma for each action.                                               *)

LEMMA BeatKeeps == ASSUME NEW b \in Batches PROVE Keeps(Beat(b))
<1> SUFFICES ASSUME UploadInv, Beat(b) PROVE UploadInv'
  BY DEF Keeps
<1> USE UploadAssumption DEF UploadInv
<1>1. Typed'
  BY DEF Typed, Requests, Steps, Fates, Stages, Statuses, Beat, Fresh, Post
<1>2. HandInv'
  BY DEF Typed, Requests, HandInv, Beat, Fresh, Post
<1>3. HeldOnce'
  <2>1. cur = NoBatch /\ cur' = b /\ queue' = queue /\ fate[b] # "held"
    BY DEF Beat, Fresh, HandInv
  <2>2. fate'[b] = "held" /\ \A c \in Batches \ {b} : fate'[c] = fate[c]
    BY DEF Beat, Typed
  <2>3. \A i \in DOMAIN queue : queue[i] # b
    BY <2>1 DEF HeldOnce
  <2> QED BY <2>1, <2>2, <2>3 DEF HeldOnce
<1>4. StoredInv'
  BY DEF Typed, Requests, HandInv, StoredInv, Beat, Fresh, Post
<1>5. DeliveredIsStored'
  BY SMTT(60) DEF Typed, DeliveredIsStored, Beat
<1>6. LedgerInv'
  BY DEF Typed, Requests, HandInv, LedgerInv, Ledger, Handles, Beat, Fresh, Post
<1> QED BY <1>1, <1>2, <1>3, <1>4, <1>5, <1>6

LEMMA StopKeeps == Keeps(Stop)
<1> SUFFICES ASSUME UploadInv, Stop PROVE UploadInv'
  BY DEF Keeps
<1> USE UploadAssumption DEF UploadInv
<1>1. Typed'
  BY DEF Typed, Requests, Steps, Fates, Stages, Statuses, Stop, hubVars
<1>2. HandInv'
  BY DEF Typed, Requests, HandInv, Stop, hubVars
<1>3. HeldOnce'
  BY DEF Typed, HandInv, HeldOnce, Stop, hubVars
<1>4. StoredInv'
  BY DEF Typed, Requests, HandInv, StoredInv, Stop, hubVars
<1>5. DeliveredIsStored'
  BY DEF Typed, Requests, HandInv, StoredInv, DeliveredIsStored, Stop, hubVars
<1>6. LedgerInv'
  BY DEF Typed, Requests, HandInv, StoredInv, LedgerInv, Ledger, Handles, Stop, hubVars
<1> QED BY <1>1, <1>2, <1>3, <1>4, <1>5, <1>6

LEMMA AcceptedKeeps == Keeps(Accepted)
<1> SUFFICES ASSUME UploadInv, Accepted PROVE UploadInv'
  BY DEF Keeps
<1> USE UploadAssumption DEF UploadInv
<1>a. /\ wait \in Slots /\ wait' = NoSlot /\ cur \in Batches /\ apc = "posted"
      /\ copies[cur] > 0
  BY DEF Accepted, Answered, HandInv, Typed, StoredInv
<1>b. /\ req' \in [Slots -> Requests] /\ StoredInv' /\ LedgerInv'
      /\ \A t \in Slots : req'[t].at = "free" <=> req'[t].batch = NoBatch
  BY ZenonT(60), <1>a, Freed DEF Accepted, Answered
<1>1. Typed'
  BY <1>a, <1>b DEF Typed, Accepted, Steps, Fates
<1>2. HandInv'
  BY <1>a, <1>b DEF HandInv, Accepted
<1>3. HeldOnce'
  BY <1>a DEF Typed, HeldOnce, Accepted
<1>4. DeliveredIsStored'
  BY <1>a DEF Typed, DeliveredIsStored, Accepted
<1> QED BY <1>b, <1>1, <1>2, <1>3, <1>4

LEMMA NotTakenKeeps == Keeps(NotTaken)
<1> SUFFICES ASSUME UploadInv, NotTaken PROVE UploadInv'
  BY DEF Keeps
<1> USE UploadAssumption DEF UploadInv
<1>a. /\ wait \in Slots /\ wait' = NoSlot /\ apc = "posted" /\ apc' = "push"
      /\ UNCHANGED <<cur, queue, fate, seen, copies, forgot>>
  BY DEF NotTaken, Answered, GaveUp, Typed
<1>b. /\ req' \in [Slots -> Requests] /\ StoredInv' /\ LedgerInv'
      /\ \A t \in Slots : req'[t].at = "free" <=> req'[t].batch = NoBatch
  <2>1. CASE Answered("retry")
    BY ZenonT(60), <1>a, <2>1, Freed DEF Answered
  <2>2. CASE GaveUp
    <3>1. UNCHANGED <<req, seen, copies, forgot>>
      BY <1>a, <2>2 DEF GaveUp
    <3> QED BY <3>1 DEF Typed, HandInv, StoredInv, LedgerInv, Ledger, Handles
  <2> QED BY <2>1, <2>2 DEF NotTaken
<1>1. Typed'
  BY <1>a, <1>b DEF Typed, Steps
<1>2. HandInv'
  BY <1>a, <1>b DEF HandInv
<1> QED BY <1>a, <1>b, <1>1, <1>2 DEF HeldOnce, DeliveredIsStored

LEMMA RefusedKeeps == Keeps(Refused)
<1> SUFFICES ASSUME UploadInv, Refused PROVE UploadInv'
  BY DEF Keeps
<1> USE UploadAssumption DEF UploadInv
<1>a. /\ wait \in Slots /\ wait' = NoSlot /\ cur \in Batches /\ apc = "posted"
      /\ apc' \in {"idle", "stopped"}
  BY DEF Refused, Answered, HandInv, Typed, AfterBeat
<1>b. /\ req' \in [Slots -> Requests] /\ StoredInv' /\ LedgerInv'
      /\ \A t \in Slots : req'[t].at = "free" <=> req'[t].batch = NoBatch
  BY ZenonT(60), <1>a, Freed DEF Refused, Answered
<1>1. Typed'
  BY <1>a, <1>b DEF Typed, Refused, Steps, Fates
<1>2. HandInv'
  BY <1>a, <1>b DEF HandInv, Refused
<1>3. HeldOnce'
  BY SMTT(60), <1>a DEF Typed, HeldOnce, Refused
<1>4. DeliveredIsStored'
  BY <1>a DEF Typed, DeliveredIsStored, Refused
<1> QED BY <1>b, <1>1, <1>2, <1>3, <1>4

LEMMA DropOldestKeeps == Keeps(DropOldest)
<1> SUFFICES ASSUME UploadInv, DropOldest PROVE UploadInv'
  BY DEF Keeps
<1> USE UploadAssumption DEF UploadInv
<1>a. /\ apc = "push" /\ UNCHANGED <<apc, cur, wait, req, seen, copies, forgot>>
      /\ fate' = [fate EXCEPT ![Head(queue)] = "none"]
  BY DEF DropOldest, hubVars
<1>b. /\ Head(queue) \in Batches /\ queue' \in Seq(Batches)
      /\ fate' \in [Batches -> Fates] /\ HeldOnce'
  <2>1. "none" \in Fates \ {"held"}
    BY DEF Fates
  <2> QED BY ZenonT(60), <2>1, Popped DEF DropOldest
<1>1. Typed'
  BY SMTT(60), <1>a, <1>b DEF Typed
<1>2. HandInv'
  BY <1>a DEF HandInv
<1>3. DeliveredIsStored'
  BY SMTT(60), <1>a, <1>b DEF Typed, DeliveredIsStored
<1>4. StoredInv' /\ LedgerInv'
  BY <1>a, HubUntouched
<1> QED BY <1>b, <1>1, <1>2, <1>3, <1>4

LEMMA PushKeeps == Keeps(Push)
<1> SUFFICES ASSUME UploadInv, Push PROVE UploadInv'
  BY DEF Keeps
<1> USE UploadAssumption DEF UploadInv
<1>a. /\ apc = "push" /\ apc' \in {"idle", "stopped"} /\ cur' = NoBatch
      /\ cur \in Batches /\ UNCHANGED <<wait, req, seen, copies, forgot>>
  BY SMTT(60) DEF Push, hubVars, AfterBeat, HandInv, Typed
<1>b. StoredInv' /\ LedgerInv' /\ HandInv'
  <2>1. StoredInv' /\ LedgerInv'
    BY <1>a, HubUntouched
  <2> QED BY <1>a, <2>1 DEF HandInv
<1>1. CASE fate' = [fate EXCEPT ![cur] = "none"] /\ UNCHANGED queue
  <2>1. Typed'
    BY SMTT(60), <1>1, <1>a DEF Typed, Steps, Fates
  <2>2. HeldOnce' /\ DeliveredIsStored'
    BY SMTT(60), <1>1, <1>a DEF Typed, HeldOnce, DeliveredIsStored
  <2> QED BY SMTT(60), <1>b, <2>1, <2>2
<1>2. CASE queue' = Append(queue, cur) /\ UNCHANGED fate
  <2>1. /\ queue' \in Seq(Batches) /\ Len(queue) \in Nat
        /\ DOMAIN queue = 1..Len(queue) /\ DOMAIN queue' = 1..(Len(queue) + 1)
        /\ queue'[Len(queue) + 1] = cur
        /\ \A i \in DOMAIN queue : queue'[i] = queue[i]
    BY SMTT(60), <1>2, <1>a DEF Typed
  <2>2. Typed'
    BY <1>2, <1>a, <2>1 DEF Typed, Steps
  <2>3. \A i \in DOMAIN queue' : i \in DOMAIN queue \/ i = Len(queue) + 1
    BY SMTT(60), <2>1
  <2>4. \A b \in Batches : (\E i \in DOMAIN queue' : queue'[i] = b) <=>
                           (b = cur \/ \E i \in DOMAIN queue : queue[i] = b)
    BY SMTT(60), <2>1, <2>3
  <2>5. \A i, j \in DOMAIN queue' : queue'[i] = queue'[j] => i = j
    BY SMTT(60), <2>1, <2>3 DEF HeldOnce
  <2>6. \A i \in DOMAIN queue' : queue'[i] # cur'
    BY SMTT(60), <1>a, <2>1 DEF Typed
  <2>7. HeldOnce'
    BY SMTT(60), <1>2, <1>a, <2>4, <2>5, <2>6 DEF HeldOnce
  <2>8. DeliveredIsStored'
    BY <1>2, <1>a DEF DeliveredIsStored
  <2> QED BY SMTT(60), <1>b, <2>2, <2>7, <2>8
<1> QED BY SMTT(60), <1>1, <1>2 DEF Push

LEMMA ReplayDropsAllKeeps == Keeps(ReplayDropsAll)
<1> SUFFICES ASSUME UploadInv, ReplayDropsAll PROVE UploadInv'
  BY DEF Keeps
<1> USE UploadAssumption DEF UploadInv
<1>1. Typed'
  BY SMTT(60) DEF Typed, Requests, Steps, Fates, Stages, Statuses, ReplayDropsAll, hubVars
<1>2. HandInv'
  BY SMTT(60) DEF Typed, Requests, HandInv, ReplayDropsAll, hubVars
<1>3. HeldOnce'
  BY SMTT(60) DEF Typed, HandInv, HeldOnce, ReplayDropsAll, hubVars
<1>4. StoredInv' /\ LedgerInv'
  <2>1. UNCHANGED <<req, seen, copies, forgot>>
    BY DEF ReplayDropsAll, hubVars
  <2> QED BY <2>1, HubUntouched
<1>5. DeliveredIsStored'
  <2>1. copies' = copies /\ \A b \in Batches : fate'[b] = "delivered" => fate[b] = "delivered"
    BY DEF ReplayDropsAll, hubVars
  <2> QED BY <2>1 DEF DeliveredIsStored
<1> QED BY <1>1, <1>2, <1>3, <1>4, <1>5

LEMMA ReplayPostKeeps == Keeps(ReplayPost)
<1> SUFFICES ASSUME UploadInv, ReplayPost PROVE UploadInv'
  BY DEF Keeps
<1> USE UploadAssumption DEF UploadInv
<1>1. Typed'
  BY SMTT(60) DEF Typed, Requests, Steps, Fates, Stages, Statuses, ReplayPost, Post
<1>2. HandInv'
  BY SMTT(60) DEF Typed, Requests, HandInv, ReplayPost, Post
<1>3. HeldOnce'
  BY SMTT(60) DEF Typed, HandInv, HeldOnce, ReplayPost, Post
<1>4. StoredInv'
  BY ZenonT(60) DEF Typed, Requests, HandInv, StoredInv, ReplayPost, Post
<1>5. DeliveredIsStored'
  <2>1. copies' = copies /\ fate' = fate
    BY DEF ReplayPost
  <2> QED BY <2>1 DEF DeliveredIsStored
<1>6. LedgerInv'
  <2>1. UNCHANGED <<seen, copies, forgot>>
    BY DEF ReplayPost
  <2>2. \A t \in Slots, c \in Batches : Handles(t, c)' => Handles(t, c) /\ req'[t] = req[t]
    BY DEF ReplayPost, Post, Typed, Handles
  <2> QED BY <2>1, <2>2, LedgerKept DEF LedgerInv
<1> QED BY <1>1, <1>2, <1>3, <1>4, <1>5, <1>6

LEMMA ReplayEndsKeeps == Keeps(ReplayEnds)
<1> SUFFICES ASSUME UploadInv, ReplayEnds PROVE UploadInv'
  BY DEF Keeps
<1> USE UploadAssumption DEF UploadInv
<1>1. Typed'
  BY SMTT(60) DEF Typed, Requests, Steps, Fates, Stages, Statuses, ReplayEnds, hubVars
<1>2. HandInv'
  BY DEF Typed, Requests, HandInv, ReplayEnds, hubVars
<1>3. HeldOnce'
  BY SMTT(60) DEF Typed, HandInv, HeldOnce, ReplayEnds, hubVars
<1>4. StoredInv' /\ LedgerInv'
  <2>1. UNCHANGED <<req, seen, copies, forgot>>
    BY DEF ReplayEnds, hubVars
  <2> QED BY <2>1, HubUntouched
<1>5. DeliveredIsStored'
  <2>1. copies' = copies /\ \A b \in Batches : fate'[b] = "delivered" => fate[b] = "delivered"
    BY DEF ReplayEnds, hubVars
  <2> QED BY <2>1 DEF DeliveredIsStored
<1> QED BY <1>1, <1>2, <1>3, <1>4, <1>5

LEMMA ReplayAnsweredKeeps == Keeps(ReplayAnswered)
<1> SUFFICES ASSUME UploadInv, ReplayAnswered PROVE UploadInv'
  BY DEF Keeps
<1> USE UploadAssumption DEF UploadInv
<1>a. /\ wait \in Slots /\ wait' = NoSlot /\ apc = "replayed" /\ queue # <<>>
      /\ apc' \in {"replay", "idle"} /\ cur = NoBatch
      /\ UNCHANGED <<cur, seen, copies, forgot>>
  BY SMTT(60) DEF ReplayAnswered, Answered, GaveUp, HandInv, Typed, Pop, PopRefused, Keep
<1>b. /\ req' \in [Slots -> Requests] /\ StoredInv' /\ LedgerInv'
      /\ \A t \in Slots : req'[t].at = "free" <=> req'[t].batch = NoBatch
  <2>1. CASE req' = [req EXCEPT ![wait] = Free]
    BY ZenonT(60), <1>a, <2>1, Freed
  <2>2. CASE UNCHANGED req
    BY SMTT(60), <1>a, <2>2 DEF Typed, HandInv, StoredInv, LedgerInv, Ledger, Handles
  <2> QED BY SMTT(60), <2>1, <2>2 DEF ReplayAnswered, Answered, GaveUp
<1>c. HandInv'
  BY ZenonT(60), <1>a, <1>b DEF HandInv
<1>1. CASE Keep
  <2>1. Typed'
    BY <1>1, <1>a, <1>b DEF Typed, Keep, Steps
  <2>2. HeldOnce' /\ DeliveredIsStored'
    BY ZenonT(60), <1>1, <1>a DEF Keep, HeldOnce, DeliveredIsStored
  <2> QED BY <1>b, <1>c, <2>1, <2>2
<1>2. ASSUME NEW how \in {"delivered", "none"}, Pop(how),
             how = "delivered" => Answered("accepted")
      PROVE  UploadInv'
  <2>1. /\ Head(queue) \in Batches /\ queue' \in Seq(Batches)
        /\ fate' \in [Batches -> Fates] /\ HeldOnce'
    <3>1. how \in Fates \ {"held"}
      BY <1>2 DEF Fates
    <3> QED BY ZenonT(60), <1>2, <1>a, <3>1, Popped DEF Pop
  <2>2. Typed'
    BY SMTT(60), <1>a, <1>b, <2>1 DEF Typed, Steps
  <2>3. how = "delivered" => copies[Head(queue)] > 0
    <3> SUFFICES ASSUME how = "delivered" PROVE copies[Head(queue)] > 0
      BY SMTT(60)
    <3>1. /\ req[wait].at = "answer" /\ req[wait].status = "accepted"
          /\ req[wait].batch = Head(queue)
      BY SMTT(60), <1>2, <1>a DEF Answered, HandInv
    <3> QED BY <1>a, <3>1 DEF StoredInv
  <2>4. DeliveredIsStored'
    BY ZenonT(60), <1>2, <1>a, <2>1, <2>3 DEF Typed, DeliveredIsStored, Pop
  <2> QED BY SMTT(60), <1>b, <1>c, <2>1, <2>2, <2>4
<1> QED BY SMTT(60), <1>1, <1>2 DEF ReplayAnswered, PopRefused

LEMMA AgentRestartKeeps == Keeps(AgentRestart)
<1> SUFFICES ASSUME UploadInv, AgentRestart PROVE UploadInv'
  BY DEF Keeps
<1> USE UploadAssumption DEF UploadInv
<1>1. Typed'
  BY SMTT(60) DEF Typed, Requests, Steps, Fates, Stages, Statuses, AgentRestart, hubVars
<1>2. HandInv'
  BY SMTT(60) DEF Typed, Requests, HandInv, AgentRestart, hubVars
<1>3. HeldOnce'
  BY SMTT(60) DEF Typed, HandInv, HeldOnce, AgentRestart, hubVars
<1>4. StoredInv' /\ LedgerInv'
  <2>1. UNCHANGED <<req, seen, copies, forgot>>
    BY DEF AgentRestart, hubVars
  <2> QED BY <2>1, HubUntouched
<1>5. DeliveredIsStored'
  <2>1. copies' = copies /\ \A b \in Batches : fate'[b] = "delivered" => fate[b] = "delivered"
    BY DEF AgentRestart, hubVars
  <2> QED BY <2>1 DEF DeliveredIsStored
<1> QED BY <1>1, <1>2, <1>3, <1>4, <1>5
=============================================================================
