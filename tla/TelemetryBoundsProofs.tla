----------------------- MODULE TelemetryBoundsProofs -----------------------
(***************************************************************************)
(* The bounds of TelemetryUpload: the agent's queue keeps its two budgets   *)
(* and an exact byte count, the hub's ledger keeps its limit, and every     *)
(* variable keeps its type.  The byte count is a recursive sum over the     *)
(* queue; what it computes is proved by least counterexample.               *)
(***************************************************************************)
EXTENDS TelemetryUploadProofs, FiniteSetTheorems

-----------------------------------------------------------------------------
(* Sums over a queue: what Total's recursive definition computes.           *)

\* A set of naturals has a least element; induction is drawn from this.
LEMMA LeastNat ==
    ASSUME NEW T \in SUBSET Nat, T # {}
    PROVE  \E n \in T : \A m \in T : n <= m
<1> DEFINE R == OpToRel(<, Nat)
<1>1. IsWellFoundedOn(R, Nat)
  BY ZenonT(30), NatLessThanWellFounded
<1>2. \A m, n \in Nat : m < n => <<m, n>> \in R
  BY DEF OpToRel
<1> HIDE DEF R
<1>3. PICK n \in T : \A m \in T : <<m, n>> \notin R
  BY ZenonT(30), <1>1, WFMin
<1>4. \A m \in T : ~ (m < n)
  BY ZenonT(30), <1>2, <1>3
<1>5. \A m \in T : n <= m
  BY <1>4
<1> QED BY <1>5

UpTo(f, q, n) ==
    f = [i \in 0..n |-> IF i = 0 THEN 0 ELSE f[i - 1] + Size[q[i]]]

Sums(q) == CHOOSE f : UpTo(f, q, Len(q))

LEMMA TotalIsSum == Total = Sums(queue)[Len(queue)]
BY DEF Total, Sums, UpTo

LEMMA SumsExist ==
    ASSUME NEW q \in Seq(Batches)
    PROVE  \E f : UpTo(f, q, Len(q))
<1> DEFINE T == {n \in 0..Len(q) : ~ \E f : UpTo(f, q, n)}
<1>0. Len(q) \in Nat
  OBVIOUS
<1>1. SUFFICES T = {}
  BY <1>0
<1>2. SUFFICES ASSUME T # {} PROVE FALSE
  OBVIOUS
<1>3. PICK n \in T : \A m \in T : n <= m
  <2>1. T \in SUBSET Nat
    BY <1>0
  <2> HIDE DEF T
  <2> QED BY <1>2, <2>1, LeastNat
<1>4. n # 0
  <2> DEFINE f == [i \in 0..0 |-> 0]
  <2>1. UpTo(f, q, 0)
    BY DEF UpTo
  <2> QED BY <2>1
<1>5. n - 1 \in 0..Len(q) /\ n - 1 \notin T /\ n \in Nat \ {0}
  BY SMTT(60), <1>0, <1>3, <1>4
<1>6. PICK f : UpTo(f, q, n - 1)
  BY <1>5
<1> DEFINE h == [i \in 0..n |-> IF i = n THEN f[n - 1] + Size[q[n]] ELSE f[i]]
<1>7. \A i \in 0..(n - 1) : f[i] = IF i = 0 THEN 0 ELSE f[i - 1] + Size[q[i]]
  BY <1>6 DEF UpTo
<1>8. \A i \in 0..n : h[i] = IF i = 0 THEN 0 ELSE h[i - 1] + Size[q[i]]
  <2> TAKE i \in 0..n
  <2>1. CASE i = n
    <3>1. h[i] = f[n - 1] + Size[q[n]]
      BY <1>5, <2>1
    <3>2. h[n - 1] = f[n - 1]
      BY <1>5
    <3> QED BY <1>5, <2>1, <3>1, <3>2
  <2>2. CASE i # n
    <3>1. i \in 0..(n - 1)
      BY SMTT(60), <1>5, <2>2
    <3>2. h[i] = f[i]
      BY <2>2
    <3>3. i # 0 => h[i - 1] = f[i - 1]
      BY <1>5, <3>1
    <3> QED BY <1>7, <3>1, <3>2, <3>3
  <2> QED BY <2>1, <2>2
<1>9. UpTo(h, q, n)
  <2>1. h = [i \in 0..n |-> h[i]]
    OBVIOUS
  <2> HIDE DEF h
  <2> QED BY ZenonT(30), <1>8, <2>1 DEF UpTo
<1> QED BY <1>9

\* The defining equations of the sums, and their type.
LEMMA SumsRule ==
    ASSUME NEW q \in Seq(Batches)
    PROVE  /\ Sums(q)[0] = 0
           /\ \A i \in 1..Len(q) : Sums(q)[i] = Sums(q)[i - 1] + Size[q[i]]
           /\ \A i \in 0..Len(q) : Sums(q)[i] \in Nat
<1> DEFINE f == Sums(q)
           T == {n \in 0..Len(q) : f[n] \notin Nat}
<1>0. Len(q) \in Nat /\ \A i \in 1..Len(q) : Size[q[i]] \in Nat
  BY UploadAssumption
<1>1. UpTo(f, q, Len(q))
  BY SumsExist DEF Sums
<1> HIDE DEF f
<1>2. \A i \in 0..Len(q) : f[i] = IF i = 0 THEN 0 ELSE f[i - 1] + Size[q[i]]
  BY ZenonT(30), <1>1 DEF UpTo
<1>3. f[0] = 0 /\ \A i \in 1..Len(q) : f[i] = f[i - 1] + Size[q[i]]
  BY <1>0, <1>2
<1>4. ASSUME T # {} PROVE FALSE
  <2>1. PICK n \in T : \A m \in T : n <= m
    <3>1. T \in SUBSET Nat
      BY <1>0
    <3> HIDE DEF T
    <3> QED BY <1>4, <3>1, LeastNat
  <2>2. n # 0
    BY SMTT(60), <1>3, <2>1
  <2>3. n \in 1..Len(q) /\ n - 1 \in 0..Len(q) /\ n - 1 \notin T
    BY <1>0, <2>1, <2>2
  <2> QED BY SMTT(60), <1>0, <1>3, <2>1, <2>3
<1> QED BY <1>3, <1>4 DEF f

LEMMA SumOfEmpty == Sums(<<>>)[Len(<<>>)] = 0
<1>1. <<>> \in Seq(Batches) /\ Len(<<>>) = 0
  OBVIOUS
<1> QED BY ZenonT(30), <1>1, SumsRule

\* A push adds the new body's length.
LEMMA SumOfAppend ==
    ASSUME NEW q \in Seq(Batches), NEW b \in Batches
    PROVE  Sums(Append(q, b))[Len(Append(q, b))] = Sums(q)[Len(q)] + Size[b]
<1> DEFINE p == Append(q, b)
           f == Sums(q)
           g == Sums(p)
           T == {n \in 0..Len(q) : f[n] # g[n]}
<1>0. /\ Len(q) \in Nat /\ p \in Seq(Batches) /\ Len(p) = Len(q) + 1
      /\ p[Len(p)] = b /\ \A i \in 1..Len(q) : p[i] = q[i]
  OBVIOUS
<1>1. f[0] = 0 /\ \A i \in 1..Len(q) : f[i] = f[i - 1] + Size[q[i]]
  BY SumsRule
<1> HIDE DEF p
<1>2. g[0] = 0 /\ \A i \in 1..Len(p) : g[i] = g[i - 1] + Size[p[i]]
  BY <1>0, SumsRule
<1> HIDE DEF f, g
<1>3. ASSUME T # {} PROVE FALSE
  <2>1. PICK n \in T : \A m \in T : n <= m
    <3>1. T \in SUBSET Nat
      BY <1>0
    <3> HIDE DEF T
    <3> QED BY <1>3, <3>1, LeastNat
  <2>2. n # 0
    BY <1>1, <1>2, <2>1
  <2>3. n \in 1..Len(q) /\ n \in 1..Len(p) /\ n - 1 \in 0..Len(q) /\ n - 1 \notin T
    BY SMTT(60), <1>0, <2>1, <2>2
  <2>4. f[n] = f[n - 1] + Size[q[n]] /\ g[n] = g[n - 1] + Size[p[n]] /\ p[n] = q[n]
    BY <1>0, <1>1, <1>2, <2>3
  <2> QED BY <2>1, <2>3, <2>4
<1>4. f[Len(q)] = g[Len(q)]
  BY SMTT(60), <1>0, <1>3
<1>5. g[Len(p)] = g[Len(p) - 1] + Size[b] /\ Len(p) - 1 = Len(q)
  BY SMTT(60), <1>0, <1>2
<1> QED BY <1>4, <1>5 DEF f, g, p

\* A pop or an eviction takes the head's length away.
LEMMA SumOfTail ==
    ASSUME NEW q \in Seq(Batches), q # <<>>
    PROVE  /\ Sums(q)[Len(q)] = Size[Head(q)] + Sums(Tail(q))[Len(Tail(q))]
           /\ Sums(Tail(q))[Len(Tail(q))] \in Nat
<1> DEFINE p == Tail(q)
           f == Sums(q)
           g == Sums(p)
           T == {n \in 0..Len(p) : f[n + 1] # Size[q[1]] + g[n]}
<1>0. /\ Len(q) \in Nat \ {0} /\ p \in Seq(Batches) /\ Len(p) = Len(q) - 1
      /\ Head(q) = q[1] /\ \A i \in 1..Len(p) : p[i] = q[i + 1]
      /\ Len(p) \in Nat
  OBVIOUS
<1>1. f[0] = 0 /\ \A i \in 1..Len(q) : f[i] = f[i - 1] + Size[q[i]]
  BY SumsRule
<1> HIDE DEF p
<1>2. /\ g[0] = 0 /\ \A i \in 1..Len(p) : g[i] = g[i - 1] + Size[p[i]]
      /\ \A i \in 0..Len(p) : g[i] \in Nat
  BY <1>0, SumsRule
<1> HIDE DEF f, g
<1>s. \A i \in 1..Len(q) : Size[q[i]] \in Nat
  BY SMTT(60), UploadAssumption
<1>3. ASSUME T # {} PROVE FALSE
  <2>1. PICK n \in T : \A m \in T : n <= m
    <3>1. T \in SUBSET Nat
      BY SMTT(60), <1>0
    <3> HIDE DEF T
    <3> QED BY <1>3, <3>1, LeastNat
  <2>2. n # 0
    BY SMTT(60), <1>0, <1>1, <1>2, <1>s, <2>1
  <2>3. /\ n \in 1..Len(p) /\ n + 1 \in 1..Len(q) /\ n \in 1..Len(q)
        /\ n - 1 \in 0..Len(p) /\ n - 1 \notin T /\ (n - 1) + 1 = n /\ (n + 1) - 1 = n
    BY SMTT(60), <1>0, <2>1, <2>2
  <2>4. f[n + 1] = f[n] + Size[q[n + 1]] /\ g[n] = g[n - 1] + Size[q[n + 1]]
    BY <1>0, <1>1, <1>2, <2>3
  <2>5. f[n] = Size[q[1]] + g[n - 1]
    BY <2>3
  <2>6. Size[q[n + 1]] \in Nat /\ g[n - 1] \in Nat /\ Size[q[1]] \in Nat
    BY SMTT(60), <1>0, <1>2, <1>s, <2>3
  <2> QED BY SMTT(60), <2>1, <2>4, <2>5, <2>6
<1>4. f[Len(p) + 1] = Size[q[1]] + g[Len(p)]
  BY SMTT(60), <1>0, <1>3
<1> QED BY SMTT(60), <1>0, <1>2, <1>4 DEF f, g, p

-----------------------------------------------------------------------------
(* The queue's bounds.                                                      *)

Rest ==
    /\ bytes \in Nat /\ gzip \in BOOLEAN /\ sent \in 0..ReplayPerBeat
    /\ final \in BOOLEAN /\ down \in BOOLEAN /\ modern \in BOOLEAN
    /\ faults \in 0..MaxFaults

\* A replay on its way was counted for in advance.
QueueInv == Rest /\ QueueBounded /\ (apc = "replayed" => sent < ReplayPerBeat)

\* The budget, of what is queued and of its bytes, through each change of it.
LEMMA QueueShrinks ==
    ASSUME Typed, QueueInv, queue # <<>>,
           queue' = Tail(queue), bytes' = bytes - Size[Head(queue)]
    PROVE  bytes' \in Nat /\ QueueBounded'
<1>1. /\ Len(queue) \in Nat \ {0} /\ Tail(queue) \in Seq(Batches)
      /\ Len(Tail(queue)) = Len(queue) - 1 /\ Head(queue) \in Batches
  BY DEF Typed
<1>2. Size[Head(queue)] \in Nat /\ MaxItems \in Nat /\ MaxBytes \in Nat
  BY <1>1, UploadAssumption
<1> DEFINE total == Sums(Tail(queue))[Len(Tail(queue))]
<1>3. total \in Nat /\ bytes = Size[Head(queue)] + total
  <2>1. bytes = Sums(queue)[Len(queue)]
    BY TotalIsSum DEF QueueInv, QueueBounded
  <2>2. Sums(queue)[Len(queue)] = Size[Head(queue)] + total /\ total \in Nat
    BY SumOfTail DEF Typed
  <2> QED BY <2>1, <2>2
<1>4. Total' = total
  <2>1. Total' = Sums(queue')[Len(queue')]
    BY DEF Total, Sums, UpTo
  <2> QED BY <2>1
<1> HIDE DEF total
<1>5. bytes' = total
  BY <1>2, <1>3
<1> QED BY SMTT(60), <1>1, <1>2, <1>3, <1>4, <1>5 DEF QueueInv, QueueBounded

LEMMA QueueGrows ==
    ASSUME Typed, QueueInv, cur \in Batches,
           Len(queue) < MaxItems, bytes + Size[cur] <= MaxBytes,
           queue' = Append(queue, cur), bytes' = bytes + Size[cur]
    PROVE  bytes' \in Nat /\ QueueBounded'
<1>1. Len(queue) \in Nat /\ Len(Append(queue, cur)) = Len(queue) + 1
  BY DEF Typed
<1>2. Size[cur] \in Nat /\ MaxItems \in Nat /\ MaxBytes \in Nat /\ bytes \in Nat
  BY UploadAssumption DEF QueueInv, Rest
<1>3. Total' = Sums(Append(queue, cur))[Len(Append(queue, cur))]
  BY DEF Total, Sums, UpTo
<1>4. Total' = Total + Size[cur]
  BY <1>3, SumOfAppend, TotalIsSum DEF Typed
<1> QED BY SMTT(60), <1>1, <1>2, <1>4 DEF QueueInv, QueueBounded

LEMMA QueueEmpties ==
    ASSUME queue' = <<>>, bytes' = 0
    PROVE  bytes' \in Nat /\ QueueBounded'
<1>1. Total' = Sums(<<>>)[Len(<<>>)]
  BY DEF Total, Sums, UpTo
<1>2. Len(<<>>) = 0
  OBVIOUS
<1> QED BY SMTT(60), <1>1, <1>2, SumOfEmpty, UploadAssumption DEF QueueBounded

LEMMA QueueStays ==
    ASSUME QueueInv, UNCHANGED <<queue, bytes>>
    PROVE  bytes' \in Nat /\ QueueBounded'
<1>1. Total' = Total
  BY DEF Total
<1> QED BY <1>1 DEF QueueInv, QueueBounded, Rest

LEMMA QueueStep ==
    ASSUME UploadInv, QueueInv, [Next]_vars
    PROVE  QueueInv'
<1> USE UploadAssumption DEF Rest
<1>t. Typed /\ HandInv
  BY DEF UploadInv
<1>0. Fault => faults' \in 0..MaxFaults
  BY DEF Fault, QueueInv
<1>g. GaveUp => faults' \in 0..MaxFaults
  BY <1>0 DEF GaveUp, QueueInv
<1>1. ASSUME NEW b \in Batches, Beat(b) PROVE QueueInv'
  BY <1>1, QueueStays DEF Beat, QueueInv
<1>2. CASE Stop \/ ReplayEnds
  BY ZenonT(30), <1>2, QueueStays DEF Stop, ReplayEnds, hubVars, QueueInv
<1>3. CASE Accepted
  BY SMTT(60), <1>3, QueueStays DEF Accepted, QueueInv
<1>4. CASE NotTaken
  BY <1>4, <1>g, QueueStays DEF NotTaken, QueueInv
<1>5. CASE Refused
  BY <1>5, QueueStays DEF Refused, AfterBeat, QueueInv
<1>6. CASE DropOldest
  BY <1>6, <1>t, QueueShrinks DEF DropOldest, hubVars, QueueInv
<1>7. CASE Push
  <2>1. cur \in Batches /\ Size[cur] \in Nat
    BY <1>7, <1>t DEF Push, Typed, HandInv
  <2>2. bytes' \in Nat /\ QueueBounded'
    <3>1. CASE UNCHANGED <<queue, bytes>>
      BY <3>1, QueueStays
    <3>2. CASE /\ Size[cur] <= MaxBytes /\ (queue = <<>> \/ ~Full(cur))
               /\ queue' = Append(queue, cur) /\ bytes' = bytes + Size[cur]
      <4>1. queue = <<>> => Len(queue) = 0 /\ bytes = 0
        <5> SUFFICES ASSUME queue = <<>> PROVE bytes = 0
          OBVIOUS
        <5>1. bytes = Sums(<<>>)[Len(<<>>)]
          BY TotalIsSum DEF QueueInv, QueueBounded
        <5> QED BY <5>1, SumOfEmpty
      <4>2. Len(queue) \in Nat /\ bytes \in Nat
        BY SMTT(60), <1>t DEF Typed, QueueInv
      <4>3. Len(queue) < MaxItems /\ bytes + Size[cur] <= MaxBytes
        BY SMTT(60), <2>1, <3>2, <4>1, <4>2 DEF Full
      <4> QED BY <1>t, <2>1, <3>2, <4>3, QueueGrows
    <3> QED BY <1>7, <3>1, <3>2 DEF Push
  <2> QED BY <1>7, <2>2 DEF Push, AfterBeat, hubVars, QueueInv
<1>8. CASE ReplayDropsAll
  BY <1>8, QueueEmpties DEF ReplayDropsAll, hubVars, QueueInv
<1>9. CASE ReplayPost
  BY <1>9, QueueStays DEF ReplayPost, More, QueueInv
<1>10. CASE ReplayAnswered
  <2>1. queue # <<>> /\ sent < ReplayPerBeat
    BY <1>10, <1>t DEF ReplayAnswered, HandInv, QueueInv
  <2>2. CASE Keep
    BY <1>10, <2>2, <1>g, QueueStays DEF ReplayAnswered, Keep, Pop, PopRefused, QueueInv
  <2>3. CASE UNCHANGED faults /\ \E how : Pop(how)
    BY SMTT(60), <1>10, <2>1, <2>3, <1>t, QueueShrinks DEF ReplayAnswered, Pop, QueueInv
  <2> QED BY <1>10, <2>2, <2>3 DEF ReplayAnswered, PopRefused
<1>11. CASE AgentRestart
  <2>1. faults' \in 0..MaxFaults
    BY <1>11, <1>0 DEF AgentRestart, QueueInv
  <2>2. bytes' \in Nat /\ QueueBounded'
    BY <1>11, QueueEmpties DEF AgentRestart
  <2>3. 0 \in 0..ReplayPerBeat
    OBVIOUS
  <2>4. /\ gzip' = FALSE /\ final' = FALSE /\ sent' = 0 /\ apc' = "idle"
        /\ down' = down /\ modern' = modern
    BY <1>11 DEF AgentRestart, hubVars
  <2>5. Rest'
    BY <2>1, <2>2, <2>3, <2>4, ZenonT(30) DEF QueueInv
  <2>6. apc' # "replayed"
    BY <2>4
  <2> QED BY <2>2, <2>5, <2>6 DEF QueueInv
<1>12. CASE HubNext
  <2>1. faults' \in 0..MaxFaults
    BY <1>12, <1>0 DEF HubNext, Begin, Reject, Ingest, Control, Finish, Unheard,
       Expire, HubStop, HubStart, QueueInv
  <2>2. UNCHANGED <<apc, queue, bytes, gzip, sent, final>>
    BY <1>12 DEF HubNext, Begin, Reject, Ingest, Control, Finish, Unheard,
       Expire, HubStop, HubStart, agentVars
  <2>3. down' \in BOOLEAN /\ modern' \in BOOLEAN
    BY ZenonT(30), <1>12 DEF HubNext, Begin, Reject, Ingest, Control, Finish, Unheard,
       Expire, HubStop, HubStart, QueueInv
  <2> QED BY <2>1, <2>2, <2>3, QueueStays DEF QueueInv
<1>13. CASE UNCHANGED vars
  BY <1>13, QueueStays DEF vars, agentVars, hubVars, QueueInv
<1> QED BY <1>1, <1>2, <1>3, <1>4, <1>5, <1>6, <1>7, <1>8, <1>9, <1>10, <1>11, <1>12, <1>13
        DEF Next, AgentNext

LEMMA QueueInvariant == Spec => []QueueInv
<1>1. Init => QueueInv
  <2> SUFFICES ASSUME Init PROVE QueueInv
    OBVIOUS
  <2>1. Total = Sums(<<>>)[Len(<<>>)]
    BY TotalIsSum DEF Init
  <2>2. Total = 0 /\ Len(<<>>) = 0
    BY <2>1, SumOfEmpty
  <2>3. QueueBounded
    BY SMTT(60), <2>2, UploadAssumption DEF Init, QueueBounded
  <2>4. 0 \in 0..ReplayPerBeat /\ 0 \in 0..MaxFaults /\ 0 \in Nat
    BY UploadAssumption
  <2>5. Rest
    BY <2>4, ZenonT(30) DEF Init, Rest
  <2>6. apc # "replayed"
    BY DEF Init
  <2> QED BY <2>3, <2>5, <2>6 DEF QueueInv
<1> QED BY <1>1, QueueStep, UploadInvariant, PTL DEF Spec

\* UploadQueue_Push, _DropOldest and _Pop keep the queue within
\* UPLOAD_QUEUE_MAX_ITEMS and UPLOAD_QUEUE_MAX_BYTES, with an exact byte count.
THEOREM QueueStaysBounded == Spec => []QueueBounded
<1>1. QueueInv => QueueBounded
  BY DEF QueueInv
<1> QED BY <1>1, QueueInvariant, PTL

\* Every variable keeps its type: the byte counter never falls below zero, and
\* a beat sends no more than UPLOAD_QUEUE_REPLAY_PER_BEAT replays.
THEOREM UploadTypeCorrect == Spec => []TypeOK
<1>1. UploadInv /\ QueueInv => TypeOK
  BY DEF UploadInv, Typed, Requests, QueueInv, Rest, TypeOK
<1> QED BY <1>1, UploadInvariant, QueueInvariant, PTL

-----------------------------------------------------------------------------
(* The ledger's bound.                                                       *)

\* The ids the ledger knows, and those a handler may still put back.
Tracked == {b \in Batches : seen[b] # "no" \/ \E s \in Slots : Handles(s, b)}

TrackInv ==
    /\ IsFiniteSet(Tracked)
    /\ Cardinality(Tracked) < LedgerMax + Cardinality(Slots)

\* A step after which the ledger and the handlers speak of no new id.
LEMMA TracksNoMore ==
    ASSUME TrackInv, Tracked' \subseteq Tracked
    PROVE  TrackInv'
<1>1. /\ Cardinality(Tracked) \in Nat /\ Cardinality(Tracked') \in Nat
      /\ IsFiniteSet(Tracked') /\ Cardinality(Tracked') <= Cardinality(Tracked)
  BY FS_Subset, FS_CardinalityType DEF TrackInv
<1>2. LedgerMax \in Nat /\ Cardinality(Slots) \in Nat
  BY UploadAssumption, FS_CardinalityType
<1> QED BY <1>1, <1>2 DEF TrackInv

\* The handlers of other requests know fewer ids than there are slots.
LEMMA OthersFew ==
    ASSUME Typed, NEW s \in Slots,
           NEW others, others = {c \in Batches : \E t \in Slots \ {s} : Handles(t, c)}
    PROVE  IsFiniteSet(others) /\ Cardinality(others) <= Cardinality(Slots) - 1
<1> DEFINE from == {t \in Slots \ {s} : \E c \in others : Handles(t, c)}
           f == [t \in from |-> req[t].batch]
<1>1. f \in [from -> others]
  BY DEF Handles
<1>2. \A c \in others : \E t \in from : f[t] = c
  BY DEF Handles
<1>3. f \in Surjection(from, others)
  <2> HIDE DEF f, from
  <2> QED BY <1>1, <1>2 DEF Surjection
<1>4. /\ IsFiniteSet(Slots \ {s}) /\ Cardinality(Slots \ {s}) = Cardinality(Slots) - 1
      /\ Cardinality(Slots) \in Nat
  BY UploadAssumption, FS_RemoveElement, FS_CardinalityType
<1>5. IsFiniteSet(from) /\ Cardinality(from) <= Cardinality(Slots) - 1
  <2>1. from \in SUBSET (Slots \ {s})
    OBVIOUS
  <2> HIDE DEF from
  <2> QED BY SMTT(60), <1>4, <2>1, FS_Subset
<1> HIDE DEF from, f
<1>6. IsFiniteSet(others) /\ Cardinality(others) <= Cardinality(from)
  BY <1>3, <1>5, FS_Surjection
<1> QED BY SMTT(60), <1>4, <1>5, <1>6, FS_CardinalityType

\* begin makes room before it takes a new id in.
LEMMA KeptFew ==
    ASSUME TrackInv, NEW K \in Kept
    PROVE  K \subseteq Known /\ IsFiniteSet(K) /\ Cardinality(K) < LedgerMax
<1>1. Known \subseteq Tracked
  BY DEF Known, Tracked
<1>2. K \subseteq Known /\ Cardinality(K) < LedgerMax
  BY SMTT(60), UploadAssumption DEF Kept
<1> QED BY <1>1, <1>2, FS_Subset DEF TrackInv

LEMMA BeginTracks ==
    ASSUME Typed, HandInv, TrackInv, NEW s \in Slots, Begin(s)
    PROVE  TrackInv'
<1> DEFINE b == req[s].batch
           others == {c \in Batches : \E t \in Slots \ {s} : Handles(t, c)}
<1>1. CASE \E status \in Statuses : To(s, "answer", status) /\ UNCHANGED seen
  <2>1. PICK status \in Statuses : To(s, "answer", status) /\ UNCHANGED seen
    BY <1>1
  <2>2. Moves(s, "answer", status)
    BY <2>1, ToMoves DEF Stages
  <2>3. Tracked' \subseteq Tracked
    BY <2>1, <2>2 DEF Tracked, Handles, Moves
  <2> QED BY <2>3, TracksNoMore
<1>2. CASE /\ To(s, "ingest", "none")
           /\ \E K \in Kept : seen' = [c \in Batches |->
                                 IF c = b THEN "storing" ELSE IF c \in K THEN seen[c] ELSE "no"]
  <2>1. PICK K \in Kept : seen' = [c \in Batches |->
                             IF c = b THEN "storing" ELSE IF c \in K THEN seen[c] ELSE "no"]
    BY <1>2
  <2>2. Moves(s, "ingest", "none")
    BY <1>2, ToMoves DEF Stages, Statuses
  <2>3. Tracked' \subseteq (K \cup {b}) \cup others
    BY <2>1, <2>2 DEF Tracked, Handles, Moves
  <2>4. IsFiniteSet(K) /\ Cardinality(K) < LedgerMax /\ LedgerMax \in Nat
    BY KeptFew, UploadAssumption
  <2>5. IsFiniteSet(others) /\ Cardinality(others) <= Cardinality(Slots) - 1
    BY OthersFew
  <2> HIDE DEF b, others
  <2>6. /\ IsFiniteSet(K \cup {b}) /\ Cardinality(K \cup {b}) <= LedgerMax
        /\ Cardinality(K \cup {b}) \in Nat
    <3>1. /\ IsFiniteSet(K \cup {b})
          /\ \/ Cardinality(K \cup {b}) = Cardinality(K)
             \/ Cardinality(K \cup {b}) = Cardinality(K) + 1
      BY <2>4, FS_AddElement
    <3>2. Cardinality(K) \in Nat
      BY <2>4, FS_CardinalityType
    <3> QED BY SMTT(60), <2>4, <3>1, <3>2
  <2>7. /\ Cardinality(Slots) \in Nat /\ Cardinality(others) \in Nat
        /\ IsFiniteSet((K \cup {b}) \cap others)
        /\ Cardinality((K \cup {b}) \cap others) \in Nat
    BY ZenonT(30), <2>5, <2>6, UploadAssumption, FS_CardinalityType, FS_Intersection
  <2>8. /\ IsFiniteSet((K \cup {b}) \cup others)
        /\ Cardinality((K \cup {b}) \cup others) < LedgerMax + Cardinality(Slots)
        /\ Cardinality((K \cup {b}) \cup others) \in Nat
    <3>1. Cardinality((K \cup {b}) \cup others) =
             Cardinality(K \cup {b}) + Cardinality(others)
                - Cardinality((K \cup {b}) \cap others)
      BY <2>5, <2>6, FS_Union
    <3>2. IsFiniteSet((K \cup {b}) \cup others)
      BY ZenonT(30), <2>5, <2>6, FS_Union
    <3> QED BY SMTT(60), <2>4, <2>5, <2>6, <2>7, <3>1, <3>2, FS_CardinalityType
  <2>9. /\ IsFiniteSet(Tracked') /\ Cardinality(Tracked') \in Nat
        /\ Cardinality(Tracked') <= Cardinality((K \cup {b}) \cup others)
    BY <2>3, <2>8, FS_Subset, FS_CardinalityType
  <2> QED BY SMTT(60), <2>4, <2>7, <2>8, <2>9 DEF TrackInv
<1> QED BY <1>1, <1>2 DEF Begin, Statuses

\* Every other step leaves the handlers of a request or ends them, and takes
\* ids out of the ledger or puts in the one its handler holds.
LEMMA OtherStepsTrack ==
    ASSUME Typed, TrackInv, [Next]_vars, \A s \in Slots : ~ Begin(s)
    PROVE  TrackInv'
<1> SUFFICES Tracked' \subseteq Tracked
  BY TracksNoMore
<1> USE DEF Typed
<1>1. ASSUME NEW b, NEW live, Post(b, live), UNCHANGED seen
      PROVE  Tracked' \subseteq Tracked
  BY <1>1 DEF Post, Tracked, Handles
<1>2. ASSUME NEW status, Answered(status), UNCHANGED seen
      PROVE  Tracked' \subseteq Tracked
  BY <1>2 DEF Answered, Free, Tracked, Handles
<1>3. ASSUME UNCHANGED <<req, seen>>
      PROVE  Tracked' \subseteq Tracked
  BY <1>3 DEF Tracked, Handles
<1>4. CASE AgentNext
  <2>1. ASSUME NEW b \in Batches, Beat(b) PROVE Tracked' \subseteq Tracked
    BY ZenonT(30), <2>1, <1>1 DEF Beat
  <2>2. CASE Accepted \/ Refused
    BY <2>2, <1>2 DEF Accepted, Refused
  <2>3. CASE NotTaken
    BY <2>3, <1>2, <1>3 DEF NotTaken, GaveUp
  <2>4. CASE ReplayPost
    BY ZenonT(30), <2>4, <1>1 DEF ReplayPost
  <2>5. CASE ReplayAnswered
    BY <2>5, <1>2, <1>3 DEF ReplayAnswered, GaveUp
  <2>6. CASE Stop \/ DropOldest \/ Push \/ ReplayDropsAll \/ ReplayEnds \/ AgentRestart
    BY <2>6, <1>3 DEF Stop, DropOldest, Push, ReplayDropsAll, ReplayEnds, AgentRestart, hubVars
  <2> QED BY <1>4, <2>1, <2>2, <2>3, <2>4, <2>5, <2>6 DEF AgentNext
<1>5. CASE HubNext
  <2>1. ASSUME NEW s \in Slots, Reject(s) PROVE Tracked' \subseteq Tracked
    <3>1. Moves(s, "answer", "refused") /\ UNCHANGED seen
      BY <2>1, ToMoves DEF Reject, Stages, Statuses
    <3> QED BY ZenonT(30), <3>1 DEF Tracked, Handles, Moves
  <2>2. ASSUME NEW s \in Slots, Ingest(s) \/ Control(s) PROVE Tracked' \subseteq Tracked
    <3>1. PICK step \in Stages, status \in Statuses : To(s, step, status)
      BY <2>2 DEF Ingest, Control, Stages, Statuses
    <3>2. Moves(s, step, status)
      BY <3>1, ToMoves
    <3>3. UNCHANGED seen /\ req[s].at \in {"ingest", "stored"}
      BY <2>2 DEF Ingest, Control
    <3> QED BY ZenonT(30), <3>2, <3>3 DEF Tracked, Handles, Moves
  <2>3. ASSUME NEW s \in Slots, Finish(s) PROVE Tracked' \subseteq Tracked
    BY SMTT(60), <2>3 DEF Finish, Tracked, Handles, Requests
  <2>4. ASSUME NEW s \in Slots, Unheard(s) PROVE Tracked' \subseteq Tracked
    BY <2>4 DEF Unheard, Free, Tracked, Handles
  <2>5. ASSUME NEW b \in Batches, Expire(b) PROVE Tracked' \subseteq Tracked
    BY <2>5 DEF Expire, Tracked, Handles
  <2>6. CASE HubStop
    BY <2>6 DEF HubStop, Free, Tracked, Handles
  <2>7. CASE HubStart
    BY <2>7, <1>3 DEF HubStart
  <2> QED BY <1>5, <2>1, <2>2, <2>3, <2>4, <2>5, <2>6, <2>7 DEF HubNext
<1>6. CASE UNCHANGED vars
  BY <1>3, <1>6 DEF vars, hubVars
<1> QED BY <1>4, <1>5, <1>6 DEF Next

\* The hub's ledger of batch ids never holds batchLedgerMax ids and one more
\* for every request in being, however begin, finish and expiry interleave.
THEOREM LedgerStaysBounded == Spec => []LedgerBounded
<1>1. Init => TrackInv
  <2> SUFFICES ASSUME Init PROVE TrackInv
    OBVIOUS
  <2>1. Tracked = {}
    BY DEF Init, Tracked, Handles, Free
  <2>2. IsFiniteSet({}) /\ Cardinality({}) = 0
    BY FS_EmptySet
  <2>3. LedgerMax \in Nat \ {0} /\ Cardinality(Slots) \in Nat
    BY UploadAssumption, FS_CardinalityType
  <2> QED BY SMTT(60), <2>1, <2>2, <2>3 DEF TrackInv
<1>2. UploadInv /\ TrackInv /\ [Next]_vars => TrackInv'
  BY BeginTracks, OtherStepsTrack DEF UploadInv
<1>3. TrackInv => LedgerBounded
  <2> SUFFICES ASSUME TrackInv PROVE LedgerBounded
    OBVIOUS
  <2>1. Known \in SUBSET Tracked
    BY DEF Known, Tracked
  <2>2. /\ IsFiniteSet(Known) /\ Cardinality(Known) <= Cardinality(Tracked)
        /\ Cardinality(Tracked) \in Nat /\ Cardinality(Known) \in Nat
    BY <2>1, FS_Subset, FS_CardinalityType DEF TrackInv
  <2>3. LedgerMax \in Nat /\ Cardinality(Slots) \in Nat
    BY UploadAssumption, FS_CardinalityType
  <2> QED BY SMTT(60), <2>2, <2>3 DEF TrackInv, LedgerBounded
<1> QED BY <1>1, <1>2, <1>3, UploadInvariant, PTL DEF Spec
=============================================================================
