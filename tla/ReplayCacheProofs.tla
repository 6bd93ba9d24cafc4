------------------------- MODULE ReplayCacheProofs -------------------------
(* Proofs about the replay cache, for any set of grants, any validity       *)
(* periods, any grace and any capacity.                                     *)
EXTENDS ReplayCache, FiniteSetTheorems, TLAPS

(* What the daemon holds at each step: nothing while idle, the offer once   *)
(* verified, and during a rewrite every live entry, the file being empty.   *)
StepInv ==
    /\ step = "idle" => offer = NoGrant
    /\ step # "idle" => offer \in Grants
    /\ step # "rewriting" => retained = {}
    /\ step = "rewriting" => file = {}

(* The strengthening of AcceptedOnceInWindow: while a grant may still       *)
(* verify inside the window its entry guards (in the file or in memory),    *)
(* and a grant about to be committed has no earlier acceptance.             *)
GuardInv ==
    /\ \A g \in Grants : Keep(g) /\ ~LostIt(g) =>
          /\ accepted[g] <= 1
          /\ accepted[g] = 1 => g \in Guarded
    /\ step = "rewriting" /\ Keep(offer) /\ ~LostIt(offer) => accepted[offer] = 0

(* The strengthening of NonceUsedOnce: nothing retained shares the nonce of *)
(* the grant about to be committed.                                         *)
NonceInv == step = "rewriting" => \A e \in retained : Nonce[e] # Nonce[offer]

(* The strengthening of CacheBounded: a rewrite leaves room for one entry. *)
SizeInv ==
    /\ IsFiniteSet(file)
    /\ IsFiniteSet(retained)
    /\ Cardinality(file) <= CacheMax
    /\ step = "rewriting" => Cardinality(retained) <= CacheMax - 1

-----------------------------------------------------------------------------

(* The values every variable takes, at every step of CheckAndRecord. *)
THEOREM CacheTypeCorrect == Spec => [](TypeOK /\ StepInv)
<1>1. Init => TypeOK /\ StepInv
  BY CacheAssumption DEF Init, TypeOK, StepInv, Steps
<1>2. TypeOK /\ StepInv /\ [Next]_vars => (TypeOK /\ StepInv)'
  <2> SUFFICES ASSUME TypeOK, StepInv, [Next]_vars
               PROVE  (TypeOK /\ StepInv)'
    OBVIOUS
  <2> USE CacheAssumption DEF TypeOK, StepInv, Steps
  <2>1. ASSUME NEW g \in Grants, Verify(g) PROVE (TypeOK /\ StepInv)'
    BY <2>1 DEF Verify
  <2>2. CASE Refuse
    BY <2>2 DEF Refuse, Idle
  <2>3. CASE Truncate
    BY <2>3 DEF Truncate, Live
  <2>4. CASE Commit
    <3>1. offer \in Grants
      BY <2>4 DEF Commit
    <3>2. accepted' \in [Grants -> Nat]
      BY <2>4, <3>1 DEF Commit
    <3> QED BY <2>4, <3>1, <3>2 DEF Commit, Idle
  <2>5. ASSUME NEW why \in {"write", "crash"}, Interrupted(why) PROVE (TypeOK /\ StepInv)'
    BY <2>5 DEF Interrupted, Idle
  <2>6. CASE step = "verified" /\ Idle /\ UNCHANGED <<now, file, accepted, lost>>
    BY <2>6 DEF Idle
  <2>7. CASE Tick
    BY <2>7 DEF Tick
  <2>8. CASE UNCHANGED vars
    BY <2>8 DEF vars
  <2> QED BY <2>1, <2>2, <2>3, <2>4, <2>5, <2>6, <2>7, <2>8 DEF Next, WriteFails, Crash
<1> QED BY <1>1, <1>2, PTL DEF Spec

(* A rewrite can only remove a grant from the guarded set by losing it. *)
LEMMA InterruptedLoses ==
    ASSUME TypeOK, StepInv, NEW why \in {"write", "crash"}, Interrupted(why),
           NEW g \in Grants, g \in Guarded, ~LostIt(g)'
    PROVE  g \in Guarded'
  BY DEF TypeOK, StepInv, Interrupted, Idle, Guarded, LostIt

(* Losing an entry is remembered. *)
LEMMA LostStays ==
    ASSUME TypeOK, [Next]_vars, NEW g \in Grants, LostIt(g)
    PROVE  LostIt(g)'
  BY DEF TypeOK, Next, vars, Verify, Refuse, Truncate, Commit, WriteFails, Crash,
         Interrupted, Tick, LostIt

(* Time only makes entries lapse. *)
LEMMA KeepStays ==
    ASSUME TypeOK, [Next]_vars, NEW g \in Grants, Keep(g)'
    PROVE  Keep(g)
<1>1. now' = now \/ now' = now + 1
  BY DEF Next, vars, Verify, Refuse, Truncate, Commit, WriteFails, Crash, Interrupted, Tick
<1> QED BY <1>1, CacheAssumption DEF TypeOK, Keep

(* The guard is inductive: an accepted grant that is still in its window    *)
(* guards, and a grant that guards is refused by the scan.                  *)
LEMMA GuardInductive ==
    ASSUME TypeOK, StepInv, GuardInv, [Next]_vars
    PROVE  GuardInv'
<1> USE DEF TypeOK, StepInv
<1>a. \A g \in Grants : Keep(g)' /\ ~LostIt(g)' => Keep(g) /\ ~LostIt(g)
  BY KeepStays, LostStays
<1>1. ASSUME NEW g \in Grants, Verify(g) PROVE GuardInv'
  <2>1. accepted' = accepted /\ Guarded' = Guarded /\ step' # "rewriting"
    BY <1>1 DEF Verify, Guarded
  <2> QED BY <1>a, <2>1 DEF GuardInv
<1>2. CASE Refuse
  <2>1. accepted' = accepted /\ Guarded' = Guarded /\ step' # "rewriting"
    BY <1>2 DEF Refuse, Idle, Guarded
  <2> QED BY <1>a, <2>1 DEF GuardInv
<1>3. CASE Truncate
  <2>1. accepted' = accepted /\ offer' = offer /\ offer \in Grants /\ retained = {} /\ file' \cup retained' = Live
    BY <1>3 DEF Truncate
  <2>2. \A g \in Grants : Keep(g) /\ g \in Guarded => g \in Guarded'
    BY <2>1 DEF Guarded, Live
  <2>3. Keep(offer) => offer \notin Guarded
    BY <1>3, <2>1 DEF Truncate, Replays, Live, Guarded
  <2>4. Keep(offer) /\ ~LostIt(offer) => accepted[offer] = 0
    BY <2>1, <2>3 DEF GuardInv
  <2> QED BY <1>a, <2>1, <2>2, <2>4 DEF GuardInv
<1>4. CASE Commit
  <2>1. /\ offer \in Grants /\ Guarded' = Guarded \cup {offer} /\ step' # "rewriting"
        /\ accepted' = [accepted EXCEPT ![offer] = @ + 1]
    BY <1>4 DEF Commit, Idle, Guarded
  <2>2. ASSUME NEW g \in Grants, Keep(g)', ~LostIt(g)'
        PROVE  accepted'[g] <= 1 /\ (accepted'[g] = 1 => g \in Guarded')
    <3>1. CASE g = offer
      BY <1>a, <1>4, <2>1, <2>2, <3>1 DEF GuardInv, Commit
    <3>2. CASE g # offer
      BY <1>a, <2>1, <2>2, <3>2 DEF GuardInv
    <3> QED BY <3>1, <3>2
  <2> QED BY <2>1, <2>2 DEF GuardInv
<1>5. ASSUME NEW why \in {"write", "crash"}, Interrupted(why) PROVE GuardInv'
  <2>1. accepted' = accepted /\ step' # "rewriting"
    BY <1>5 DEF Interrupted, Idle
  <2>2. \A g \in Grants : g \in Guarded /\ ~LostIt(g)' => g \in Guarded'
    BY <1>5, InterruptedLoses
  <2> QED BY <1>a, <2>1, <2>2 DEF GuardInv
<1>6. CASE step = "verified" /\ Idle /\ UNCHANGED <<now, file, accepted, lost>>
  <2>1. accepted' = accepted /\ Guarded' = Guarded /\ step' # "rewriting"
    BY <1>6 DEF Idle, Guarded
  <2> QED BY <1>a, <2>1 DEF GuardInv
<1>7. CASE Tick \/ UNCHANGED vars
  <2>1. accepted' = accepted /\ Guarded' = Guarded /\ step' = step /\ offer' = offer
    BY <1>7 DEF Tick, vars, Guarded
  <2> QED BY <1>a, <2>1 DEF GuardInv
<1> QED BY <1>1, <1>2, <1>3, <1>4, <1>5, <1>6, <1>7 DEF Next, WriteFails, Crash

(* A grant is accepted at most once while it is inside its window, however  *)
(* many grants, restarts and refused offers there are (ReplayCache_Keep and *)
(* ReplayCache_CheckAndRecord against the verifier's window).               *)
THEOREM AcceptedOnce == Spec => []AcceptedOnceInWindow
<1>1. Init => GuardInv
  BY CacheAssumption DEF Init, GuardInv, Guarded, LostIt
<1>2. TypeOK /\ GuardInv => AcceptedOnceInWindow
  BY CacheAssumption DEF TypeOK, GuardInv, AcceptedOnceInWindow, Keep
<1> QED BY <1>1, <1>2, GuardInductive, CacheTypeCorrect, PTL DEF Spec

(* No two live entries share a nonce, in the file or during a rewrite: the  *)
(* scan of ReplayCache_CheckAndRecord compares nonces as well as grant ids. *)
THEOREM NoncesUsedOnce == Spec => []NonceUsedOnce
<1>1. Init => NonceUsedOnce /\ NonceInv
  BY DEF Init, NonceUsedOnce, NonceInv, Guarded
<1>2. TypeOK /\ StepInv /\ NonceUsedOnce /\ NonceInv /\ [Next]_vars => (NonceUsedOnce /\ NonceInv)'
  <2> SUFFICES ASSUME TypeOK, StepInv, NonceUsedOnce, NonceInv, [Next]_vars
               PROVE  (NonceUsedOnce /\ NonceInv)'
    OBVIOUS
  <2> USE DEF TypeOK, StepInv
  <2>a. \A g \in Grants : Keep(g)' => Keep(g)
    BY KeepStays
  <2>1. ASSUME Guarded' \subseteq Guarded, step' # "rewriting" \/ UNCHANGED <<step, retained, offer>>
        PROVE  (NonceUsedOnce /\ NonceInv)'
    BY <2>a, <2>1 DEF NonceUsedOnce, NonceInv, Guarded
  <2>2. ASSUME NEW g \in Grants, Verify(g) PROVE (NonceUsedOnce /\ NonceInv)'
    BY <2>1, <2>2 DEF Verify, Guarded
  <2>3. CASE Refuse \/ (step = "verified" /\ Idle /\ UNCHANGED <<now, file, accepted, lost>>)
    BY <2>1, <2>3 DEF Refuse, Idle, Guarded
  <2>4. CASE Tick \/ UNCHANGED vars
    BY <2>1, <2>4 DEF Tick, vars, Guarded
  <2>5. CASE Truncate
    <3>1. Guarded' \subseteq Guarded
      BY <2>5 DEF Truncate, Live, Guarded
    <3>2. \A e \in retained' : Nonce[e] # Nonce[offer']
      BY <2>5 DEF Truncate, Replays
    <3> QED BY <2>a, <3>1, <3>2 DEF NonceUsedOnce, NonceInv, Guarded
  <2>6. CASE Commit
    <3>1. Guarded' = retained \cup {offer} /\ step' = "idle" /\ step = "rewriting" /\ offer \in Grants
      BY <2>6 DEF Commit, Idle, Guarded
    <3> QED BY <2>a, <3>1 DEF NonceUsedOnce, NonceInv, Guarded
  <2>7. ASSUME NEW why \in {"write", "crash"}, Interrupted(why) PROVE (NonceUsedOnce /\ NonceInv)'
    <3>1. Guarded' \subseteq retained \cup {offer} /\ step' = "idle" /\ step = "rewriting" /\ offer \in Grants
      BY <2>7 DEF Interrupted, Idle, Guarded
    <3> QED BY <2>a, <3>1 DEF NonceUsedOnce, NonceInv, Guarded
  <2> QED BY <2>2, <2>3, <2>4, <2>5, <2>6, <2>7 DEF Next, WriteFails, Crash
<1> QED BY <1>1, <1>2, CacheTypeCorrect, PTL DEF Spec

(* The file never outgrows REPLAY_CACHE_MAX, whatever is offered and        *)
(* however often a rewrite is interrupted.                                  *)
THEOREM CacheStaysBounded == Spec => []CacheBounded
<1>1. Init => SizeInv
  BY FS_EmptySet, CacheAssumption DEF Init, SizeInv
<1>2. TypeOK /\ StepInv /\ SizeInv /\ [Next]_vars => SizeInv'
  <2> SUFFICES ASSUME TypeOK, StepInv, SizeInv, [Next]_vars
               PROVE  SizeInv'
    OBVIOUS
  <2> USE CacheAssumption DEF StepInv, SizeInv
  <2>a. IsFiniteSet({}) /\ Cardinality({}) = 0
    BY FS_EmptySet
  <2>1. ASSUME NEW g \in Grants, Verify(g) PROVE SizeInv'
    BY <2>1 DEF Verify
  <2>2. CASE Refuse \/ (step = "verified" /\ Idle /\ UNCHANGED <<now, file, accepted, lost>>)
    BY ZenonT(30), <2>2, <2>a DEF Refuse, Idle
  <2>3. CASE Tick \/ UNCHANGED vars
    BY <2>3 DEF Tick, vars
  <2>4. CASE Truncate
    <3>1. IsFiniteSet(Live) /\ Cardinality(Live) \in Nat
      BY FS_Subset, FS_CardinalityType DEF Live
    <3>2. Cardinality(Live) <= CacheMax - 1
      BY <2>4, <3>1 DEF Truncate, Full
    <3> QED BY <2>4, <2>a, <3>1, <3>2 DEF Truncate
  <2>5. ASSUME step = "rewriting", NEW kept \in SUBSET (retained \cup {offer})
        PROVE  IsFiniteSet(kept) /\ Cardinality(kept) <= CacheMax
    <3>1. /\ IsFiniteSet(retained \cup {offer})
          /\ Cardinality(retained) \in Nat
          /\ Cardinality(retained \cup {offer}) \in Nat
      BY FS_AddElement, FS_CardinalityType
    <3>2. Cardinality(retained \cup {offer}) <= Cardinality(retained) + 1
      BY <3>1, FS_AddElement
    <3>3. IsFiniteSet(kept) /\ Cardinality(kept) \in Nat /\ Cardinality(kept) <= Cardinality(retained \cup {offer})
      BY <3>1, FS_Subset, FS_CardinalityType
    <3> QED BY <2>5, <3>1, <3>2, <3>3
  <2>6. CASE Commit
    BY <2>5, <2>6, <2>a DEF Commit, Idle
  <2>7. ASSUME NEW why \in {"write", "crash"}, Interrupted(why) PROVE SizeInv'
    BY <2>5, <2>7, <2>a DEF Interrupted, Idle
  <2> QED BY <2>1, <2>2, <2>3, <2>4, <2>6, <2>7 DEF Next, WriteFails, Crash
<1>3. SizeInv => CacheBounded
  BY DEF SizeInv, CacheBounded
<1> QED BY <1>1, <1>2, <1>3, CacheTypeCorrect, PTL DEF Spec
=============================================================================
