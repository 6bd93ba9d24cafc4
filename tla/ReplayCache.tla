---------------------------- MODULE ReplayCache ----------------------------
(* The agent's durable replay cache and the time window of its grant        *)
(* verifier (agent/include/response_dispatcher.h).                          *)
(*                                                                          *)
(* The daemon takes one offer at a time: the verifier reads the clock, then *)
(* ReplayCache_CheckAndRecord reads the clock again, scans the file under   *)
(* an exclusive lock, truncates it and writes back what is still live plus  *)
(* the new entry.  Time may pass between any two of these steps, the write  *)
(* may fail and the process may die in the middle of the rewrite.           *)
(*                                                                          *)
(* An entry is identified with its grant: the grant id, the nonce and the   *)
(* expiry in a line are those of the signed grant, so they never change.    *)
EXTENDS Integers, FiniteSets

CONSTANTS Grants,            \* signed grants this endpoint may be offered
          Nonce,             \* Nonce[g]: the nonce signed into grant g
          IssuedAt,          \* IssuedAt[g], ExpiresAt[g]: validity of g (seconds)
          ExpiresAt,
          Grace,             \* REPLAY_CACHE_GRACE_SECONDS, and the verifier's 60 s
          CacheMax,          \* REPLAY_CACHE_MAX
          NoGrant,           \* "no offer being handled"
          MaxTime,           \* bound on the clock
          MaxAccepts         \* bound on the acceptances counted per grant

ASSUME CacheAssumption ==
    /\ NoGrant \notin Grants
    /\ IssuedAt \in [Grants -> Nat]
    /\ ExpiresAt \in [Grants -> Nat]
    /\ \A g \in Grants : IssuedAt[g] < ExpiresAt[g]
    /\ Grace \in Nat
    /\ CacheMax \in Nat \ {0}
    /\ MaxTime \in Nat
    /\ MaxAccepts \in Nat

VARIABLES now,        \* the endpoint's clock
          file,       \* entries readable in the cache file
          step,       \* where the daemon is: idle, verified, rewriting
          offer,      \* the grant being handled
          retained,   \* live entries held in memory during a rewrite
          accepted,   \* accepted[g]: how often g was accepted (history)
          lost        \* <<g, why>>: live entries a rewrite lost (history)

vars == <<now, file, step, offer, retained, accepted, lost>>

Steps == {"idle", "verified", "rewriting"}

-----------------------------------------------------------------------------

(* The verifier's window: issued_at - 60 .. expires_at + 60, both included. *)
Verifies(g) == now >= IssuedAt[g] - Grace /\ now <= ExpiresAt[g] + Grace

(* Mutant: entries dropped at expiry, without the verifier's grace. *)
KeepNoGrace(g) == ExpiresAt[g] > now

(* ReplayCache_Keep: whether an entry still guards now. *)
Keep(g) == ExpiresAt[g] > now - Grace

(* Entries the scan keeps, and whether one of them is a replay of g. *)
Live == {e \in file : Keep(e)}
ReplaysIdOnly(g) == g \in Live   \* mutant: the nonce is not compared
Replays(g) == \E e \in Live : e = g \/ Nonce[e] = Nonce[g]

FullOffByOne == Cardinality(Live) > CacheMax   \* mutant: one entry too many

(* The scan refuses when it would retain more than CacheMax - 1 entries. *)
Full == Cardinality(Live) > CacheMax - 1

Init == /\ now = 0
        /\ file = {}
        /\ step = "idle"
        /\ offer = NoGrant
        /\ retained = {}
        /\ accepted = [g \in Grants |-> 0]
        /\ lost = {}

Idle == step' = "idle" /\ offer' = NoGrant /\ retained' = {}

(* VerifyResponseGrantKey passes for an offered grant. *)
Verify(g) == /\ step = "idle"
             /\ accepted[g] < MaxAccepts
             /\ Verifies(g)
             /\ step' = "verified"
             /\ offer' = g
             /\ UNCHANGED <<now, file, retained, accepted, lost>>

(* ReplayCache_CheckAndRecord, the scan: the grant or its nonce is found, or *)
(* there is no room: refused, nothing written.                              *)
Refuse == /\ step = "verified"
          /\ Replays(offer) \/ Full
          /\ Idle
          /\ UNCHANGED <<now, file, accepted, lost>>

(* The scan passes: the file is truncated, the live entries are in memory. *)
Truncate == /\ step = "verified"
            /\ ~Replays(offer)
            /\ ~Full
            /\ retained' = Live
            /\ file' = {}
            /\ step' = "rewriting"
            /\ UNCHANGED <<now, offer, accepted, lost>>

(* The rewrite reaches the disk (fsync): the grant is accepted. *)
Commit == /\ step = "rewriting"
          /\ file' = retained \cup {offer}
          /\ accepted' = [accepted EXCEPT ![offer] = @ + 1]
          /\ Idle
          /\ UNCHANGED <<now, lost>>

(* The rewrite stops early: some of what was to be written is in the file,  *)
(* whatever else was held in memory is gone, and the grant is refused.      *)
Interrupted(why) ==
    /\ step = "rewriting"
    /\ \E kept \in SUBSET (retained \cup {offer}) :
          /\ file' = kept
          /\ lost' = lost \cup ((retained \ kept) \X {why})
    /\ Idle
    /\ UNCHANGED <<now, accepted>>

(* fputs, fprintf, fflush or fsync fails after the truncation. *)
WriteFails == Interrupted("write")

(* The process dies: only the file survives.  Before the truncation this is *)
(* also what a failed open, lock, allocation, read or ftruncate does.       *)
Crash == \/ Interrupted("crash")
         \/ step = "verified" /\ Idle /\ UNCHANGED <<now, file, accepted, lost>>

Tick == /\ now < MaxTime
        /\ now' = now + 1
        /\ UNCHANGED <<file, step, offer, retained, accepted, lost>>

Next == \/ \E g \in Grants : Verify(g)
        \/ Refuse \/ Truncate \/ Commit
        \/ WriteFails \/ Crash \/ Tick

Spec == Init /\ [][Next]_vars

-----------------------------------------------------------------------------

TypeOK == /\ now \in Nat
          /\ file \subseteq Grants
          /\ step \in Steps
          /\ offer \in Grants \cup {NoGrant}
          /\ retained \subseteq Grants
          /\ accepted \in [Grants -> Nat]
          /\ lost \subseteq Grants \X {"write", "crash"}

(* Entries that guard, wherever the rewrite has them. *)
Guarded == file \cup retained
LostIt(g) == \E why \in {"write", "crash"} : <<g, why>> \in lost

(* A grant is accepted at most once before expires_at + grace, across any   *)
(* number of offers, restarts and clock readings, unless a rewrite of the   *)
(* cache lost its entry.                                                    *)
AcceptedOnceInWindow ==
    \A g \in Grants : now < ExpiresAt[g] + Grace /\ ~LostIt(g) => accepted[g] <= 1

(* The file never holds more than REPLAY_CACHE_MAX entries, so the refusal  *)
(* of a full cache comes from live entries only.                            *)
CacheBounded == Cardinality(file) <= CacheMax

(* Two accepted grants with the same nonce are never both live: the nonce,  *)
(* not only the grant id, is refused while an entry is kept.                *)
NonceUsedOnce ==
    \A g, h \in Guarded : Keep(g) /\ Keep(h) /\ Nonce[g] = Nonce[h] => g = h

(* The comment above the cache: "A grant is accepted at most once ... a     *)
(* grant that still verifies can never find its entry gone".                *)
AcceptedAtMostOnce == \A g \in Grants : ~LostIt(g) => accepted[g] <= 1
=============================================================================
