------------------------ MODULE TelemetryUploadProofs ------------------------
(***************************************************************************)
(* Proofs for TelemetryUpload: for any sets of batches and slots, any       *)
(* budgets and any number of faults, no batch is mislaid by the agent, none *)
(* is let go as delivered that the hub does not have, and none is stored    *)
(* twice unless the ledger forgot its id.  The steps of the hub's handlers  *)
(* are here; TelemetryAgentProofs has the invariant and the agent's steps.  *)
(***************************************************************************)
EXTENDS TelemetryAgentProofs

LEMMA BeginKeeps == ASSUME NEW s \in Slots PROVE Keeps(Begin(s))
<1> SUFFICES ASSUME UploadInv, Begin(s) PROVE UploadInv'
  BY DEF Keeps
<1> DEFINE b == req[s].batch
<1> USE UploadAssumption DEF UploadInv
<1>a. b \in Batches /\ req[s].at = "sent" /\ req[s] \in Requests
  BY ZenonT(60) DEF Begin, HandInv, Typed, Requests
<1>b. UNCHANGED agentVars /\ UNCHANGED copies
  BY ZenonT(60) DEF Begin
<1>c. HeldOnce' /\ DeliveredIsStored'
  BY ZenonT(60), <1>b DEF agentVars, HeldOnce, DeliveredIsStored
<1>1. CASE IsDone(b) \/ IsStoring(b)
  <2>k. UNCHANGED <<seen, forgot>>
    BY ZenonT(60), <1>1 DEF Begin
  <2>0. PICK status \in {"accepted", "retry"} :
           To(s, "answer", status) /\ (status = "accepted" => IsDone(b))
    BY ZenonT(60), <1>1 DEF Begin
  <2>m. Moves(s, "answer", status)
    BY SMTT(60), <2>0, ToMoves DEF Stages, Statuses
  <2>1. Typed'
    BY ZenonT(60), <1>b, <2>k, <2>m DEF Typed, Moves, agentVars
  <2>2. HandInv'
    BY ZenonT(60), <1>a, <1>b, <2>m, HandKept
  <2>3. StoredInv'
    BY ZenonT(60), <1>a, <1>b, <2>0, <2>k, <2>m DEF Typed, StoredInv, IsDone, Moves
  <2>4. LedgerInv'
    BY ZenonT(60), <1>b, <2>k, <2>m, LedgerKept DEF LedgerInv, Handles, Moves
  <2> QED BY SMTT(60), <1>c, <2>1, <2>2, <2>3, <2>4
<1>2. CASE ~IsDone(b) /\ ~IsStoring(b)
  <2>m. Moves(s, "ingest", "none")
    BY ZenonT(60), <1>2, ToMoves DEF Begin, Stages, Statuses
  <2>k. PICK K \in Kept :
           /\ seen' = [c \in Batches |-> IF c = b THEN "storing"
                                         ELSE IF c \in K THEN seen[c] ELSE "no"]
           /\ forgot' = forgot \cup (Known \ K)
    BY ZenonT(60), <1>2 DEF Begin
  <2>n. seen[b] = "no"
    BY SMTT(60), <1>2, <1>a DEF IsDone, IsStoring, Typed
  <2>1. Typed'
    BY ZenonT(60), <1>b, <2>k, <2>m DEF Typed, Moves, agentVars, Known
  <2>2. HandInv'
    BY ZenonT(60), <1>a, <1>b, <2>m, HandKept
  <2>3. StoredInv'
    BY ZenonT(60), <1>a, <1>b, <2>k, <2>m DEF Typed, StoredInv, Moves
  <2>4. ASSUME NEW c \in Batches, c \notin forgot' PROVE Ledger(c)'
    <3>1. Ledger(c) /\ (c \in Known => c \in K)
      BY <2>4, <2>k DEF LedgerInv
    <3>2. CASE c = b
      <4>1. copies[c] = 0 /\ \A t \in Slots : ~Handles(t, c)
        BY ZenonT(60), <2>n, <3>1, <3>2 DEF Ledger
      <4>2. \A t \in Slots : Handles(t, c)' => t = s
        BY ZenonT(60), <4>1, <2>m DEF Handles, Moves
      <4>3. seen'[c] = "storing" /\ copies'[c] = 0
        BY SMTT(60), <1>b, <2>k, <3>2, <4>1
      <4> QED BY SMTT(60), <4>2, <4>3 DEF Ledger
    <3>3. CASE c # b
      <4>1. seen'[c] = seen[c]
        BY ZenonT(60), <2>k, <3>1, <3>3 DEF Typed, Known
      <4> QED BY ZenonT(60), <1>b, <2>m, <3>1, <3>3, <4>1, LedgerKept DEF Handles, Moves
    <3> QED BY <3>2, <3>3
  <2> QED BY SMTT(60), <1>c, <2>1, <2>2, <2>3, <2>4 DEF LedgerInv
<1> QED BY <1>1, <1>2

LEMMA RejectKeeps == ASSUME NEW s \in Slots PROVE Keeps(Reject(s))
<1> SUFFICES ASSUME UploadInv, Reject(s) PROVE UploadInv'
  BY DEF Keeps
<1> USE UploadAssumption DEF UploadInv
<1>a. req[s].at = "sent" /\ UNCHANGED agentVars /\ UNCHANGED <<seen, copies, forgot>>
  BY SMTT(60) DEF Reject
<1>m. Moves(s, "answer", "refused")
  BY SMTT(60), ToMoves DEF Reject, Stages, Statuses
<1>1. Typed'
  BY ZenonT(60), <1>a, <1>m DEF Typed, Moves, agentVars
<1>2. HandInv'
  BY SMTT(60), <1>a, <1>m, HandKept
<1>3. StoredInv'
  BY ZenonT(60), <1>a, <1>m DEF StoredInv, Moves
<1>4. LedgerInv'
  BY ZenonT(60), <1>a, <1>m, LedgerKept DEF LedgerInv, Handles, Moves
<1> QED BY ZenonT(60), <1>a, <1>1, <1>2, <1>3, <1>4 DEF agentVars, HeldOnce, DeliveredIsStored

LEMMA IngestKeeps == ASSUME NEW s \in Slots PROVE Keeps(Ingest(s))
<1> SUFFICES ASSUME UploadInv, Ingest(s) PROVE UploadInv'
  BY DEF Keeps
<1> DEFINE b == req[s].batch
<1> USE UploadAssumption DEF UploadInv
<1>a. b \in Batches /\ req[s].at = "ingest" /\ req[s] \in Requests
  BY SMTT(60) DEF Ingest, HandInv, Typed, Requests
<1>b. UNCHANGED agentVars /\ UNCHANGED <<seen, forgot>>
  BY DEF Ingest
<1>1. CASE UNCHANGED copies
  <2>0. PICK status \in {"refused", "retry"} : To(s, "failed", status)
    BY <1>1, <1>a DEF Ingest, Typed
  <2>m. Moves(s, "failed", status)
    BY <2>0, ToMoves DEF Stages, Statuses
  <2>1. Typed'
    BY <1>1, <1>b, <2>m DEF Typed, Moves, agentVars
  <2>2. HandInv'
    BY <1>a, <1>b, <2>m, HandKept
  <2>3. StoredInv'
    BY <1>1, <1>b, <2>m DEF StoredInv, Moves
  <2>4. LedgerInv'
    BY <1>1, <1>a, <1>b, <2>m, LedgerKept DEF LedgerInv, Handles, Moves
  <2> QED
    BY <1>1, <1>b, <2>1, <2>2, <2>3, <2>4 DEF agentVars, HeldOnce, DeliveredIsStored
<1>2. CASE copies' = [copies EXCEPT ![b] = @ + 1]
  <2>0. To(s, "stored", "none")
    BY <1>2, <1>a DEF Ingest, Typed
  <2>m. Moves(s, "stored", "none")
    BY <2>0, ToMoves DEF Stages, Statuses
  <2>c. copies' \in [Batches -> Nat] /\ copies'[b] = copies[b] + 1
        /\ \A c \in Batches \ {b} : copies'[c] = copies[c]
    BY <1>2, <1>a DEF Typed
  <2>p. \A c \in Batches : copies[c] \in Nat
    BY DEF Typed
  <2>q. \A c \in Batches : copies[c] > 0 => copies'[c] > 0
    BY <1>a, <2>c, <2>p
  <2>1. Typed'
    BY <1>b, <2>c, <2>m DEF Typed, Moves, agentVars
  <2>2. HandInv'
    BY <1>a, <1>b, <2>m, HandKept
  <2>3. StoredInv'
    <3>1. \A t \in Slots : req[t].at # "free" => req[t].batch \in Batches
      BY SMTT(60) DEF HandInv, Typed, Requests
    <3>2. copies'[b] > 0
      BY SMTT(60), <1>a, <2>c, <2>p
    <3> QED BY SMTT(60), <1>a, <1>b, <2>q, <2>m, <3>1, <3>2 DEF StoredInv, Moves
  <2>4. DeliveredIsStored'
    BY ZenonT(60), <1>b, <2>q DEF DeliveredIsStored, agentVars
  <2>5. ASSUME NEW c \in Batches, c \notin forgot' PROVE Ledger(c)'
    <3>1. Ledger(c)
      BY SMTT(60), <2>5, <1>b DEF LedgerInv
    <3>2. CASE c = b
      <4>1. Handles(s, c)
        BY SMTT(60), <1>a, <3>2 DEF Handles
      <4>2. seen[c] = "storing" /\ copies[c] = 0
        BY SMTT(60), <1>a, <3>1, <4>1 DEF Ledger, Typed
      <4>3. \A t \in Slots : Handles(t, c)' => t = s
        BY SMTT(60), <2>m, <3>1, <4>1, <4>2 DEF Handles, Moves, Ledger
      <4>4. /\ seen'[c] = "storing" /\ copies'[c] = 1
            /\ req'[s].at # "ingest"
        BY SMTT(60), <1>b, <2>c, <2>m, <3>2, <4>2 DEF Moves
      <4> QED BY SMTT(60), <4>3, <4>4 DEF Ledger
    <3>3. CASE c # b
      BY SMTT(60), <1>b, <2>c, <2>m, <3>1, <3>3, LedgerKept DEF Handles, Moves
    <3> QED BY <3>2, <3>3
  <2> QED BY <1>b, <2>1, <2>2, <2>3, <2>4, <2>5 DEF agentVars, HeldOnce, LedgerInv
<1> QED BY ZenonT(60), <1>1, <1>2 DEF Ingest

LEMMA ControlKeeps == ASSUME NEW s \in Slots PROVE Keeps(Control(s))
<1> SUFFICES ASSUME UploadInv, Control(s) PROVE UploadInv'
  BY DEF Keeps
<1> USE UploadAssumption DEF UploadInv
<1>a. /\ req[s].at = "stored" /\ UNCHANGED agentVars
      /\ UNCHANGED <<seen, copies, forgot>>
  BY SMTT(60) DEF Control
<1>0. PICK step \in {"ok", "failed"}, status \in {"accepted", "retry"} :
         To(s, step, status) /\ (step = "failed" => status = "retry")
  BY DEF Control
<1>m. Moves(s, step, status)
  BY SMTT(60), <1>0, ToMoves DEF Stages, Statuses
<1>1. Typed'
  BY SMTT(60), <1>a, <1>m DEF Typed, Moves, agentVars
<1>2. HandInv'
  BY SMTT(60), <1>a, <1>m, HandKept
<1>3. StoredInv'
  BY SMTT(60), <1>0, <1>a, <1>m DEF StoredInv, Moves
<1>4. LedgerInv'
  BY SMTT(60), <1>a, <1>m, LedgerKept DEF LedgerInv, Handles, Moves
<1> QED BY SMTT(60), <1>a, <1>1, <1>2, <1>3, <1>4 DEF agentVars, HeldOnce, DeliveredIsStored

LEMMA FinishKeeps == ASSUME NEW s \in Slots PROVE Keeps(Finish(s))
<1> SUFFICES ASSUME UploadInv, Finish(s) PROVE UploadInv'
  BY DEF Keeps
<1> DEFINE b == req[s].batch
           e == IF req[s].at = "ok" THEN "done" ELSE "no"
<1> USE UploadAssumption DEF UploadInv
<1>a. b \in Batches /\ req[s].at \in {"ok", "failed"} /\ req[s] \in Requests
  BY DEF Finish, HandInv, Typed, Requests
<1>b. UNCHANGED agentVars /\ UNCHANGED copies
  BY SMTT(60) DEF Finish
<1>m. Moves(s, "answer", req[s].status)
  <2> DEFINE r == [req[s] EXCEPT !.at = "answer"]
  <2>1. r \in Requests /\ r.batch = b /\ r.at = "answer" /\ r.status = req[s].status
    BY <1>a DEF Requests, Stages
  <2>2. req' = [req EXCEPT ![s] = r]
    BY DEF Finish
  <2> HIDE DEF r
  <2> QED BY <2>1, <2>2 DEF Typed, Moves
<1>e. /\ seen' = [seen EXCEPT ![b] = e]
      /\ forgot' = IF req[s].at = "failed" /\ copies[b] > 0 THEN forgot \cup {b}
                   ELSE forgot
  BY SMTT(60) DEF Finish
<1>1. Typed'
  BY ZenonT(60), <1>a, <1>b, <1>e, <1>m DEF Typed, Moves, agentVars
<1>2. HandInv'
  BY SMTT(60), <1>a, <1>b, <1>m, HandKept
<1>3. StoredInv'
  <2>1. \A t \in Slots : req'[t].at \in {"stored", "ok"} => req'[t] = req[t]
    BY SMTT(60), <1>m DEF Moves
  <2>2. req[s].at = "ok" => copies[b] > 0
    BY SMTT(60) DEF StoredInv
  <2>5. \A t \in Slots : req'[t].at = "failed" => req'[t].status # "accepted"
    BY SMTT(60), <1>m DEF StoredInv, Moves
  <2>3. \A t \in Slots :
           req'[t].at = "answer" /\ req'[t].status = "accepted"
           => copies[req'[t].batch] > 0
    BY SMTT(60), <1>a, <1>m, <2>2 DEF StoredInv, Moves
  <2>4. \A c \in Batches : seen'[c] = "done" => copies[c] > 0
    BY SMTT(60), <1>a, <1>e, <2>2 DEF StoredInv, Typed
  <2> QED BY SMTT(60), <1>b, <2>1, <2>3, <2>4, <2>5 DEF StoredInv
<1>4. ASSUME NEW c \in Batches, c \notin forgot' PROVE Ledger(c)'
  <2>1. Ledger(c)
    BY ZenonT(60), <1>4, <1>e DEF LedgerInv
  <2>2. CASE c = b
    <3>1. Handles(s, c)
      BY SMTT(60), <1>a, <2>2 DEF Handles
    <3>2. seen[c] = "storing" /\ copies[c] <= 1
      BY SMTT(60), <1>a, <2>1, <3>1 DEF Ledger, Typed
    <3>3. \A t \in Slots : ~Handles(t, c)'
      BY ZenonT(60), <1>m, <2>1, <3>1, <3>2 DEF Ledger, Handles, Moves
    <3>4. req[s].at = "failed" => copies[c] = 0
      BY SMTT(60), <1>4, <1>a, <1>e, <2>2 DEF Typed
    <3>5. seen'[c] = e /\ copies'[c] = copies[c]
      BY SMTT(60), <1>a, <1>b, <1>e, <2>2 DEF Typed
    <3> QED BY SMTT(60), <1>a, <3>2, <3>3, <3>4, <3>5 DEF Ledger
  <2>3. CASE c # b
    BY ZenonT(60), <1>a, <1>b, <1>e, <1>m, <2>1, <2>3, LedgerKept DEF Handles, Moves, Typed
  <2> QED BY <2>2, <2>3
<1> QED
  BY ZenonT(60), <1>b, <1>1, <1>2, <1>3, <1>4 DEF agentVars, HeldOnce, DeliveredIsStored, LedgerInv

LEMMA UnheardKeeps == ASSUME NEW s \in Slots PROVE Keeps(Unheard(s))
<1> SUFFICES ASSUME UploadInv, Unheard(s) PROVE UploadInv'
  BY DEF Keeps
<1> USE UploadAssumption DEF UploadInv
<1>1. Typed'
  BY DEF Typed, Requests, Steps, Fates, Stages, Statuses, Unheard, Free, agentVars
<1>2. HandInv'
  BY DEF Typed, Requests, HandInv, Unheard, Free, agentVars
<1>3. HeldOnce'
  BY SMTT(60) DEF Typed, HandInv, HeldOnce, Unheard, Free, agentVars
<1>4. StoredInv'
  BY SMTT(60) DEF Typed, Requests, HandInv, StoredInv, Unheard, Free, agentVars
<1>5. DeliveredIsStored'
  BY SMTT(60) DEF Typed, Requests, HandInv, StoredInv, DeliveredIsStored, Unheard, Free, agentVars
<1>6. LedgerInv'
  <2>1. \A t \in Slots, c \in Batches :
           Handles(t, c)' => Handles(t, c) /\ req'[t] = req[t]
    BY DEF Typed, Requests, Handles, Unheard, Free
  <2>2. UNCHANGED <<seen, copies, forgot>>
    BY DEF Unheard
  <2>3. ASSUME NEW c \in Batches \ forgot PROVE Ledger(c)'
    <3>1. Ledger(c)
      BY DEF LedgerInv
    <3> QED BY <2>1, <2>2, <3>1 DEF Ledger
  <2> QED BY <2>2, <2>3 DEF LedgerInv
<1> QED BY <1>1, <1>2, <1>3, <1>4, <1>5, <1>6

LEMMA ExpireKeeps == ASSUME NEW b \in Batches PROVE Keeps(Expire(b))
<1> SUFFICES ASSUME UploadInv, Expire(b) PROVE UploadInv'
  BY DEF Keeps
<1> USE UploadAssumption DEF UploadInv
<1>a. /\ UNCHANGED <<apc, cur, queue, wait, req>>
      /\ seen' \in [Batches -> {"no", "storing", "done"}] /\ seen'[b] = "no"
      /\ \A c \in Batches \ {b} : seen'[c] = seen[c]
  BY DEF Expire, Typed
<1>1. CASE forgot' = forgot \cup {b} /\ UNCHANGED <<fate, copies>>
  <2>1. Typed'
    BY SMTT(60), <1>1, <1>a DEF Typed
  <2>2. HandInv' /\ HeldOnce' /\ DeliveredIsStored'
    BY ZenonT(60), <1>1, <1>a DEF HandInv, HeldOnce, DeliveredIsStored
  <2>3. StoredInv'
    BY <1>1, <1>a DEF StoredInv
  <2>4. LedgerInv'
    BY ZenonT(60), <1>1, <1>a, LedgerKept DEF LedgerInv, Handles
  <2> QED BY SMTT(60), <2>1, <2>2, <2>3, <2>4
<1>2. CASE /\ ~Outstanding(b) /\ forgot' = forgot \ {b}
           /\ fate' = [fate EXCEPT ![b] = "none"]
           /\ copies' = [copies EXCEPT ![b] = 0]
  <2>1. Typed'
    BY ZenonT(60), <1>2, <1>a DEF Typed, Fates
  <2>2. HandInv'
    BY <1>a DEF HandInv
  <2>3. HeldOnce' /\ DeliveredIsStored'
    BY SMTT(60), <1>2, <1>a DEF Typed, HeldOnce, DeliveredIsStored, Outstanding
  <2>4. StoredInv'
    BY SMTT(60), <1>2, <1>a DEF Typed, StoredInv, Outstanding
  <2>5. ASSUME NEW c \in Batches, c \notin forgot' PROVE Ledger(c)'
    <3>1. CASE c = b
      <4>1. seen'[c] = "no" /\ copies'[c] = 0 /\ \A t \in Slots : ~Handles(t, c)'
        BY SMTT(60), <1>2, <1>a, <3>1 DEF Typed, Outstanding, Handles
      <4> QED BY SMTT(60), <4>1 DEF Ledger
    <3>2. CASE c # b
      BY ZenonT(60), <1>2, <1>a, <2>5, <3>2, LedgerKept DEF Typed, LedgerInv, Handles
    <3> QED BY SMTT(60), <3>1, <3>2
  <2> QED BY SMTT(60), <2>1, <2>2, <2>3, <2>4, <2>5 DEF LedgerInv
<1> QED BY SMTT(60), <1>1, <1>2 DEF Expire

LEMMA HubStopKeeps == Keeps(HubStop)
<1> SUFFICES ASSUME UploadInv, HubStop PROVE UploadInv'
  BY DEF Keeps
<1> USE UploadAssumption DEF UploadInv
<1>1. Typed'
  BY SMTT(60) DEF Typed, Requests, Steps, Fates, Stages, Statuses, HubStop, Free, Known, agentVars
<1>2. HandInv'
  BY SMTT(60) DEF Typed, Requests, HandInv, HubStop, Free, Known, agentVars
<1>3. HeldOnce'
  BY SMTT(60) DEF Typed, HandInv, HeldOnce, HubStop, Free, Known, agentVars
<1>4. StoredInv'
  BY SMTT(60) DEF Typed, Requests, HandInv, StoredInv, HubStop, Free, Known, agentVars
<1>5. DeliveredIsStored'
  BY SMTT(60) DEF Typed, Requests, HandInv, StoredInv, DeliveredIsStored, HubStop, Free, Known, agentVars
<1>6. LedgerInv'
  BY SMTT(60) DEF Typed, Requests, HandInv, StoredInv, LedgerInv, Ledger, Handles, HubStop, Free, Known, agentVars
<1> QED BY <1>1, <1>2, <1>3, <1>4, <1>5, <1>6

LEMMA HubStartKeeps == Keeps(HubStart)
<1> SUFFICES ASSUME UploadInv, HubStart PROVE UploadInv'
  BY DEF Keeps
<1> USE UploadAssumption DEF UploadInv
<1>1. Typed'
  BY SMTT(60) DEF Typed, Requests, Steps, Fates, Stages, Statuses, HubStart, agentVars
<1>2. HandInv'
  BY SMTT(60) DEF Typed, Requests, HandInv, HubStart, agentVars
<1>3. HeldOnce'
  BY SMTT(60) DEF Typed, HandInv, HeldOnce, HubStart, agentVars
<1>4. StoredInv'
  BY SMTT(60) DEF Typed, Requests, HandInv, StoredInv, HubStart, agentVars
<1>5. DeliveredIsStored'
  BY SMTT(60) DEF Typed, Requests, HandInv, StoredInv, DeliveredIsStored, HubStart, agentVars
<1>6. LedgerInv'
  BY DEF Typed, Requests, HandInv, StoredInv, LedgerInv, Ledger, Handles, HubStart, agentVars
<1> QED BY <1>1, <1>2, <1>3, <1>4, <1>5, <1>6

-----------------------------------------------------------------------------
LEMMA InitInv == Init => UploadInv
<1> SUFFICES ASSUME Init PROVE UploadInv
  BY SMTT(60)
<1> USE UploadAssumption
<1>1. Free \in Requests /\ Free.at = "free" /\ Free.batch = NoBatch
  BY SMTT(60) DEF Free, Requests, Stages, Statuses
<1>2. Typed
  BY SMTT(60), <1>1 DEF Init, Typed, Steps, Fates
<1>3. HandInv /\ StoredInv
  BY SMTT(60), <1>1 DEF Init, HandInv, StoredInv
<1>4. HeldOnce /\ DeliveredIsStored
  BY SMTT(60) DEF Init, HeldOnce, DeliveredIsStored
<1>5. LedgerInv
  BY SMTT(60), <1>1 DEF Init, LedgerInv, Ledger, Handles
<1> QED BY <1>2, <1>3, <1>4, <1>5 DEF UploadInv

LEMMA StutterKeeps == Keeps(UNCHANGED vars)
<1> SUFFICES ASSUME UploadInv, UNCHANGED vars PROVE UploadInv'
  BY DEF Keeps
<1>1. /\ apc' = apc /\ cur' = cur /\ queue' = queue /\ wait' = wait /\ fate' = fate
      /\ req' = req /\ seen' = seen /\ copies' = copies /\ forgot' = forgot
  BY DEF vars, agentVars, hubVars
<1>2. Typed' /\ HandInv'
  BY <1>1 DEF UploadInv, Typed, HandInv
<1>3. HeldOnce'
  <2>1. HeldOnce
    BY DEF UploadInv
  <2> QED BY <1>1, <2>1 DEF HeldOnce
<1>4. DeliveredIsStored'
  BY <1>1 DEF UploadInv, DeliveredIsStored
<1>5. StoredInv'
  BY <1>1 DEF UploadInv, StoredInv
<1>6. LedgerInv'
  BY <1>1 DEF UploadInv, LedgerInv, Ledger, Handles
<1> QED BY <1>2, <1>3, <1>4, <1>5, <1>6 DEF UploadInv

(* The inductive invariant holds in every reachable state, whatever the       *)
(* order of the agent's steps, the handlers, the losses and the restarts.     *)
THEOREM UploadInvariant == Spec => []UploadInv
<1>1. ASSUME UploadInv, [Next]_vars PROVE UploadInv'
  <2>1. CASE AgentNext
    BY SMTT(60), <1>1, <2>1, BeatKeeps, StopKeeps, AcceptedKeeps, NotTakenKeeps,
       RefusedKeeps, DropOldestKeeps, PushKeeps, ReplayDropsAllKeeps,
       ReplayPostKeeps, ReplayEndsKeeps, ReplayAnsweredKeeps, AgentRestartKeeps
       DEF AgentNext, Keeps
  <2>2. CASE HubNext
    BY <1>1, <2>2, BeginKeeps, RejectKeeps, IngestKeeps, ControlKeeps,
       FinishKeeps, UnheardKeeps, ExpireKeeps, HubStopKeeps, HubStartKeeps
       DEF HubNext, Keeps
  <2> QED BY <1>1, <2>1, <2>2, StutterKeeps DEF Next, Keeps
<1> QED BY InitInv, <1>1, PTL DEF Spec

(* SendTelemetryBatch never mislays a batch, for any budgets and any faults.  *)
THEOREM NeverMislaid == Spec => []HeldOnce
BY UploadInvariant, PTL DEF UploadInv

(* What the agent lets go as delivered is in the hub's database: the reply    *)
(* "duplicate" of handleEvents never speaks for a batch that is not stored.   *)
THEOREM NeverFalselyDelivered == Spec => []DeliveredIsStored
BY UploadInvariant, PTL DEF UploadInv

(* batchLedger: a batch is inserted at most once while its id is remembered,  *)
(* although a replay may arrive while the first request is still storing it.  *)
THEOREM NeverStoredTwice == Spec => []StoredOnce
<1>1. UploadInv => StoredOnce
  <2> SUFFICES ASSUME UploadInv, NEW b \in Batches, b \notin forgot
               PROVE  ~(copies[b] > 1)
    BY SMTT(60) DEF StoredOnce
  <2>1. Ledger(b) /\ copies[b] \in Nat /\ seen[b] \in {"no", "storing", "done"}
    BY DEF UploadInv, LedgerInv, Typed
  <2> QED BY <2>1 DEF Ledger
<1> QED BY UploadInvariant, <1>1, PTL
=============================================================================
