------------------------ MODULE TerminalSessionProofs ------------------------
(***************************************************************************)
(* The safety properties of TerminalSession for any number of operator     *)
(* requests, any limits and any of the other requests at work.             *)
(***************************************************************************)
EXTENDS TerminalSession, TLAPS

-----------------------------------------------------------------------------
(* Type correctness, the Boolean variables apart. *)

FlagsOK ==
    /\ opConnected \in BOOLEAN /\ agConnected \in BOOLEAN /\ token \in BOOLEAN
    /\ dirty \in BOOLEAN /\ detached \in BOOLEAN /\ finalized \in BOOLEAN
    /\ cRelay \in BOOLEAN

DataOK ==
    /\ now \in Nat /\ idle \in Nat /\ idleRow \in Nat
    /\ state \in States /\ row \in States
    /\ rec \in RecordingStates /\ recRow \in RecordingStates
    /\ frames \in Nat /\ sealed \in Nat /\ appended \in Nat
    /\ relay \in {"none", "open", "closed"}
    /\ closing \in {"no", "memory", "row", "sockets", "seal", "done"}
    /\ opStop \in Viewers \cup {NoOne}
    /\ stopped \subseteq Viewers /\ socks \subseteq Viewers
    /\ agSock \in {"none", "open", "closed"}
    /\ vpc \in [Viewers -> ViewerSteps]
    /\ snap \in [Viewers -> [state : States, idle : Nat]]
    /\ dpc \in [Detachers -> DetachSteps]
    /\ dOwner \in [Detachers -> Viewers \cup {NoOne}]
    /\ dTaken \in [Detachers -> Viewers \cup {NoOne}]
    /\ dState \in [Detachers -> States]
    /\ apc \in {"idle", "claimed", "upgrading", "pump", "read", "forward",
                "closing", "gone"}
    /\ aState \in States
    /\ cpc \in {"idle", "row", "relay", "seal", "done"}
    /\ spc \in {"idle", "flush", "select", "idlers", "elders", "fail", "expire",
                "memory", "relay", "seal"}
    /\ cutoff \in Nat
    /\ flush \in [idle : Nat, rec : RecordingStates]
    /\ picks \subseteq {"failed", "expired"}
    /\ reads \in Nat /\ restarts \in Nat
    \* a detach that is about to stop an attachment has taken one
    /\ \A t \in Detachers : dpc[t] = "stop" => dTaken[t] \in Viewers

\* Every step keeps the Boolean variables Boolean.
LEMMA FlagsStep == FlagsOK /\ [Next]_vars => FlagsOK'
<1> USE DEF FlagsOK,
        vars, sessVars, connVars, idleVars, recVars, rowVars, relayVars, onceVars,
        attachVars, sockVars, viewerVars, detachVars, agentVars, closeVars,
        sweepVars, clockVars, OthersFrame, ViewerFrame, DetachFrame,
        AgentFrame, CloseFrame, SweepFrame
<1> SUFFICES ASSUME FlagsOK, [Next]_vars PROVE FlagsOK'
    OBVIOUS
<1>1. CASE Tick
  BY <1>1, Zenon DEF Tick
<1>2. CASE Restart
  BY <1>2, Zenon DEF Restart
<1>3. CASE RotateOperatorToken
  BY <1>3, Zenon DEF RotateOperatorToken
<1>4. CASE DetachSession
  BY <1>4, Zenon DEF DetachSession, StartDetach
<1>5. CASE AgentClaims
  BY <1>5, Zenon DEF AgentClaims
<1>6. CASE AgentWriteState
  BY <1>6, Zenon DEF AgentWriteState
<1>7. CASE AgentInstalls
  BY <1>7, Zenon DEF AgentInstalls
<1>8. CASE AgentUpgradeFails
  BY <1>8, Zenon DEF AgentUpgradeFails
<1>9. CASE AgentReads
  BY <1>9, Zenon DEF AgentReads
<1>10. CASE AgentRecords
  BY <1>10, Zenon DEF AgentRecords, RecordFrame
<1>11. CASE AgentForwards
  BY <1>11, Zenon DEF AgentForwards
<1>12. CASE AgentLeaves
  BY <1>12, Zenon DEF AgentLeaves, CallClose, BeginClose
<1>13. CASE AgentWriteFails
  BY <1>13, Zenon DEF AgentWriteFails, BeginClose
<1>14. CASE AgentReturns
  BY <1>14, Zenon DEF AgentReturns
<1>15. CASE CloseMemory
  BY <1>15, Zenon DEF CloseMemory
<1>16. CASE CloseRow
  BY <1>16, Zenon DEF CloseRow
<1>17. CASE CloseSockets
  BY <1>17, Zenon DEF CloseSockets
<1>18. CASE CloseSeal
  BY <1>18, Zenon DEF CloseSeal, Seal
<1>19. CASE CloseSession
  BY <1>19, Zenon DEF CloseSession
<1>20. CASE CloseSessionRow
  BY <1>20, Zenon DEF CloseSessionRow
<1>21. CASE CloseSessionRelay
  BY <1>21, Zenon DEF CloseSessionRelay, BeginClose
<1>22. CASE CloseSessionSeal
  BY <1>22, Zenon DEF CloseSessionSeal, Seal
<1>23. CASE SweepStart
  BY <1>23, Zenon DEF SweepStart
<1>24. CASE SweepFlush
  BY <1>24, Zenon DEF SweepFlush
<1>25. CASE SweepConnect
  BY <1>25, Zenon DEF SweepConnect, Add
<1>26. CASE SweepIdle
  BY <1>26, Zenon DEF SweepIdle, Add
<1>27. CASE SweepDuration
  BY <1>27, Zenon DEF SweepDuration, Add
<1>28. CASE SweepFail
  BY <1>28, Zenon DEF SweepFail, SweepRow
<1>29. CASE SweepExpire
  BY <1>29, Zenon DEF SweepExpire, SweepRow
<1>30. CASE SweepMemory
  BY <1>30, Zenon DEF SweepMemory, Swept
<1>31. CASE SweepRelay
  BY <1>31, Zenon DEF SweepRelay, BeginClose
<1>32. CASE SweepSeal
  BY <1>32, Zenon DEF SweepSeal, Seal
<1>33. ASSUME NEW t \in Detachers, DetachCheck(t) PROVE FlagsOK'
  BY <1>33, Zenon DEF DetachCheck, DetachReturns
<1>34. ASSUME NEW t \in Detachers, DetachTake(t) PROVE FlagsOK'
  BY <1>34, Zenon DEF DetachTake, DetachReturns, NotMine
<1>35. ASSUME NEW t \in Detachers, DetachStop(t) PROVE FlagsOK'
  BY <1>35, Zenon DEF DetachStop
<1>36. ASSUME NEW t \in Detachers, DetachMark(t) PROVE FlagsOK'
  BY <1>36, Zenon DEF DetachMark, AfterDetach
<1>37. ASSUME NEW t \in Detachers, DetachWrite(t) PROVE FlagsOK'
  BY <1>37, Zenon DEF DetachWrite
<1>38. ASSUME NEW t \in Detachers, DetachShut(t) PROVE FlagsOK'
  BY <1>38, Zenon DEF DetachShut, DetachReturns
<1>39. ASSUME NEW v \in Viewers, ConsumeToken(v) PROVE FlagsOK'
  BY <1>39, Zenon DEF ConsumeToken, Goto
<1>40. ASSUME NEW v \in Viewers, Admit(v) PROVE FlagsOK'
  BY <1>40, Zenon DEF Admit, Goto, StartDetach, Free, Claim, Refuse
<1>41. ASSUME NEW v \in Viewers, Readmit(v) PROVE FlagsOK'
  BY <1>41, Zenon DEF Readmit, Goto, Free, Claim, Refuse
<1>42. ASSUME NEW v \in Viewers, WriteState(v) PROVE FlagsOK'
  BY <1>42, Zenon DEF WriteState, Goto
<1>43. ASSUME NEW v \in Viewers, WriteIdle(v) PROVE FlagsOK'
  BY <1>43, Zenon DEF WriteIdle, Goto
<1>44. ASSUME NEW v \in Viewers, Install(v) PROVE FlagsOK'
  BY <1>44, Zenon DEF Install, Goto
<1>45. ASSUME NEW v \in Viewers, UpgradeFails(v) PROVE FlagsOK'
  BY <1>45, Zenon DEF UpgradeFails, Goto
<1>46. ASSUME NEW v \in Viewers, Resume(v) PROVE FlagsOK'
  BY <1>46, Zenon DEF Resume, Goto
<1>47. ASSUME NEW v \in Viewers, ViewerReads(v) PROVE FlagsOK'
  BY <1>47, Zenon DEF ViewerReads, Goto
<1>48. ASSUME NEW v \in Viewers, ViewerRecords(v) PROVE FlagsOK'
  BY <1>48, Zenon DEF ViewerRecords, RecordFrame, Goto
<1>49. ASSUME NEW v \in Viewers, ViewerForwards(v) PROVE FlagsOK'
  BY <1>49, Zenon DEF ViewerForwards, Goto
<1>50. ASSUME NEW v \in Viewers, ViewerLeaves(v) PROVE FlagsOK'
  BY <1>50, Zenon DEF ViewerLeaves, Goto, StartDetach
<1>51. ASSUME NEW v \in Viewers, WritePumpFails(v) PROVE FlagsOK'
  BY <1>51, Zenon DEF WritePumpFails, StartDetach
<1>52. ASSUME NEW v \in Viewers, ViewerEndsSession(v) PROVE FlagsOK'
  BY <1>52, Zenon DEF ViewerEndsSession, CallClose, BeginClose, Goto
<1>53. ASSUME NEW v \in Viewers, ViewerReturns(v) PROVE FlagsOK'
  BY <1>53, Zenon DEF ViewerReturns, Goto
<1>54. CASE UNCHANGED vars
  BY <1>54, Zenon
<1> QED
  BY ZenonT(30), <1>1, <1>2, <1>3, <1>4, <1>5, <1>6, <1>7, <1>8, <1>9, <1>10, <1>11,
     <1>12, <1>13, <1>14, <1>15, <1>16, <1>17, <1>18, <1>19, <1>20, <1>21,
     <1>22, <1>23, <1>24, <1>25, <1>26, <1>27, <1>28, <1>29, <1>30, <1>31,
     <1>32, <1>33, <1>34, <1>35, <1>36, <1>37, <1>38, <1>39, <1>40, <1>41,
     <1>42, <1>43, <1>44, <1>45, <1>46, <1>47, <1>48, <1>49, <1>50, <1>51,
     <1>52, <1>53, <1>54 DEF Next, Sweep, Detach, ViewerProceeds

\* Every step keeps the other variables in their sets.
LEMMA DataStep == DataOK /\ [Next]_vars => DataOK'
<1> USE SessionAssumption
    DEF DataOK, States, LiveStates, EndedStates, RecordingStates, ViewerSteps,
        DetachSteps, Detachers, NoSnap, NoFlush,
        vars, sessVars, connVars, idleVars, recVars, rowVars, relayVars, onceVars,
        attachVars, sockVars, viewerVars, detachVars, agentVars, closeVars,
        sweepVars, clockVars, OthersFrame, ViewerFrame, DetachFrame,
        AgentFrame, CloseFrame, SweepFrame
<1> SUFFICES ASSUME DataOK, [Next]_vars PROVE DataOK'
    OBVIOUS
<1>1. CASE Tick
  BY <1>1 DEF Tick
<1>2. CASE Restart
  BY <1>2 DEF Restart
<1>3. CASE RotateOperatorToken
  BY <1>3 DEF RotateOperatorToken
<1>4. CASE DetachSession
  BY <1>4 DEF DetachSession, StartDetach
<1>5. CASE AgentClaims
  BY <1>5 DEF AgentClaims
<1>6. CASE AgentWriteState
  BY <1>6 DEF AgentWriteState
<1>7. CASE AgentInstalls
  BY <1>7 DEF AgentInstalls
<1>8. CASE AgentUpgradeFails
  BY <1>8 DEF AgentUpgradeFails
<1>9. CASE AgentReads
  BY <1>9 DEF AgentReads
<1>10. CASE AgentRecords
  BY <1>10 DEF AgentRecords, RecordFrame
<1>11. CASE AgentForwards
  BY <1>11 DEF AgentForwards
<1>12. CASE AgentLeaves
  BY <1>12 DEF AgentLeaves, CallClose, BeginClose
<1>13. CASE AgentWriteFails
  BY <1>13 DEF AgentWriteFails, BeginClose
<1>14. CASE AgentReturns
  BY <1>14 DEF AgentReturns
<1>15. CASE CloseMemory
  BY <1>15 DEF CloseMemory
<1>16. CASE CloseRow
  BY <1>16 DEF CloseRow
<1>17. CASE CloseSockets
  BY <1>17 DEF CloseSockets
<1>18. CASE CloseSeal
  BY <1>18 DEF CloseSeal, Seal
<1>19. CASE CloseSession
  BY <1>19 DEF CloseSession
<1>20. CASE CloseSessionRow
  BY <1>20 DEF CloseSessionRow
<1>21. CASE CloseSessionRelay
  BY <1>21 DEF CloseSessionRelay, BeginClose
<1>22. CASE CloseSessionSeal
  BY <1>22 DEF CloseSessionSeal, Seal
<1>23. CASE SweepStart
  BY <1>23 DEF SweepStart
<1>24. CASE SweepFlush
  BY <1>24 DEF SweepFlush
<1>25. CASE SweepConnect
  BY <1>25 DEF SweepConnect, Add
<1>26. CASE SweepIdle
  BY <1>26 DEF SweepIdle, Add
<1>27. CASE SweepDuration
  BY <1>27 DEF SweepDuration, Add
<1>28. CASE SweepFail
  BY <1>28 DEF SweepFail, SweepRow
<1>29. CASE SweepExpire
  BY <1>29 DEF SweepExpire, SweepRow
<1>30. CASE SweepMemory
  BY <1>30 DEF SweepMemory, Swept
<1>31. CASE SweepRelay
  BY <1>31 DEF SweepRelay, BeginClose
<1>32. CASE SweepSeal
  BY <1>32 DEF SweepSeal, Seal
<1>33. ASSUME NEW t \in Detachers, DetachCheck(t) PROVE DataOK'
  BY <1>33 DEF DetachCheck, DetachReturns
<1>34. ASSUME NEW t \in Detachers, DetachTake(t) PROVE DataOK'
  <2>1. CASE NotMine(t) /\ DetachReturns(t) /\ UNCHANGED opStop
    BY <1>34, <2>1 DEF DetachTake, DetachReturns
  <2>2. CASE ~NotMine(t)
    BY <1>34, <2>2 DEF DetachTake, NotMine
  <2> QED BY <1>34, <2>1, <2>2 DEF DetachTake
<1>35. ASSUME NEW t \in Detachers, DetachStop(t) PROVE DataOK'
  BY <1>35 DEF DetachStop
<1>36. ASSUME NEW t \in Detachers, DetachMark(t) PROVE DataOK'
  BY <1>36 DEF DetachMark, AfterDetach
<1>37. ASSUME NEW t \in Detachers, DetachWrite(t) PROVE DataOK'
  BY <1>37 DEF DetachWrite
<1>38. ASSUME NEW t \in Detachers, DetachShut(t) PROVE DataOK'
  BY <1>38 DEF DetachShut, DetachReturns
<1>39. ASSUME NEW v \in Viewers, ConsumeToken(v) PROVE DataOK'
  BY <1>39 DEF ConsumeToken, Goto
<1>40. ASSUME NEW v \in Viewers, Admit(v) PROVE DataOK'
  BY <1>40 DEF Admit, Goto, StartDetach, Free, Claim, Refuse
<1>41. ASSUME NEW v \in Viewers, Readmit(v) PROVE DataOK'
  <2>1. CASE Free /\ Claim(v)
    BY <1>41, <2>1 DEF Readmit, Goto, Claim
  <2>2. CASE ~Free /\ Refuse(v)
    BY <1>41, <2>2 DEF Readmit, Goto, Refuse
  <2> QED BY <1>41, <2>1, <2>2 DEF Readmit
<1>42. ASSUME NEW v \in Viewers, WriteState(v) PROVE DataOK'
  BY <1>42 DEF WriteState, Goto
<1>43. ASSUME NEW v \in Viewers, WriteIdle(v) PROVE DataOK'
  BY <1>43 DEF WriteIdle, Goto
<1>44. ASSUME NEW v \in Viewers, Install(v) PROVE DataOK'
  BY <1>44 DEF Install, Goto
<1>45. ASSUME NEW v \in Viewers, UpgradeFails(v) PROVE DataOK'
  BY <1>45 DEF UpgradeFails, Goto
<1>46. ASSUME NEW v \in Viewers, Resume(v) PROVE DataOK'
  BY <1>46 DEF Resume, Goto
<1>47. ASSUME NEW v \in Viewers, ViewerReads(v) PROVE DataOK'
  BY <1>47 DEF ViewerReads, Goto
<1>48. ASSUME NEW v \in Viewers, ViewerRecords(v) PROVE DataOK'
  BY <1>48 DEF ViewerRecords, RecordFrame, Goto
<1>49. ASSUME NEW v \in Viewers, ViewerForwards(v) PROVE DataOK'
  BY <1>49 DEF ViewerForwards, Goto
<1>50. ASSUME NEW v \in Viewers, ViewerLeaves(v) PROVE DataOK'
  BY <1>50 DEF ViewerLeaves, Goto, StartDetach
<1>51. ASSUME NEW v \in Viewers, WritePumpFails(v) PROVE DataOK'
  BY <1>51 DEF WritePumpFails, StartDetach
<1>52. ASSUME NEW v \in Viewers, ViewerEndsSession(v) PROVE DataOK'
  BY <1>52 DEF ViewerEndsSession, CallClose, BeginClose, Goto
<1>53. ASSUME NEW v \in Viewers, ViewerReturns(v) PROVE DataOK'
  BY <1>53 DEF ViewerReturns, Goto
<1>54. CASE UNCHANGED vars
  BY <1>54
<1> QED
  BY ZenonT(30), <1>1, <1>2, <1>3, <1>4, <1>5, <1>6, <1>7, <1>8, <1>9, <1>10, <1>11,
     <1>12, <1>13, <1>14, <1>15, <1>16, <1>17, <1>18, <1>19, <1>20, <1>21,
     <1>22, <1>23, <1>24, <1>25, <1>26, <1>27, <1>28, <1>29, <1>30, <1>31,
     <1>32, <1>33, <1>34, <1>35, <1>36, <1>37, <1>38, <1>39, <1>40, <1>41,
     <1>42, <1>43, <1>44, <1>45, <1>46, <1>47, <1>48, <1>49, <1>50, <1>51,
     <1>52, <1>53, <1>54 DEF Next, Sweep, Detach, ViewerProceeds

\* Initially.
LEMMA TypeInit == Init => FlagsOK /\ DataOK
<1> SUFFICES ASSUME Init PROVE FlagsOK /\ DataOK
    OBVIOUS
<1>1. FlagsOK
  BY Zenon DEF Init, FlagsOK
<1>2. DataOK
  BY SessionAssumption
     DEF Init, DataOK, States, LiveStates, EndedStates, RecordingStates,
         ViewerSteps, DetachSteps, Detachers, NoSnap, NoFlush
<1> QED BY <1>1, <1>2

\* The two parts, kept by every behaviour.
LEMMA TypesKept == Spec => [](FlagsOK /\ DataOK)
<1>1. FlagsOK /\ DataOK /\ [Next]_vars => (FlagsOK /\ DataOK)'
  BY FlagsStep, DataStep
<1> QED BY <1>1, TypeInit, PTL DEF Spec

\* The session, its row, the relay and every goroutine working on them keep
\* to the values TypeOK gives; in particular detachAttachment never closes the
\* stop channel of no attachment.
THEOREM TypeCorrect == Spec => []TypeOK
<1>1. FlagsOK /\ DataOK => TypeOK
  BY DEF FlagsOK, DataOK, TypeOK
<1> QED BY <1>1, TypesKept, PTL

-----------------------------------------------------------------------------
(* Who is the operator.  A claim, an attachment and a detach that is under *)
(* way exclude each other, and opConnected covers all three.               *)

Claiming(v) == vpc[v] \in {"claimed", "stored", "upgrading"}
Taking(t) == dpc[t] \in {"stop", "mark"}
NobodyTaking == \A t \in Detachers : ~Taking(t)

HandInv ==
    /\ \A v, w \in Viewers : Claiming(v) /\ Claiming(w) => v = w
    /\ \A t, u \in Detachers : Taking(t) /\ Taking(u) => t = u
    /\ \A v \in Viewers :
          Claiming(v) => opConnected /\ opStop = NoOne /\ NobodyTaking
    /\ opStop # NoOne => opConnected /\ NobodyTaking
    /\ \A t \in Detachers : Taking(t) => opConnected

\* An attachment that was not stopped owns the relay, or is about to be.
AttachInv ==
    /\ OperatorIsFed
    /\ \A v \in Viewers :
          Attached(v) /\ v \notin stopped =>
              \/ opStop = v
              \/ \E t \in Detachers : dpc[t] = "stop" /\ dTaken[t] = v

\* Whose detach it is.
DetachInv ==
    /\ SuccessorLeftAlone
    /\ \A v \in Viewers :
          dpc[v] # "no" =>
              /\ vpc[v] \notin {"idle", "opened", "claimed", "stored",
                                "upgrading", "installed"}
              /\ \/ dOwner[v] = v
                 \/ dOwner[v] = NoOne /\ vpc[v] = "superseding"
    /\ \A t \in Detachers : dpc[t] = "no" => dTaken[t] = NoOne

OperatorInv == HandInv /\ AttachInv /\ DetachInv

operatorVars == <<opConnected, opStop, stopped, detached, vpc, dpc, dOwner,
                  dTaken>>

\* A step that leaves these variables alone keeps the invariant.
LEMMA OperatorFrame == OperatorInv /\ UNCHANGED operatorVars => OperatorInv'
BY DEF OperatorInv, HandInv, AttachInv, DetachInv, OperatorIsFed,
       SuccessorLeftAlone, Claiming, Taking, NobodyTaking, Attached,
       operatorVars

HandTypes ==
    /\ vpc \in [Viewers -> ViewerSteps]
    /\ dpc \in [Detachers -> DetachSteps]
    /\ dOwner \in [Detachers -> Viewers \cup {NoOne}]
    /\ dTaken \in [Detachers -> Viewers \cup {NoOne}]
    /\ opStop \in Viewers \cup {NoOne}

\* A viewer that goes on within its stage, or gives up, keeps it.
LEMMA ViewerMoves ==
    ASSUME HandTypes, OperatorInv, NEW v \in Viewers, NEW p \in ViewerSteps,
           vpc' = [vpc EXCEPT ![v] = p],
           UNCHANGED <<opConnected, opStop, stopped, detached, dpc, dOwner,
                       dTaken>>,
           p \notin {"idle", "superseding", "installed"},
           p = "opened" => vpc[v] = "idle",
           p \in {"claimed", "stored", "upgrading"} => Claiming(v),
           p \in {"pump", "read", "forward"} =>
               vpc[v] \in {"pump", "read", "forward"},
           vpc[v] = "superseding" => dpc[v] = "no"
    PROVE  OperatorInv'
<1> USE DEF HandTypes, Detachers, OperatorInv
<1>1. HandInv'
  BY DEF HandInv, Claiming, Taking, NobodyTaking
<1>2. AttachInv'
  <2>1. OperatorIsFed'
    BY DEF AttachInv, OperatorIsFed, Attached
  <2>2. ASSUME NEW w \in Viewers, Attached(w)', w \notin stopped'
        PROVE  \/ opStop' = w
               \/ \E t \in Detachers : dpc'[t] = "stop" /\ dTaken'[t] = w
    <3>1. Attached(w) /\ w \notin stopped
      BY <2>2 DEF Attached
    <3> QED BY <3>1 DEF AttachInv
  <2> QED BY <2>1, <2>2 DEF AttachInv
<1>3. DetachInv'
  <2>1. SuccessorLeftAlone'
    BY DEF DetachInv, SuccessorLeftAlone
  <2>2. \A t \in Detachers : dpc'[t] = "no" => dTaken'[t] = NoOne
    BY DEF DetachInv
  <2>3. ASSUME NEW w \in Viewers, dpc'[w] # "no"
        PROVE  /\ vpc'[w] \notin {"idle", "opened", "claimed", "stored",
                                  "upgrading", "installed"}
               /\ \/ dOwner'[w] = w
                  \/ dOwner'[w] = NoOne /\ vpc'[w] = "superseding"
    BY <2>3 DEF DetachInv, Claiming
  <2> QED BY <2>1, <2>2, <2>3 DEF DetachInv
<1> QED BY <1>1, <1>2, <1>3

\* So does one that becomes the operator of a session that has none.
LEMMA ViewerClaims ==
    ASSUME HandTypes, OperatorInv, NEW v \in Viewers,
           ~opConnected, opConnected', dpc[v] = "no",
           vpc' = [vpc EXCEPT ![v] = "claimed"],
           UNCHANGED <<opStop, stopped, detached, dpc, dOwner, dTaken>>
    PROVE  OperatorInv'
<1> USE DEF HandTypes, Detachers, OperatorInv
<1>1. opStop = NoOne /\ NobodyTaking /\ \A w \in Viewers : ~Claiming(w)
  BY DEF HandInv, NobodyTaking
<1>2. HandInv'
  BY <1>1 DEF HandInv, Claiming, Taking, NobodyTaking
<1>3. AttachInv'
  BY <1>1 DEF AttachInv, OperatorIsFed, Attached, NobodyTaking, Taking
<1>4. DetachInv'
  BY DEF DetachInv, SuccessorLeftAlone
<1> QED BY <1>2, <1>3, <1>4

\* A detach that holds nothing leaves the attachments as they are.
LEMMA DetachHoldsNothing ==
    ASSUME HandTypes, AttachInv, NEW t \in Detachers, dpc[t] # "stop",
           \A u \in Detachers :
               u # t => dpc'[u] = dpc[u] /\ dTaken'[u] = dTaken[u],
           UNCHANGED <<opStop, stopped, detached, vpc>>
    PROVE  AttachInv'
<1>1. OperatorIsFed'
  BY DEF AttachInv, OperatorIsFed, Attached
<1>2. ASSUME NEW w \in Viewers, Attached(w)', w \notin stopped', opStop' # w
      PROVE  \E u \in Detachers : dpc'[u] = "stop" /\ dTaken'[u] = w
  <2>1. Attached(w) /\ w \notin stopped /\ opStop # w
    BY <1>2 DEF Attached
  <2>2. PICK u \in Detachers : dpc[u] = "stop" /\ dTaken[u] = w
    BY <2>1 DEF AttachInv
  <2> QED BY <2>2
<1> QED BY <1>1, <1>2 DEF AttachInv

\* A detach that takes the attachment, or stops the one it took.
LEMMA DetachTakes ==
    ASSUME HandTypes, OperatorInv, NEW t \in Detachers,
           dpc[t] = "take", ~NotMine(t),
           dpc' = [dpc EXCEPT ![t] = "stop"],
           dTaken' = [dTaken EXCEPT ![t] = opStop], opStop' = NoOne,
           UNCHANGED <<opConnected, stopped, detached, vpc, dOwner>>
    PROVE  AttachInv' /\ DetachInv'
<1> USE DEF HandTypes, Detachers, OperatorInv
<1>1. AttachInv'
  <2>1. OperatorIsFed'
    BY SessionAssumption DEF OperatorIsFed
  <2>2. ASSUME NEW w \in Viewers, Attached(w)', w \notin stopped'
        PROVE  \E u \in Detachers : dpc'[u] = "stop" /\ dTaken'[u] = w
    <3>1. Attached(w) /\ w \notin stopped
      BY <2>2 DEF Attached
    <3>2. CASE opStop = w
      BY <3>2
    <3>3. CASE \E u \in Detachers : dpc[u] = "stop" /\ dTaken[u] = w
      <4>1. PICK u \in Detachers : dpc[u] = "stop" /\ dTaken[u] = w
        BY <3>3
      <4>2. u # t
        BY <4>1
      <4> QED BY <4>1, <4>2
    <3> QED BY <3>1, <3>2, <3>3 DEF AttachInv
  <2> QED BY <2>1, <2>2 DEF AttachInv
<1>2. SuccessorLeftAlone'
  <2> SUFFICES ASSUME NEW v \in Viewers, dTaken'[v] \notin {NoOne, v}
               PROVE  vpc'[v] = "superseding"
    BY DEF SuccessorLeftAlone
  <2>1. CASE v # t
    BY <2>1 DEF DetachInv, SuccessorLeftAlone
  <2>2. CASE v = t
    <3>0. dTaken'[v] = opStop
      BY <2>2
    <3>1. opStop \notin {NoOne, v} /\ dOwner[v] \in {NoOne, opStop}
      BY <2>2, <3>0 DEF NotMine
    <3>2. dOwner[v] = v \/ (dOwner[v] = NoOne /\ vpc[v] = "superseding")
      BY <2>2 DEF DetachInv
    <3> QED BY <3>1, <3>2, SessionAssumption
  <2> QED BY <2>1, <2>2
<1>3. DetachInv'
  BY <1>2 DEF DetachInv
<1> QED BY <1>1, <1>3

LEMMA DetachStops ==
    ASSUME HandTypes, OperatorInv, NEW t \in Detachers, dpc[t] = "stop",
           dpc' = [dpc EXCEPT ![t] = "mark"],
           stopped' = stopped \cup {dTaken[t]},
           UNCHANGED <<opConnected, opStop, vpc, dOwner, dTaken>>
    PROVE  AttachInv'
<1> USE DEF HandTypes, Detachers, OperatorInv
<1>1. opStop = NoOne
  BY DEF HandInv, NobodyTaking, Taking
<1>2. OperatorIsFed'
  BY <1>1, SessionAssumption DEF OperatorIsFed
<1>3. ASSUME NEW w \in Viewers, Attached(w)', w \notin stopped'
      PROVE  \E u \in Detachers : dpc'[u] = "stop" /\ dTaken'[u] = w
  <2>1. Attached(w) /\ w \notin stopped /\ dTaken[t] # w /\ opStop # w
    BY <1>1, <1>3, SessionAssumption DEF Attached
  <2>2. PICK u \in Detachers : dpc[u] = "stop" /\ dTaken[u] = w
    BY <2>1 DEF AttachInv
  <2> QED BY <2>1, <2>2
<1> QED BY <1>2, <1>3 DEF AttachInv

\* And a detach that begins, whoever calls it.
LEMMA DetachBegins ==
    ASSUME HandTypes, OperatorInv, NEW t \in Detachers,
           NEW owner \in Viewers \cup {NoOne}, dpc[t] = "no",
           dpc' = [dpc EXCEPT ![t] = "check"],
           dOwner' = [dOwner EXCEPT ![t] = owner],
           UNCHANGED <<opConnected, opStop, stopped, detached, dTaken>>,
           \/ t \notin Viewers /\ UNCHANGED vpc
           \/ /\ t \in Viewers /\ owner = t
              /\ vpc[t] \in {"pump", "read", "forward"}
              /\ UNCHANGED vpc \/ vpc' = [vpc EXCEPT ![t] = "leaving"]
           \/ /\ t \in Viewers /\ owner = NoOne
              /\ vpc[t] = "opened"
              /\ vpc' = [vpc EXCEPT ![t] = "superseding"]
    PROVE  OperatorInv'
<1> USE DEF HandTypes, Detachers, OperatorInv
<1>1. HandInv'
  BY DEF HandInv, Claiming, Taking, NobodyTaking
<1>2. AttachInv'
  <2>1. OperatorIsFed'
    BY DEF AttachInv, OperatorIsFed, Attached
  <2>2. ASSUME NEW w \in Viewers, Attached(w)', w \notin stopped'
        PROVE  \/ opStop' = w
               \/ \E u \in Detachers : dpc'[u] = "stop" /\ dTaken'[u] = w
    <3>1. Attached(w) /\ w \notin stopped
      BY <2>2 DEF Attached
    <3>2. \A u \in Detachers : dpc[u] = "stop" => dpc'[u] = "stop"
      OBVIOUS
    <3> QED BY <3>1, <3>2 DEF AttachInv
  <2> QED BY <2>1, <2>2 DEF AttachInv
<1>3. DetachInv'
  <2>1. SuccessorLeftAlone'
    BY DEF DetachInv, SuccessorLeftAlone
  <2>2. \A u \in Detachers : dpc'[u] = "no" => dTaken'[u] = NoOne
    BY DEF DetachInv
  <2>3. ASSUME NEW w \in Viewers, dpc'[w] # "no"
        PROVE  /\ vpc'[w] \notin {"idle", "opened", "claimed", "stored",
                                  "upgrading", "installed"}
               /\ \/ dOwner'[w] = w
                  \/ dOwner'[w] = NoOne /\ vpc'[w] = "superseding"
    BY <2>3 DEF DetachInv
  <2> QED BY <2>1, <2>2, <2>3 DEF DetachInv
<1> QED BY <1>1, <1>2, <1>3

\* Every step keeps it: the claim under sess.mu needs opConnected down, and
\* only the detach that took the attachment lowers it.
LEMMA OperatorStep == DataOK /\ OperatorInv /\ [Next]_vars => OperatorInv'
<1> USE DEF
        vars, sessVars, connVars, idleVars, recVars, rowVars, relayVars, onceVars,
        attachVars, sockVars, viewerVars, detachVars, agentVars, closeVars,
        sweepVars, clockVars, OthersFrame, ViewerFrame, DetachFrame,
        AgentFrame, CloseFrame, SweepFrame
<1> SUFFICES ASSUME DataOK, OperatorInv, [Next]_vars PROVE OperatorInv'
    OBVIOUS
<1> HandTypes
    BY DEF DataOK, HandTypes
<1> HIDE DEF DataOK
<1>1. CASE Tick
  BY <1>1, OperatorFrame DEF Tick, operatorVars
<1>2. CASE Restart
  <2>1. HandInv'
    BY ZenonT(30), <1>2, SessionAssumption DEF Restart, HandInv, Claiming, Taking,
       NobodyTaking, OperatorInv, HandTypes, Detachers
  <2>2. AttachInv'
    BY ZenonT(30), <1>2, SessionAssumption DEF Restart, AttachInv, OperatorIsFed,
       Attached, Claiming, Taking, NobodyTaking, HandInv, DetachInv,
       OperatorInv, HandTypes, Detachers
  <2>3. DetachInv'
    BY ZenonT(30), <1>2, SessionAssumption DEF Restart, DetachInv, SuccessorLeftAlone,
       Taking, NobodyTaking, HandInv, OperatorInv, HandTypes, Detachers
  <2> QED BY <2>1, <2>2, <2>3 DEF OperatorInv
<1>3. CASE RotateOperatorToken
  BY <1>3, OperatorFrame DEF RotateOperatorToken, operatorVars
<1>4. CASE DetachSession
  <2>1. /\ Admin \notin Viewers /\ UNCHANGED vpc
        /\ dpc[Admin] = "no" /\ dpc' = [dpc EXCEPT ![Admin] = "check"]
        /\ dOwner' = [dOwner EXCEPT ![Admin] = NoOne]
        /\ UNCHANGED <<opConnected, opStop, stopped, detached, dTaken>>
    BY <1>4, SessionAssumption DEF DetachSession, StartDetach
  <2> QED BY ZenonT(30), <2>1, DetachBegins DEF Detachers
<1>5. CASE AgentClaims
  BY <1>5, OperatorFrame DEF AgentClaims, operatorVars
<1>6. CASE AgentWriteState
  BY <1>6, OperatorFrame DEF AgentWriteState, operatorVars
<1>7. CASE AgentInstalls
  BY <1>7, OperatorFrame DEF AgentInstalls, operatorVars
<1>8. CASE AgentUpgradeFails
  BY <1>8, OperatorFrame DEF AgentUpgradeFails, operatorVars
<1>9. CASE AgentReads
  BY <1>9, OperatorFrame DEF AgentReads, operatorVars
<1>10. CASE AgentRecords
  BY <1>10, OperatorFrame DEF AgentRecords, RecordFrame, operatorVars
<1>11. CASE AgentForwards
  BY <1>11, OperatorFrame DEF AgentForwards, operatorVars
<1>12. CASE AgentLeaves
  BY <1>12, OperatorFrame DEF AgentLeaves, CallClose, BeginClose, operatorVars
<1>13. CASE AgentWriteFails
  BY <1>13, OperatorFrame DEF AgentWriteFails, BeginClose, operatorVars
<1>14. CASE AgentReturns
  BY <1>14, OperatorFrame DEF AgentReturns, operatorVars
<1>15. CASE CloseMemory
  BY <1>15, OperatorFrame DEF CloseMemory, operatorVars
<1>16. CASE CloseRow
  BY <1>16, OperatorFrame DEF CloseRow, operatorVars
<1>17. CASE CloseSockets
  BY <1>17, OperatorFrame DEF CloseSockets, operatorVars
<1>18. CASE CloseSeal
  BY <1>18, OperatorFrame DEF CloseSeal, Seal, operatorVars
<1>19. CASE CloseSession
  BY <1>19, OperatorFrame DEF CloseSession, operatorVars
<1>20. CASE CloseSessionRow
  BY <1>20, OperatorFrame DEF CloseSessionRow, operatorVars
<1>21. CASE CloseSessionRelay
  BY <1>21, OperatorFrame DEF CloseSessionRelay, BeginClose, operatorVars
<1>22. CASE CloseSessionSeal
  BY <1>22, OperatorFrame DEF CloseSessionSeal, Seal, operatorVars
<1>23. CASE SweepStart
  BY <1>23, OperatorFrame DEF SweepStart, operatorVars
<1>24. CASE SweepFlush
  BY <1>24, OperatorFrame DEF SweepFlush, operatorVars
<1>25. CASE SweepConnect
  BY <1>25, OperatorFrame DEF SweepConnect, Add, operatorVars
<1>26. CASE SweepIdle
  BY <1>26, OperatorFrame DEF SweepIdle, Add, operatorVars
<1>27. CASE SweepDuration
  BY <1>27, OperatorFrame DEF SweepDuration, Add, operatorVars
<1>28. CASE SweepFail
  BY <1>28, OperatorFrame DEF SweepFail, SweepRow, operatorVars
<1>29. CASE SweepExpire
  BY <1>29, OperatorFrame DEF SweepExpire, SweepRow, operatorVars
<1>30. CASE SweepMemory
  BY <1>30, OperatorFrame DEF SweepMemory, Swept, operatorVars
<1>31. CASE SweepRelay
  BY <1>31, OperatorFrame DEF SweepRelay, BeginClose, operatorVars
<1>32. CASE SweepSeal
  BY <1>32, OperatorFrame DEF SweepSeal, Seal, operatorVars
<1>33. ASSUME NEW t \in Detachers, DetachCheck(t) PROVE OperatorInv'
  <2>1. HandInv'
    BY ZenonT(30), <1>33, SessionAssumption DEF DetachCheck, DetachReturns, HandInv,
       Claiming, Taking, NobodyTaking, OperatorInv, HandTypes, Detachers
  <2>2. AttachInv'
    <3>1. AttachInv /\ dpc[t] # "stop"
      BY <1>33 DEF DetachCheck, OperatorInv
    <3>2. \A u \in Detachers :
              u # t => dpc'[u] = dpc[u] /\ dTaken'[u] = dTaken[u]
      BY <1>33 DEF DetachCheck, DetachReturns, HandTypes
    <3>3. UNCHANGED <<opStop, stopped, detached, vpc>>
      BY <1>33 DEF DetachCheck, operatorVars
    <3> QED BY <3>1, <3>2, <3>3, DetachHoldsNothing
  <2>3. DetachInv'
    BY ZenonT(30), <1>33, SessionAssumption DEF DetachCheck, DetachReturns, DetachInv,
       SuccessorLeftAlone, Taking, NobodyTaking, HandInv, OperatorInv,
       HandTypes, Detachers
  <2> QED BY <2>1, <2>2, <2>3 DEF OperatorInv
<1>34. ASSUME NEW t \in Detachers, DetachTake(t) PROVE OperatorInv'
  <2>1. HandInv'
    BY ZenonT(30), <1>34, SessionAssumption DEF DetachTake, DetachReturns, NotMine,
       HandInv, Claiming, Taking, NobodyTaking, OperatorInv, HandTypes,
       Detachers
  <2>2. CASE NotMine(t)
    <3>a. /\ dpc[t] = "take" /\ DetachReturns(t)
          /\ UNCHANGED <<opStop, stopped, detached, vpc>>
      BY ZenonT(30), <1>34, <2>2 DEF DetachTake
    <3>b. \A u \in Detachers :
              u # t => dpc'[u] = dpc[u] /\ dTaken'[u] = dTaken[u]
      BY <3>a DEF DetachReturns, HandTypes
    <3>1. AttachInv'
      BY <3>a, <3>b, DetachHoldsNothing DEF OperatorInv
    <3>2. DetachInv'
      BY ZenonT(30), <1>34, <2>2, SessionAssumption DEF DetachTake, DetachReturns,
         DetachInv, SuccessorLeftAlone, OperatorInv, HandTypes, Detachers
    <3> QED BY <2>1, <3>1, <3>2 DEF OperatorInv
  <2>3. CASE ~NotMine(t)
    <3>1. /\ dpc[t] = "take"
          /\ dpc' = [dpc EXCEPT ![t] = "stop"]
          /\ dTaken' = [dTaken EXCEPT ![t] = opStop] /\ opStop' = NoOne
          /\ UNCHANGED <<opConnected, stopped, detached, vpc, dOwner>>
      BY ZenonT(30), <1>34, <2>3 DEF DetachTake
    <3> QED BY ZenonT(30), <2>1, <2>3, <3>1, DetachTakes DEF OperatorInv
  <2> QED BY <2>2, <2>3
<1>35. ASSUME NEW t \in Detachers, DetachStop(t) PROVE OperatorInv'
  <2>1. HandInv'
    BY ZenonT(30), <1>35, SessionAssumption DEF DetachStop, HandInv, Claiming, Taking,
       NobodyTaking, OperatorInv, HandTypes, Detachers
  <2>2. AttachInv'
    <3>1. /\ dpc[t] = "stop"
          /\ dpc' = [dpc EXCEPT ![t] = "mark"]
          /\ stopped' = stopped \cup {dTaken[t]}
          /\ UNCHANGED <<opConnected, opStop, vpc, dOwner, dTaken>>
      BY <1>35, Zenon DEF DetachStop
    <3> QED BY <3>1, DetachStops, Zenon
  <2>3. DetachInv'
    BY ZenonT(30), <1>35, SessionAssumption DEF DetachStop, DetachInv, SuccessorLeftAlone,
       Taking, NobodyTaking, HandInv, OperatorInv, HandTypes, Detachers
  <2> QED BY <2>1, <2>2, <2>3 DEF OperatorInv
<1>36. ASSUME NEW t \in Detachers, DetachMark(t) PROVE OperatorInv'
  <2>1. HandInv'
    BY <1>36, SessionAssumption, Zenon DEF DetachMark, AfterDetach, HandInv,
       Claiming, Taking, NobodyTaking, OperatorInv, HandTypes, Detachers
  <2>2. AttachInv'
    BY <1>36, SessionAssumption, Zenon DEF DetachMark, AfterDetach, AttachInv,
       OperatorIsFed, Attached, Claiming, Taking, NobodyTaking, HandInv,
       DetachInv, OperatorInv, HandTypes, Detachers
  <2>3. DetachInv'
    BY ZenonT(30), <1>36, SessionAssumption DEF DetachMark, AfterDetach, DetachInv,
       SuccessorLeftAlone, Taking, NobodyTaking, HandInv, OperatorInv,
       HandTypes, Detachers
  <2> QED BY <2>1, <2>2, <2>3 DEF OperatorInv
<1>37. ASSUME NEW t \in Detachers, DetachWrite(t) PROVE OperatorInv'
  <2>1. HandInv'
    BY <1>37, SessionAssumption, Zenon DEF DetachWrite, HandInv, Claiming, Taking,
       NobodyTaking, OperatorInv, HandTypes, Detachers
  <2>2. AttachInv'
    BY ZenonT(30), <1>37, SessionAssumption DEF DetachWrite, AttachInv, OperatorIsFed,
       Attached, Claiming, Taking, NobodyTaking, HandInv, DetachInv,
       OperatorInv, HandTypes, Detachers
  <2>3. DetachInv'
    BY ZenonT(30), <1>37, SessionAssumption DEF DetachWrite, DetachInv,
       SuccessorLeftAlone, Taking, NobodyTaking, HandInv, OperatorInv,
       HandTypes, Detachers
  <2> QED BY <2>1, <2>2, <2>3 DEF OperatorInv
<1>38. ASSUME NEW t \in Detachers, DetachShut(t) PROVE OperatorInv'
  <2>1. HandInv'
    BY ZenonT(30), <1>38, SessionAssumption DEF DetachShut, DetachReturns, HandInv,
       Claiming, Taking, NobodyTaking, OperatorInv, HandTypes, Detachers
  <2>2. AttachInv'
    BY <1>38, SessionAssumption, Zenon DEF DetachShut, DetachReturns, AttachInv,
       OperatorIsFed, Attached, Claiming, Taking, NobodyTaking, HandInv,
       DetachInv, OperatorInv, HandTypes, Detachers
  <2>3. DetachInv'
    BY <1>38, SessionAssumption, Zenon DEF DetachShut, DetachReturns, DetachInv,
       SuccessorLeftAlone, Taking, NobodyTaking, HandInv, OperatorInv,
       HandTypes, Detachers
  <2> QED BY <2>1, <2>2, <2>3 DEF OperatorInv
<1>39. ASSUME NEW v \in Viewers, ConsumeToken(v) PROVE OperatorInv'
  <2>1. /\ vpc' = [vpc EXCEPT ![v] = "opened"]
        /\ UNCHANGED <<opConnected, opStop, stopped, detached, dpc, dOwner,
                        dTaken>>
    BY <1>39 DEF ConsumeToken, Goto
  <2>2. vpc[v] = "idle"
    BY <1>39 DEF ConsumeToken, Claiming
  <2> HIDE <1>39
  <2> QED BY ZenonT(30), <2>1, <2>2, ViewerMoves DEF ViewerSteps, Claiming
<1>40. ASSUME NEW v \in Viewers, Admit(v) PROVE OperatorInv'
  <2>1. CASE Free /\ Claim(v) /\ UNCHANGED detachVars
    <3>1. /\ ~opConnected /\ opConnected' /\ dpc[v] = "no"
          /\ vpc' = [vpc EXCEPT ![v] = "claimed"]
          /\ UNCHANGED <<opStop, stopped, detached, dpc, dOwner, dTaken>>
      BY <1>40, <2>1, Zenon DEF Admit, Free, Claim, Goto, OperatorInv, DetachInv
    <3> QED BY <3>1, ViewerClaims, Zenon
  <2>2. CASE Refuse(v) /\ UNCHANGED detachVars
    <3>1. /\ vpc' = [vpc EXCEPT ![v] = "gone"]
          /\ UNCHANGED <<opConnected, opStop, stopped, detached, dpc, dOwner,
                        dTaken>>
          /\ vpc[v] = "superseding" => dpc[v] = "no"
      BY <1>40, <2>2 DEF Admit, Refuse, Goto
    <3> QED BY ZenonT(30), <3>1, ViewerMoves DEF ViewerSteps
  <2>3. CASE /\ Goto(v, "superseding") /\ StartDetach(v, NoOne)
             /\ UNCHANGED <<state, opConnected, idle, relay, snap>>
    <3>1. /\ vpc[v] = "opened" /\ vpc' = [vpc EXCEPT ![v] = "superseding"]
          /\ dpc[v] = "no" /\ dpc' = [dpc EXCEPT ![v] = "check"]
          /\ dOwner' = [dOwner EXCEPT ![v] = NoOne]
          /\ UNCHANGED <<opConnected, opStop, stopped, detached, dTaken>>
      BY <1>40, <2>3, Zenon DEF Admit, Goto, StartDetach, OperatorInv, DetachInv
    <3> QED BY <3>1, DetachBegins, Zenon DEF Detachers
  <2> QED BY <1>40, <2>1, <2>2, <2>3 DEF Admit
<1>41. ASSUME NEW v \in Viewers, Readmit(v) PROVE OperatorInv'
  <2>1. CASE Free /\ Claim(v)
    <3>1. /\ ~opConnected /\ opConnected' /\ dpc[v] = "no"
          /\ vpc' = [vpc EXCEPT ![v] = "claimed"]
          /\ UNCHANGED <<opStop, stopped, detached, dpc, dOwner, dTaken>>
      BY ZenonT(30), <1>41, <2>1 DEF Readmit, Free, Claim, Goto, OperatorInv, DetachInv
    <3> QED BY ZenonT(30), <3>1, ViewerClaims
  <2>2. CASE Refuse(v)
    <3>1. /\ vpc' = [vpc EXCEPT ![v] = "gone"]
          /\ UNCHANGED <<opConnected, opStop, stopped, detached, dpc, dOwner,
                        dTaken>>
          /\ vpc[v] = "superseding" => dpc[v] = "no"
      BY <1>41, <2>2 DEF Readmit, Refuse, Goto
    <3> QED BY <3>1, ViewerMoves, Zenon DEF ViewerSteps
  <2> QED BY <1>41, <2>1, <2>2, Zenon DEF Readmit
<1>42. ASSUME NEW v \in Viewers, WriteState(v) PROVE OperatorInv'
  <2>1. /\ vpc' = [vpc EXCEPT ![v] = "stored"]
        /\ UNCHANGED <<opConnected, opStop, stopped, detached, dpc, dOwner,
                        dTaken>>
    BY <1>42, Zenon DEF WriteState, Goto
  <2>2. Claiming(v)
    BY <1>42, Zenon DEF WriteState, Claiming
  <2> HIDE <1>42
  <2> QED BY <2>1, <2>2, ViewerMoves, Zenon DEF ViewerSteps, Claiming
<1>43. ASSUME NEW v \in Viewers, WriteIdle(v) PROVE OperatorInv'
  <2>1. /\ vpc' = [vpc EXCEPT ![v] = "upgrading"]
        /\ UNCHANGED <<opConnected, opStop, stopped, detached, dpc, dOwner,
                        dTaken>>
    BY <1>43 DEF WriteIdle, Goto
  <2>2. Claiming(v)
    BY <1>43 DEF WriteIdle, Claiming
  <2> HIDE <1>43
  <2> QED BY ZenonT(30), <2>1, <2>2, ViewerMoves DEF ViewerSteps, Claiming
<1>44. ASSUME NEW v \in Viewers, Install(v) PROVE OperatorInv'
  <2>1. /\ vpc[v] = "upgrading" /\ vpc' = [vpc EXCEPT ![v] = "installed"]
        /\ opStop' = v
        /\ UNCHANGED <<opConnected, stopped, detached, dpc, dOwner, dTaken>>
    BY <1>44 DEF Install, Goto
  <2>2. /\ opConnected /\ opStop = NoOne /\ NobodyTaking
        /\ \A w \in Viewers : Claiming(w) => w = v
    BY <2>1 DEF OperatorInv, HandInv, Claiming
  <2> HIDE <1>44
  <2>3. HandInv'
    BY <2>1, <2>2 DEF HandTypes, HandInv, Claiming, Taking, NobodyTaking
  <2>4. AttachInv'
    <3>1. OperatorIsFed'
      BY <2>1 DEF HandTypes, OperatorIsFed
    <3>2. ASSUME NEW w \in Viewers, w # v, Attached(w)', w \notin stopped'
          PROVE  FALSE
      BY <2>1, <2>2, <3>2, SessionAssumption
         DEF HandTypes, OperatorInv, AttachInv, Attached, NobodyTaking, Taking
    <3> QED BY <2>1, <3>1, <3>2 DEF AttachInv
  <2>5. DetachInv'
    BY <2>1 DEF HandTypes, Detachers, OperatorInv, DetachInv, SuccessorLeftAlone
  <2> QED BY <2>3, <2>4, <2>5 DEF OperatorInv
<1>45. ASSUME NEW v \in Viewers, UpgradeFails(v) PROVE OperatorInv'
  <2>1. HandInv'
    BY <1>45, SessionAssumption, Zenon DEF UpgradeFails, Goto, HandInv, Claiming,
       Taking, NobodyTaking, OperatorInv, HandTypes, Detachers
  <2>2. AttachInv'
    BY ZenonT(30), <1>45, SessionAssumption DEF UpgradeFails, Goto, AttachInv,
       OperatorIsFed, Attached, Claiming, Taking, NobodyTaking, HandInv,
       DetachInv, OperatorInv, HandTypes, Detachers
  <2>3. DetachInv'
    BY ZenonT(30), <1>45, SessionAssumption DEF UpgradeFails, Goto, DetachInv,
       SuccessorLeftAlone, Taking, NobodyTaking, HandInv, OperatorInv,
       HandTypes, Detachers
  <2> QED BY <2>1, <2>2, <2>3 DEF OperatorInv
<1>46. ASSUME NEW v \in Viewers, Resume(v) PROVE OperatorInv'
  <2>1. HandInv'
    BY ZenonT(30), <1>46, SessionAssumption DEF Resume, Goto, HandInv, Claiming, Taking,
       NobodyTaking, OperatorInv, HandTypes, Detachers
  <2>2. AttachInv'
    BY ZenonT(30), <1>46, SessionAssumption DEF Resume, Goto, AttachInv, OperatorIsFed,
       Attached, Claiming, Taking, NobodyTaking, HandInv, DetachInv,
       OperatorInv, HandTypes, Detachers
  <2>3. DetachInv'
    BY <1>46, SessionAssumption, Zenon DEF Resume, Goto, DetachInv,
       SuccessorLeftAlone, Taking, NobodyTaking, HandInv, OperatorInv,
       HandTypes, Detachers
  <2> QED BY <2>1, <2>2, <2>3 DEF OperatorInv
<1>47. ASSUME NEW v \in Viewers, ViewerReads(v) PROVE OperatorInv'
  <2>1. /\ vpc' = [vpc EXCEPT ![v] = "read"]
        /\ UNCHANGED <<opConnected, opStop, stopped, detached, dpc, dOwner,
                        dTaken>>
    BY <1>47 DEF ViewerReads, Goto
  <2>2. vpc[v] = "pump"
    BY <1>47 DEF ViewerReads, Claiming
  <2> HIDE <1>47
  <2> QED BY ZenonT(30), <2>1, <2>2, ViewerMoves DEF ViewerSteps, Claiming
<1>48. ASSUME NEW v \in Viewers, ViewerRecords(v) PROVE OperatorInv'
  <2>1. /\ vpc' = [vpc EXCEPT ![v] = "forward"]
        /\ UNCHANGED <<opConnected, opStop, stopped, detached, dpc, dOwner,
                        dTaken>>
    BY <1>48 DEF ViewerRecords, RecordFrame, Goto
  <2>2. vpc[v] = "read"
    BY <1>48 DEF ViewerRecords, Claiming
  <2> HIDE <1>48
  <2> QED BY ZenonT(30), <2>1, <2>2, ViewerMoves DEF ViewerSteps, Claiming
<1>49. ASSUME NEW v \in Viewers, ViewerForwards(v) PROVE OperatorInv'
  <2>1. /\ vpc' = [vpc EXCEPT ![v] = "pump"]
        /\ UNCHANGED <<opConnected, opStop, stopped, detached, dpc, dOwner,
                        dTaken>>
    BY <1>49 DEF ViewerForwards, Goto
  <2>2. vpc[v] = "forward"
    BY <1>49 DEF ViewerForwards, Claiming
  <2> HIDE <1>49
  <2> QED BY ZenonT(30), <2>1, <2>2, ViewerMoves DEF ViewerSteps, Claiming
<1>50. ASSUME NEW v \in Viewers, ViewerLeaves(v) PROVE OperatorInv'
  <2>1. /\ vpc[v] \in {"pump", "forward"} /\ vpc' = [vpc EXCEPT ![v] = "leaving"]
        /\ UNCHANGED <<opConnected, opStop, stopped, detached, dTaken>>
    BY <1>50 DEF ViewerLeaves, Goto, StartDetach
  <2>2. CASE dpc[v] = "no" /\ StartDetach(v, v)
    BY <2>1, <2>2, DetachBegins, Zenon DEF StartDetach, Detachers
  <2>3. CASE UNCHANGED detachVars
    <3>1. UNCHANGED <<dpc, dOwner, dTaken>>
      BY <2>3
    <3> QED BY ZenonT(30), <2>1, <3>1, ViewerMoves DEF ViewerSteps
  <2> QED BY ZenonT(30), <1>50, <2>2, <2>3 DEF ViewerLeaves
<1>51. ASSUME NEW v \in Viewers, WritePumpFails(v) PROVE OperatorInv'
  <2>1. /\ vpc[v] \in {"pump", "read", "forward"} /\ UNCHANGED vpc
        /\ dpc[v] = "no" /\ dpc' = [dpc EXCEPT ![v] = "check"]
        /\ dOwner' = [dOwner EXCEPT ![v] = v]
        /\ UNCHANGED <<opConnected, opStop, stopped, detached, dTaken>>
    BY <1>51, SessionAssumption DEF WritePumpFails, StartDetach
  <2> QED BY ZenonT(30), <2>1, DetachBegins DEF Detachers
<1>52. ASSUME NEW v \in Viewers, ViewerEndsSession(v) PROVE OperatorInv'
  <2>1. /\ vpc' = [vpc EXCEPT ![v] = "closing"]
        /\ UNCHANGED <<opConnected, opStop, stopped, detached, dpc, dOwner,
                        dTaken>>
    BY <1>52 DEF ViewerEndsSession, CallClose, BeginClose, Goto
  <2>2. vpc[v] \in {"read", "forward"}
    BY <1>52 DEF ViewerEndsSession, Claiming
  <2> HIDE <1>52
  <2> QED BY ZenonT(30), <2>1, <2>2, ViewerMoves DEF ViewerSteps, Claiming
<1>53. ASSUME NEW v \in Viewers, ViewerReturns(v) PROVE OperatorInv'
  <2>1. /\ vpc' = [vpc EXCEPT ![v] = "gone"]
        /\ UNCHANGED <<opConnected, opStop, stopped, detached, dpc, dOwner,
                        dTaken>>
    BY <1>53, Zenon DEF ViewerReturns, Goto
  <2>2. vpc[v] \in {"leaving", "closing"}
    BY ZenonT(30), <1>53 DEF ViewerReturns, Claiming
  <2> HIDE <1>53
  <2> QED BY <2>1, <2>2, ViewerMoves, Zenon DEF ViewerSteps, Claiming
<1>54. CASE UNCHANGED vars
  BY <1>54, OperatorFrame DEF operatorVars
<1> QED
  BY ZenonT(30), <1>1, <1>2, <1>3, <1>4, <1>5, <1>6, <1>7, <1>8, <1>9, <1>10, <1>11,
     <1>12, <1>13, <1>14, <1>15, <1>16, <1>17, <1>18, <1>19, <1>20, <1>21,
     <1>22, <1>23, <1>24, <1>25, <1>26, <1>27, <1>28, <1>29, <1>30, <1>31,
     <1>32, <1>33, <1>34, <1>35, <1>36, <1>37, <1>38, <1>39, <1>40, <1>41,
     <1>42, <1>43, <1>44, <1>45, <1>46, <1>47, <1>48, <1>49, <1>50, <1>51,
     <1>52, <1>53, <1>54 DEF Next, Sweep, Detach, ViewerProceeds

\* Initially.
LEMMA OperatorInit == Init => OperatorInv
BY ZenonT(30), SessionAssumption
   DEF Init, OperatorInv, HandInv, AttachInv, DetachInv, OperatorIsFed,
       SuccessorLeftAlone, Claiming, Taking, NobodyTaking, Attached, Detachers

\* In every behaviour.
LEMMA OperatorKept == Spec => []OperatorInv
<1>1. FlagsOK /\ DataOK /\ OperatorInv /\ [Next]_vars => OperatorInv'
  BY OperatorStep
<1> QED BY <1>1, OperatorInit, TypesKept, PTL DEF Spec

\* However AttachOperator requests, take-overs, DetachSession and failing
\* pumps overlap, at most one attachment runs that was not told to stop.
THEOREM OneOperatorAtATime == Spec => []OneOperator
<1>1. OperatorInv => OneOperator
  BY ZenonT(30), SessionAssumption
     DEF OperatorInv, HandInv, AttachInv, OneOperator, Taking, NobodyTaking
<1> QED BY <1>1, OperatorKept, PTL

\* The attachment that owns the relay is past no detached flag: AttachOperator
\* clears it last, and no earlier detach can still raise it.
THEOREM OperatorAlwaysFed == Spec => []OperatorIsFed
<1>1. OperatorInv => OperatorIsFed
  BY DEF OperatorInv, AttachInv
<1> QED BY <1>1, OperatorKept, PTL

\* detachAttachment, called late by a superseded viewer's pump, never takes
\* the attachment of the viewer that replaced it.
THEOREM SuccessorSafe == Spec => []SuccessorLeftAlone
<1>1. OperatorInv => SuccessorLeftAlone
  BY DEF OperatorInv, DetachInv
<1> QED BY <1>1, OperatorKept, PTL

-----------------------------------------------------------------------------
(* The session in memory and its row. *)

\* What the writes still to come may say: an attach that is under way writes a
\* live state, a close and a late detach an ended one only once memory says so.
SlotInv ==
    /\ SlotHeld
    /\ closing \in {"row", "sockets", "seal", "done"} => state \in EndedStates
    /\ cpc # "idle" => state \in EndedStates
    /\ \A v \in Viewers : vpc[v] = "claimed" => snap[v].state \in LiveStates
    /\ apc = "claimed" => aState \in LiveStates
    /\ \A t \in Detachers :
          dpc[t] = "write" /\ dState[t] \in EndedStates => state \in EndedStates

slotVars == <<state, row, spc, closing, cpc, vpc, snap, apc, aState, dpc,
              dState>>

\* A step that leaves these variables alone keeps the invariant.
LEMMA SlotFrame ==
    SlotInv /\ UNCHANGED slotVars
    => SlotInv' /\ (state \in EndedStates => state' \in EndedStates)
BY ZenonT(30) DEF SlotInv, SlotHeld, slotVars

SlotTypes ==
    /\ state \in States /\ row \in States
    /\ vpc \in [Viewers -> ViewerSteps] /\ dpc \in [Detachers -> DetachSteps]
    /\ snap \in [Viewers -> [state : States, idle : Nat]]
    /\ dState \in [Detachers -> States] /\ aState \in States
    /\ picks \subseteq {"failed", "expired"}

\* An operator request that takes the session, or does not.
LEMMA SlotClaimed ==
    ASSUME SlotInv, SlotTypes, NEW v \in Viewers, Free, Claim(v),
           UNCHANGED <<row, spc, closing, cpc, apc, aState, dpc, dState>>
    PROVE  SlotInv' /\ (state \in EndedStates => state' \in EndedStates)
<1> USE DEF SlotTypes, Detachers, States, LiveStates, EndedStates
<1>1. state \notin EndedStates /\ state' \in {"active", "connecting"}
  BY DEF Free, Claim
<1>2. SlotHeld'
  BY <1>1 DEF SlotInv, SlotHeld
<1>3. \A w \in Viewers : vpc'[w] = "claimed" => snap'[w].state \in LiveStates
  BY <1>1 DEF SlotInv, Claim, Goto
<1> QED BY ZenonT(30), <1>1, <1>2, <1>3 DEF SlotInv

LEMMA SlotMoved ==
    ASSUME SlotInv, SlotTypes, NEW v \in Viewers,
           NEW p \in ViewerSteps \ {"claimed"}, Goto(v, p),
           UNCHANGED <<state, row, spc, closing, cpc, snap, apc, aState, dState>>,
           UNCHANGED dpc \/ dpc' = [dpc EXCEPT ![v] = "check"]
    PROVE  SlotInv' /\ (state \in EndedStates => state' \in EndedStates)
<1> USE DEF SlotTypes, Detachers, Goto
<1>1. SlotHeld'
  BY DEF SlotInv, SlotHeld
<1>2. \A w \in Viewers : vpc'[w] = "claimed" => snap'[w].state \in LiveStates
  BY DEF SlotInv
<1>3. \A t \in Detachers : dpc'[t] = "write" => dpc[t] = "write"
  OBVIOUS
<1> QED BY <1>1, <1>2, <1>3 DEF SlotInv

\* Every step keeps it, and none brings an ended session back.
LEMMA SlotStep ==
    DataOK /\ SlotInv /\ [Next]_vars
    => SlotInv' /\ (state \in EndedStates => state' \in EndedStates)
<1> DEFINE Goal == SlotInv' /\ (state \in EndedStates => state' \in EndedStates)
<1> USE DEF SlotInv, SlotHeld, SlotTypes, Detachers, States, LiveStates,
        EndedStates, NoSnap,
        vars, sessVars, connVars, idleVars, recVars, rowVars, relayVars, onceVars,
        attachVars, sockVars, viewerVars, detachVars, agentVars, closeVars,
        sweepVars, clockVars, OthersFrame, ViewerFrame, DetachFrame,
        AgentFrame, CloseFrame, SweepFrame
<1> SUFFICES ASSUME DataOK, SlotInv, [Next]_vars PROVE Goal
    BY Zenon
<1> SlotTypes
    BY Zenon DEF DataOK
<1>1. CASE Tick
  BY <1>1, SlotFrame, Zenon DEF Tick, slotVars
<1>2. CASE Restart
  BY <1>2, Zenon DEF Restart
<1>3. CASE RotateOperatorToken
  BY <1>3, SlotFrame, Zenon DEF RotateOperatorToken, slotVars
<1>4. CASE DetachSession
  BY <1>4, Zenon DEF DetachSession, StartDetach
<1>5. CASE AgentClaims
  BY <1>5, Zenon DEF AgentClaims
<1>6. CASE AgentWriteState
  BY <1>6, Zenon DEF AgentWriteState
<1>7. CASE AgentInstalls
  BY <1>7, Zenon DEF AgentInstalls
<1>8. CASE AgentUpgradeFails
  BY <1>8, Zenon DEF AgentUpgradeFails
<1>9. CASE AgentReads
  BY <1>9, Zenon DEF AgentReads
<1>10. CASE AgentRecords
  BY <1>10, Zenon DEF AgentRecords, RecordFrame
<1>11. CASE AgentForwards
  BY <1>11, Zenon DEF AgentForwards
<1>12. CASE AgentLeaves
  BY <1>12, Zenon DEF AgentLeaves, CallClose, BeginClose
<1>13. CASE AgentWriteFails
  BY <1>13, Zenon DEF AgentWriteFails, BeginClose
<1>14. CASE AgentReturns
  BY <1>14, Zenon DEF AgentReturns
<1>15. CASE CloseMemory
  BY <1>15, Zenon DEF CloseMemory
<1>16. CASE CloseRow
  BY <1>16, Zenon DEF CloseRow
<1>17. CASE CloseSockets
  BY <1>17, Zenon DEF CloseSockets
<1>18. CASE CloseSeal
  BY <1>18, Zenon DEF CloseSeal, Seal
<1>19. CASE CloseSession
  BY <1>19, Zenon DEF CloseSession
<1>20. CASE CloseSessionRow
  BY <1>20, Zenon DEF CloseSessionRow
<1>21. CASE CloseSessionRelay
  BY <1>21, Zenon DEF CloseSessionRelay, BeginClose
<1>22. CASE CloseSessionSeal
  BY <1>22, Zenon DEF CloseSessionSeal, Seal
<1>23. CASE SweepStart
  BY <1>23, Zenon DEF SweepStart
<1>24. CASE SweepFlush
  BY <1>24, Zenon DEF SweepFlush
<1>25. CASE SweepConnect
  BY <1>25, Zenon DEF SweepConnect, Add
<1>26. CASE SweepIdle
  BY <1>26, Zenon DEF SweepIdle, Add
<1>27. CASE SweepDuration
  BY <1>27, Zenon DEF SweepDuration, Add
<1>28. CASE SweepFail
  BY <1>28, Zenon DEF SweepFail, SweepRow
<1>29. CASE SweepExpire
  BY <1>29, Zenon DEF SweepExpire, SweepRow
<1>30. CASE SweepMemory
  BY <1>30, Zenon DEF SweepMemory, Swept
<1>31. CASE SweepRelay
  BY <1>31, Zenon DEF SweepRelay, BeginClose
<1>32. CASE SweepSeal
  BY <1>32, Zenon DEF SweepSeal, Seal
<1>33. ASSUME NEW t \in Detachers, DetachCheck(t) PROVE Goal
  BY ZenonT(30), <1>33 DEF DetachCheck, DetachReturns
<1>34. ASSUME NEW t \in Detachers, DetachTake(t) PROVE Goal
  BY ZenonT(30), <1>34 DEF DetachTake, DetachReturns, NotMine
<1>35. ASSUME NEW t \in Detachers, DetachStop(t) PROVE Goal
  BY ZenonT(30), <1>35 DEF DetachStop
<1>36. ASSUME NEW t \in Detachers, DetachMark(t) PROVE Goal
  BY <1>36, Zenon DEF DetachMark, AfterDetach
<1>37. ASSUME NEW t \in Detachers, DetachWrite(t) PROVE Goal
  BY <1>37, Zenon DEF DetachWrite
<1>38. ASSUME NEW t \in Detachers, DetachShut(t) PROVE Goal
  BY <1>38, Zenon DEF DetachShut, DetachReturns
<1>39. ASSUME NEW v \in Viewers, ConsumeToken(v) PROVE Goal
  BY ZenonT(30), <1>39 DEF ConsumeToken, Goto
<1>40. ASSUME NEW v \in Viewers, Admit(v) PROVE Goal
  <2>1. UNCHANGED <<row, spc, closing, cpc, apc, aState>>
    BY <1>40, Zenon DEF Admit
  <2>2. CASE state \in EndedStates /\ Refuse(v) /\ UNCHANGED detachVars
    BY ZenonT(30), <2>1, <2>2, SlotMoved DEF Refuse, ViewerSteps
  <2>3. CASE /\ state \notin EndedStates /\ opConnected
             /\ Goto(v, "superseding") /\ StartDetach(v, NoOne)
             /\ UNCHANGED <<state, opConnected, idle, relay, snap>>
    BY <2>1, <2>3, SlotMoved, Zenon DEF StartDetach, ViewerSteps
  <2>4. CASE Free /\ Claim(v) /\ UNCHANGED detachVars
    BY ZenonT(30), <2>1, <2>4, SlotClaimed
  <2> QED BY ZenonT(30), <1>40, <2>2, <2>3, <2>4 DEF Admit
<1>41. ASSUME NEW v \in Viewers, Readmit(v) PROVE Goal
  <2>1. UNCHANGED <<row, spc, closing, cpc, apc, aState, dpc, dState>>
    BY <1>41, Zenon DEF Readmit
  <2>2. CASE Free /\ Claim(v)
    BY ZenonT(30), <2>1, <2>2, SlotClaimed
  <2>3. CASE ~Free /\ Refuse(v)
    BY <2>1, <2>3, SlotMoved, Zenon DEF Refuse, ViewerSteps
  <2> QED BY ZenonT(30), <1>41, <2>2, <2>3 DEF Readmit
<1>42. ASSUME NEW v \in Viewers, WriteState(v) PROVE Goal
  BY <1>42, Zenon DEF WriteState, Goto
<1>43. ASSUME NEW v \in Viewers, WriteIdle(v) PROVE Goal
  BY ZenonT(30), <1>43 DEF WriteIdle, Goto
<1>44. ASSUME NEW v \in Viewers, Install(v) PROVE Goal
  BY <1>44, Zenon DEF Install, Goto
<1>45. ASSUME NEW v \in Viewers, UpgradeFails(v) PROVE Goal
  BY ZenonT(30), <1>45 DEF UpgradeFails, Goto
<1>46. ASSUME NEW v \in Viewers, Resume(v) PROVE Goal
  BY ZenonT(30), <1>46 DEF Resume, Goto
<1>47. ASSUME NEW v \in Viewers, ViewerReads(v) PROVE Goal
  BY <1>47, Zenon DEF ViewerReads, Goto
<1>48. ASSUME NEW v \in Viewers, ViewerRecords(v) PROVE Goal
  BY <1>48, Zenon DEF ViewerRecords, RecordFrame, Goto
<1>49. ASSUME NEW v \in Viewers, ViewerForwards(v) PROVE Goal
  BY ZenonT(30), <1>49 DEF ViewerForwards, Goto
<1>50. ASSUME NEW v \in Viewers, ViewerLeaves(v) PROVE Goal
  BY ZenonT(30), <1>50 DEF ViewerLeaves, Goto, StartDetach
<1>51. ASSUME NEW v \in Viewers, WritePumpFails(v) PROVE Goal
  BY <1>51, Zenon DEF WritePumpFails, StartDetach
<1>52. ASSUME NEW v \in Viewers, ViewerEndsSession(v) PROVE Goal
  BY ZenonT(30), <1>52 DEF ViewerEndsSession, CallClose, BeginClose, Goto
<1>53. ASSUME NEW v \in Viewers, ViewerReturns(v) PROVE Goal
  BY ZenonT(30), <1>53 DEF ViewerReturns, Goto
<1>54. CASE UNCHANGED vars
  BY ZenonT(30), <1>54, SlotFrame DEF slotVars
<1> QED
  BY ZenonT(30), <1>1, <1>2, <1>3, <1>4, <1>5, <1>6, <1>7, <1>8, <1>9, <1>10, <1>11,
     <1>12, <1>13, <1>14, <1>15, <1>16, <1>17, <1>18, <1>19, <1>20, <1>21,
     <1>22, <1>23, <1>24, <1>25, <1>26, <1>27, <1>28, <1>29, <1>30, <1>31,
     <1>32, <1>33, <1>34, <1>35, <1>36, <1>37, <1>38, <1>39, <1>40, <1>41,
     <1>42, <1>43, <1>44, <1>45, <1>46, <1>47, <1>48, <1>49, <1>50, <1>51,
     <1>52, <1>53, <1>54 DEF Next, Sweep, Detach, ViewerProceeds

\* Initially.
LEMMA SlotInit == Init => SlotInv
BY DEF Init, SlotInv, SlotHeld, LiveStates, EndedStates

\* In every behaviour.
LEMMA SlotKept == Spec => []SlotInv
<1>1. FlagsOK /\ DataOK /\ SlotInv /\ [Next]_vars => SlotInv'
  BY SlotStep
<1> QED BY <1>1, SlotInit, TypesKept, PTL DEF Spec

\* A session live in memory is live in its row, so createSession's caps count
\* it, whichever of attach, detach, close and restart wrote the row last.
THEOREM LiveSessionHoldsSlot == Spec => []SlotHeld
<1>1. SlotInv => SlotHeld
  BY DEF SlotInv
<1> QED BY <1>1, SlotKept, PTL

\* No attach, detach, agent, sweep or restart brings an ended session back.
THEOREM EndedForGood == Spec => EndedStaysEnded
<1>1. FlagsOK /\ DataOK /\ SlotInv /\ [Next]_vars
      => [(state \in EndedStates) => (state' \in EndedStates)]_vars
  BY SlotStep
<1> QED BY <1>1, SlotKept, TypesKept, PTL DEF Spec, EndedStaysEnded

-----------------------------------------------------------------------------
(* The recording. *)

\* Nothing is in the evidence item before its bundle has a receipt.
KeptInv == FramesKept /\ (~finalized => sealed = 0)

keptVars == <<finalized, sealed, frames, appended, restarts>>

\* A step that leaves these variables alone keeps the invariant.
LEMMA KeptFrame == KeptInv /\ UNCHANGED keptVars => KeptInv'
BY DEF KeptInv, FramesKept, keptVars

\* A seal moves the frames to the evidence item, all or none.
LEMMA SealKeeps ==
    ASSUME frames \in Nat, sealed \in Nat, appended \in Nat, KeptInv,
           Seal, UNCHANGED restarts
    PROVE  KeptInv'
<1>1. CASE UNCHANGED <<frames, finalized, sealed, appended>>
  BY <1>1, KeptFrame DEF keptVars
<1>2. CASE /\ ~finalized /\ finalized' /\ sealed' = frames /\ frames' = 0
           /\ UNCHANGED appended
  BY <1>2 DEF KeptInv, FramesKept
<1> QED BY ZenonT(30), <1>1, <1>2 DEF Seal, recVars

\* A frame, or the marker that the limit is reached, is kept in memory.
LEMMA RecordKeeps ==
    ASSUME frames \in Nat, sealed \in Nat, appended \in Nat, KeptInv,
           NEW typing \in BOOLEAN, RecordFrame(typing), UNCHANGED restarts
    PROVE  KeptInv'
<1>1. CASE UNCHANGED <<frames, finalized, sealed, appended>>
  BY <1>1, KeptFrame DEF keptVars
<1>2. CASE /\ frames' = frames + 1 /\ appended' = appended + 1
           /\ UNCHANGED <<finalized, sealed>>
  BY <1>2 DEF KeptInv, FramesKept
<1> QED BY ZenonT(30), <1>1, <1>2 DEF RecordFrame, recVars

\* Every step keeps it.
LEMMA KeptStep == DataOK /\ KeptInv /\ [Next]_vars => KeptInv'
<1> USE DEF
        vars, sessVars, connVars, idleVars, recVars, rowVars, relayVars, onceVars,
        attachVars, sockVars, viewerVars, detachVars, agentVars, closeVars,
        sweepVars, clockVars, OthersFrame, ViewerFrame, DetachFrame,
        AgentFrame, CloseFrame, SweepFrame
<1> SUFFICES ASSUME DataOK, KeptInv, [Next]_vars PROVE KeptInv'
    OBVIOUS
<1>1. CASE Tick
  BY <1>1, KeptFrame DEF Tick, keptVars
<1>2. CASE Restart
  <2>1. restarts' = restarts + 1 /\ UNCHANGED <<finalized, sealed>>
    BY ZenonT(30), <1>2 DEF Restart
  <2> HIDE DEF vars
  <2> QED BY <2>1 DEF DataOK, KeptInv, FramesKept
<1>3. CASE RotateOperatorToken
  BY <1>3, KeptFrame DEF RotateOperatorToken, keptVars
<1>4. CASE DetachSession
  BY <1>4, KeptFrame DEF DetachSession, StartDetach, keptVars
<1>5. CASE AgentClaims
  BY <1>5, KeptFrame DEF AgentClaims, keptVars
<1>6. CASE AgentWriteState
  BY <1>6, KeptFrame DEF AgentWriteState, keptVars
<1>7. CASE AgentInstalls
  BY <1>7, KeptFrame DEF AgentInstalls, keptVars
<1>8. CASE AgentUpgradeFails
  BY <1>8, KeptFrame DEF AgentUpgradeFails, keptVars
<1>9. CASE AgentReads
  BY <1>9, KeptFrame DEF AgentReads, keptVars
<1>10. CASE AgentRecords
  BY ZenonT(30), <1>10, RecordKeeps DEF AgentRecords, DataOK
<1>11. CASE AgentForwards
  BY <1>11, KeptFrame DEF AgentForwards, keptVars
<1>12. CASE AgentLeaves
  BY <1>12, KeptFrame DEF AgentLeaves, CallClose, BeginClose, keptVars
<1>13. CASE AgentWriteFails
  BY <1>13, KeptFrame DEF AgentWriteFails, BeginClose, keptVars
<1>14. CASE AgentReturns
  BY <1>14, KeptFrame DEF AgentReturns, keptVars
<1>15. CASE CloseMemory
  BY <1>15, KeptFrame DEF CloseMemory, keptVars
<1>16. CASE CloseRow
  BY <1>16, KeptFrame DEF CloseRow, keptVars
<1>17. CASE CloseSockets
  BY <1>17, KeptFrame DEF CloseSockets, keptVars
<1>18. CASE CloseSeal
  BY ZenonT(30), <1>18, SealKeeps DEF CloseSeal, DataOK
<1>19. CASE CloseSession
  BY <1>19, KeptFrame DEF CloseSession, keptVars
<1>20. CASE CloseSessionRow
  BY ZenonT(30), <1>20, KeptFrame DEF CloseSessionRow, keptVars
<1>21. CASE CloseSessionRelay
  BY <1>21, KeptFrame DEF CloseSessionRelay, BeginClose, keptVars
<1>22. CASE CloseSessionSeal
  BY ZenonT(30), <1>22, SealKeeps DEF CloseSessionSeal, DataOK
<1>23. CASE SweepStart
  BY ZenonT(30), <1>23, KeptFrame DEF SweepStart, keptVars
<1>24. CASE SweepFlush
  BY <1>24, KeptFrame DEF SweepFlush, keptVars
<1>25. CASE SweepConnect
  BY <1>25, KeptFrame DEF SweepConnect, Add, keptVars
<1>26. CASE SweepIdle
  BY <1>26, KeptFrame DEF SweepIdle, Add, keptVars
<1>27. CASE SweepDuration
  BY <1>27, KeptFrame DEF SweepDuration, Add, keptVars
<1>28. CASE SweepFail
  BY <1>28, KeptFrame DEF SweepFail, SweepRow, keptVars
<1>29. CASE SweepExpire
  BY ZenonT(30), <1>29, KeptFrame DEF SweepExpire, SweepRow, keptVars
<1>30. CASE SweepMemory
  BY <1>30, KeptFrame DEF SweepMemory, Swept, keptVars
<1>31. CASE SweepRelay
  BY <1>31, KeptFrame DEF SweepRelay, BeginClose, keptVars
<1>32. CASE SweepSeal
  BY ZenonT(30), <1>32, SealKeeps DEF SweepSeal, DataOK
<1>33. ASSUME NEW t \in Detachers, DetachCheck(t) PROVE KeptInv'
  BY <1>33, KeptFrame DEF DetachCheck, DetachReturns, keptVars
<1>34. ASSUME NEW t \in Detachers, DetachTake(t) PROVE KeptInv'
  BY ZenonT(30), <1>34, KeptFrame DEF DetachTake, DetachReturns, NotMine, keptVars
<1>35. ASSUME NEW t \in Detachers, DetachStop(t) PROVE KeptInv'
  BY ZenonT(30), <1>35, KeptFrame DEF DetachStop, keptVars
<1>36. ASSUME NEW t \in Detachers, DetachMark(t) PROVE KeptInv'
  BY <1>36, KeptFrame DEF DetachMark, AfterDetach, keptVars
<1>37. ASSUME NEW t \in Detachers, DetachWrite(t) PROVE KeptInv'
  BY ZenonT(30), <1>37, KeptFrame DEF DetachWrite, keptVars
<1>38. ASSUME NEW t \in Detachers, DetachShut(t) PROVE KeptInv'
  BY <1>38, KeptFrame DEF DetachShut, DetachReturns, keptVars
<1>39. ASSUME NEW v \in Viewers, ConsumeToken(v) PROVE KeptInv'
  BY <1>39, KeptFrame DEF ConsumeToken, Goto, keptVars
<1>40. ASSUME NEW v \in Viewers, Admit(v) PROVE KeptInv'
  BY <1>40, KeptFrame, Zenon DEF Admit, Goto, StartDetach, Free, Claim, Refuse,
     keptVars
<1>41. ASSUME NEW v \in Viewers, Readmit(v) PROVE KeptInv'
  BY <1>41, KeptFrame, Zenon DEF Readmit, Goto, Free, Claim, Refuse, keptVars
<1>42. ASSUME NEW v \in Viewers, WriteState(v) PROVE KeptInv'
  BY ZenonT(30), <1>42, KeptFrame DEF WriteState, Goto, keptVars
<1>43. ASSUME NEW v \in Viewers, WriteIdle(v) PROVE KeptInv'
  BY <1>43, KeptFrame DEF WriteIdle, Goto, keptVars
<1>44. ASSUME NEW v \in Viewers, Install(v) PROVE KeptInv'
  BY ZenonT(30), <1>44, KeptFrame DEF Install, Goto, keptVars
<1>45. ASSUME NEW v \in Viewers, UpgradeFails(v) PROVE KeptInv'
  BY <1>45, KeptFrame DEF UpgradeFails, Goto, keptVars
<1>46. ASSUME NEW v \in Viewers, Resume(v) PROVE KeptInv'
  BY <1>46, KeptFrame DEF Resume, Goto, keptVars
<1>47. ASSUME NEW v \in Viewers, ViewerReads(v) PROVE KeptInv'
  BY ZenonT(30), <1>47, KeptFrame DEF ViewerReads, Goto, keptVars
<1>48. ASSUME NEW v \in Viewers, ViewerRecords(v) PROVE KeptInv'
  BY ZenonT(30), <1>48, RecordKeeps DEF ViewerRecords, DataOK
<1>49. ASSUME NEW v \in Viewers, ViewerForwards(v) PROVE KeptInv'
  BY <1>49, KeptFrame DEF ViewerForwards, Goto, keptVars
<1>50. ASSUME NEW v \in Viewers, ViewerLeaves(v) PROVE KeptInv'
  BY ZenonT(30), <1>50, KeptFrame DEF ViewerLeaves, Goto, StartDetach, keptVars
<1>51. ASSUME NEW v \in Viewers, WritePumpFails(v) PROVE KeptInv'
  BY ZenonT(30), <1>51, KeptFrame DEF WritePumpFails, StartDetach, keptVars
<1>52. ASSUME NEW v \in Viewers, ViewerEndsSession(v) PROVE KeptInv'
  BY ZenonT(30), <1>52, KeptFrame DEF ViewerEndsSession, CallClose, BeginClose, Goto,
     keptVars
<1>53. ASSUME NEW v \in Viewers, ViewerReturns(v) PROVE KeptInv'
  BY ZenonT(30), <1>53, KeptFrame DEF ViewerReturns, Goto, keptVars
<1>54. CASE UNCHANGED vars
  BY <1>54, KeptFrame DEF keptVars
<1> QED
  BY ZenonT(30), <1>1, <1>2, <1>3, <1>4, <1>5, <1>6, <1>7, <1>8, <1>9, <1>10, <1>11,
     <1>12, <1>13, <1>14, <1>15, <1>16, <1>17, <1>18, <1>19, <1>20, <1>21,
     <1>22, <1>23, <1>24, <1>25, <1>26, <1>27, <1>28, <1>29, <1>30, <1>31,
     <1>32, <1>33, <1>34, <1>35, <1>36, <1>37, <1>38, <1>39, <1>40, <1>41,
     <1>42, <1>43, <1>44, <1>45, <1>46, <1>47, <1>48, <1>49, <1>50, <1>51,
     <1>52, <1>53, <1>54 DEF Next, Sweep, Detach, ViewerProceeds

\* RecordFrame and SealSessionRecording lose no frame before a restart, however
\* often and by whomever the recording is sealed: FinalizeBundle succeeds once.
THEOREM NoFrameLost == Spec => []FramesKept
<1>1. Init => KeptInv
  BY DEF Init, KeptInv, FramesKept
<1>2. FlagsOK /\ DataOK /\ KeptInv /\ [Next]_vars => KeptInv'
  BY KeptStep
<1>3. KeptInv => FramesKept
  BY DEF KeptInv
<1> QED BY <1>1, <1>2, <1>3, TypesKept, PTL DEF Spec

=============================================================================
