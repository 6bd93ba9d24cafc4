--------------------------- MODULE TerminalSession ---------------------------
(***************************************************************************)
(* One remote shell session of the hub's terminal manager: the session in  *)
(* memory, its SQLite row, the paired relay, and the goroutines that work  *)
(* on them - AttachOperator requests (Viewers) with their read pumps, the  *)
(* agent's AttachAgent request and pumps, DetachSession, CloseSession and  *)
(* the sweeper.  A step is what one goroutine does under one lock, or one  *)
(* SQL statement; between two steps of a goroutine any other may run.      *)
(*                                                                         *)
(* Time is a small clock: a deadline has passed when it is below now.      *)
(* The recording is its number of frames.                                  *)
(***************************************************************************)
EXTENDS Naturals, FiniteSets

CONSTANTS
    Viewers,         \* operator attach requests, each made once
    Admin,           \* the caller of DetachSession
    NoOne,
    Requests,        \* what else is at work: a subset of AllRequests
    ConnectTimeout, IdleTimeout, MaxDuration,
    HasEvidence,     \* an evidence store is configured
    MaxRecording,    \* frames recorded before the recording is bounded
    MaxReads,        \* bound: frames the pumps read
    MaxNow,          \* bound: clock
    MaxRestarts      \* bound: hub restarts

AllRequests == {"agent", "detach", "close", "sweep"}

ASSUME SessionAssumption ==
    /\ Requests \subseteq AllRequests
    /\ NoOne \notin Viewers /\ Admin \notin Viewers
    /\ ConnectTimeout \in Nat /\ IdleTimeout \in Nat /\ MaxDuration \in Nat
    /\ HasEvidence \in BOOLEAN
    /\ MaxRecording \in Nat /\ MaxReads \in Nat /\ MaxNow \in Nat
    /\ MaxRestarts \in Nat

LiveStates == {"waiting", "connecting", "active", "detached"}
EndedStates == {"closed", "failed", "expired"}

Detachers == Viewers \cup {Admin}

VARIABLES
    now,
    \* the session in memory (under sess.mu)
    state, opConnected, agConnected, token, idle, dirty,
    rec,       \* RecordingState
    frames,    \* Len(sess.Frames)
    \* the session's row, and the evidence item of its recording
    row, idleRow, recRow,
    finalized, \* the evidence bundle has its receipt
    sealed,    \* frames of the evidence item the session names
    \* the relay
    relay,     \* "none", "open", or "closed" once pr.done is closed
    closing,   \* where the one execution of closeOnce is
    opStop,    \* the viewer that owns opConn and opStop, or NoOne
    stopped,   \* viewers whose stop channel is closed
    detached,
    socks,     \* viewers whose socket is open
    agSock,    \* the agent's socket: "none", "open", "closed"
    \* goroutines
    vpc, snap, \* AttachOperator and its read pump; what it will write
    dpc, dOwner, dTaken, dState, \* detachAttachment, per caller
    apc, aState,                 \* AttachAgent and its read pump
    cpc, cRelay,                 \* CloseSession
    spc, flush, picks, cutoff,   \* Sweep
    \* history
    reads, appended, restarts

connVars == <<opConnected, agConnected>>
idleVars == <<idle, dirty>>
sessVars == <<state, connVars, token, idleVars>>
recVars == <<rec, frames, recRow, finalized, sealed, appended>>
rowVars == <<row, idleRow>>
onceVars == <<relay, closing>>
attachVars == <<opStop, stopped, detached>>
sockVars == <<socks, agSock>>
relayVars == <<onceVars, attachVars, sockVars>>
viewerVars == <<vpc, snap>>
detachVars == <<dpc, dOwner, dTaken, dState>>
agentVars == <<apc, aState>>
closeVars == <<cpc, cRelay>>
sweepVars == <<spc, flush, picks, cutoff>>
clockVars == <<now, restarts>>
vars == <<sessVars, recVars, rowVars, relayVars, viewerVars, detachVars,
          agentVars, closeVars, sweepVars, reads, clockVars>>

\* What a step of each goroutine leaves to the others.
OthersFrame == <<viewerVars, detachVars, agentVars, closeVars, sweepVars,
                 reads, clockVars>>
ViewerFrame == <<detachVars, agentVars, closeVars, sweepVars, clockVars>>
DetachFrame == <<viewerVars, agentVars, closeVars, sweepVars, reads,
                 clockVars>>
AgentFrame == <<viewerVars, detachVars, closeVars, sweepVars, clockVars>>
CloseFrame == <<viewerVars, detachVars, agentVars, sweepVars, reads,
                clockVars>>
SweepFrame == <<viewerVars, detachVars, agentVars, closeVars, reads,
                clockVars>>

\* Values of a goroutine's local variables while they are not in use.
NoSnap == [state |-> "waiting", idle |-> 0]
NoFlush == [idle |-> 0, rec |-> "recording"]

\* A session createSession has just stored, with an operator token out.
Init ==
    /\ now = 0
    /\ state = "waiting" /\ opConnected = FALSE /\ agConnected = FALSE
    /\ token = TRUE /\ idle = IdleTimeout /\ dirty = FALSE
    /\ rec = "recording" /\ frames = 0 /\ recRow = "recording"
    /\ finalized = FALSE /\ sealed = 0 /\ appended = 0
    /\ row = "waiting" /\ idleRow = IdleTimeout
    /\ relay = "none" /\ closing = "no" /\ opStop = NoOne /\ stopped = {}
    /\ detached = FALSE /\ socks = {} /\ agSock = "none"
    /\ vpc = [v \in Viewers |-> "idle"]
    /\ snap = [v \in Viewers |-> NoSnap]
    /\ dpc = [t \in Detachers |-> "no"]
    /\ dOwner = [t \in Detachers |-> NoOne]
    /\ dTaken = [t \in Detachers |-> NoOne]
    /\ dState = [t \in Detachers |-> "waiting"]
    /\ apc = "idle" /\ aState = "waiting"
    /\ cpc = "idle" /\ cRelay = FALSE
    /\ spc = "idle" /\ flush = NoFlush /\ picks = {} /\ cutoff = 0
    /\ reads = 0 /\ restarts = 0

Tick ==
    /\ now < MaxNow
    /\ now' = now + 1
    /\ UNCHANGED <<sessVars, recVars, rowVars, relayVars, viewerVars,
                   detachVars, agentVars, closeVars, sweepVars, reads,
                   restarts>>

-----------------------------------------------------------------------------
(* The recording. *)

\* RecordFrame: one frame of a pump.  typing says it is the operator's stdin
\* or resize (a close frame, which ends the session, is taken for one too).
RecordFrame(typing) ==
    \/ /\ rec = "bounded"
       /\ UNCHANGED <<recVars, idle, dirty>>
    \/ /\ rec # "bounded" /\ appended + 1 > MaxRecording
       /\ rec' = "bounded" /\ recRow' = "bounded"
       /\ frames' = frames + 1 /\ appended' = appended + 1  \* the marker
       /\ UNCHANGED <<finalized, sealed, idle, dirty>>
    \/ /\ rec # "bounded" /\ appended + 1 <= MaxRecording
       /\ frames' = frames + 1 /\ appended' = appended + 1
       /\ idle' = IF typing THEN now + IdleTimeout ELSE idle
       /\ dirty' = TRUE
       /\ UNCHANGED <<rec, recRow, finalized, sealed>>

SealSkipped == UNCHANGED recVars

SealFailsEmpty ==
    \/ rec = "sealed" /\ UNCHANGED recVars
    \/ /\ rec # "sealed"
       /\ rec' = "seal_failed" /\ recRow' = "seal_failed" /\ frames' = 0
       /\ UNCHANGED <<finalized, sealed, appended>>

\* SealSessionRecording.  A bundle takes one receipt: finalizing it again
\* fails, and so may the store.
Seal ==
    \/ /\ rec = "sealed"
       /\ UNCHANGED recVars
    \/ /\ rec # "sealed" /\ ~HasEvidence
       /\ rec' = IF rec = "bounded" THEN rec ELSE "closed"
       /\ recRow' = rec'
       /\ UNCHANGED <<frames, finalized, sealed, appended>>
    \/ /\ rec # "sealed" /\ HasEvidence /\ ~finalized
       /\ rec' = "sealed" /\ recRow' = "sealed"
       /\ finalized' = TRUE /\ sealed' = frames /\ frames' = 0
       /\ UNCHANGED appended
    \/ /\ rec # "sealed" /\ HasEvidence
       /\ rec' = "seal_failed" /\ recRow' = "seal_failed"
       /\ UNCHANGED <<frames, finalized, sealed, appended>>

\* GetSessionRecording: frames in memory first, then the evidence item.
ReadBack == IF frames > 0 THEN frames ELSE sealed

-----------------------------------------------------------------------------
(* PairedRelay.Close: closeOnce runs its body once, step by step; a later  *)
(* caller waits for it to finish.                                          *)

BeginClose == relay = "open" /\ relay' = "closed" /\ closing' = "memory"
Closed == closing = "done"

CloseMemory ==
    /\ closing = "memory" /\ closing' = "row"
    /\ state' = "closed"
    /\ UNCHANGED <<connVars, token, idleVars, recVars, rowVars, relay,
                   attachVars, sockVars, OthersFrame>>

CloseRow ==
    /\ closing = "row" /\ closing' = "sockets"
    /\ row' = "closed"
    /\ UNCHANGED <<sessVars, recVars, idleRow, relay, attachVars, sockVars,
                   OthersFrame>>

\* Closes the sockets the relay holds at this moment.
CloseSockets ==
    /\ closing = "sockets" /\ closing' = "seal"
    /\ socks' = socks \ {opStop}
    /\ agSock' = IF agSock = "open" THEN "closed" ELSE agSock
    /\ UNCHANGED <<sessVars, recVars, rowVars, relay, attachVars, OthersFrame>>

CloseSeal ==
    /\ closing = "seal" /\ closing' = "done"
    /\ Seal
    /\ UNCHANGED <<sessVars, rowVars, relay, attachVars, sockVars, OthersFrame>>

\* A goroutine of the session calls Close.
CallClose ==
    \/ BeginClose
    \/ relay = "closed" /\ UNCHANGED onceVars

-----------------------------------------------------------------------------
(* detachAttachment, run by caller t: a viewer's own pumps (dOwner[t] = t),*)
(* or DetachOperator from a superseding viewer or from DetachSession       *)
(* (dOwner[t] = NoOne: whichever attachment is current).                   *)

StartDetach(t, owner) ==
    /\ dpc' = [dpc EXCEPT ![t] = "check"]
    /\ dOwner' = [dOwner EXCEPT ![t] = owner]
    /\ UNCHANGED <<dTaken, dState>>

DetachReturns(t) ==
    /\ dpc' = [dpc EXCEPT ![t] = "no"]
    /\ dOwner' = [dOwner EXCEPT ![t] = NoOne]
    /\ dTaken' = [dTaken EXCEPT ![t] = NoOne]
    /\ dState' = [dState EXCEPT ![t] = "waiting"]

\* isClosed, before the lock.
DetachCheck(t) ==
    /\ dpc[t] = "check"
    /\ \/ relay = "closed" /\ DetachReturns(t)
       \/ /\ relay # "closed"
          /\ dpc' = [dpc EXCEPT ![t] = "take"]
          /\ UNCHANGED <<dOwner, dTaken, dState>>
    /\ UNCHANGED <<sessVars, recVars, rowVars, relayVars, DetachFrame>>

NotMineNoOwner(t) == opStop = NoOne

\* Already detached, or superseded: a pump leaves its successor alone.
NotMine(t) == opStop = NoOne \/ dOwner[t] \notin {NoOne, opStop}

DetachTake(t) ==
    /\ dpc[t] = "take"
    /\ \/ NotMine(t) /\ DetachReturns(t) /\ UNCHANGED opStop
       \/ /\ ~NotMine(t)
          /\ dpc' = [dpc EXCEPT ![t] = "stop"]
          /\ dTaken' = [dTaken EXCEPT ![t] = opStop]
          /\ opStop' = NoOne
          /\ UNCHANGED <<dOwner, dState>>
    /\ UNCHANGED <<sessVars, recVars, rowVars, onceVars, stopped, detached,
                   sockVars, DetachFrame>>

\* Stops the attachment's write pump; its queued output is discarded.
DetachStop(t) ==
    /\ dpc[t] = "stop"
    /\ dpc' = [dpc EXCEPT ![t] = "mark"]
    /\ stopped' = stopped \cup {dTaken[t]}
    /\ detached' = TRUE
    /\ UNCHANGED <<sessVars, recVars, rowVars, onceVars, opStop, sockVars,
                   dOwner, dTaken, dState, DetachFrame>>

AfterDetachAlways == "detached"

\* Only a live session detaches.
AfterDetach ==
    IF state \in {"active", "connecting"} THEN "detached" ELSE state

DetachMark(t) ==
    /\ dpc[t] = "mark"
    /\ dpc' = [dpc EXCEPT ![t] = "write"]
    /\ opConnected' = FALSE
    /\ state' = AfterDetach
    /\ dState' = [dState EXCEPT ![t] = state']
    /\ UNCHANGED <<agConnected, token, idleVars, recVars, rowVars, relayVars,
                   dOwner, dTaken, DetachFrame>>

DetachWrite(t) ==
    /\ dpc[t] = "write"
    /\ dpc' = [dpc EXCEPT ![t] = "shut"]
    /\ row' = dState[t]
    /\ UNCHANGED <<sessVars, recVars, idleRow, relayVars, dOwner, dTaken,
                   dState, DetachFrame>>

DetachShut(t) ==
    /\ dpc[t] = "shut" /\ DetachReturns(t)
    /\ socks' = socks \ {dTaken[t]}
    /\ UNCHANGED <<sessVars, recVars, rowVars, onceVars, attachVars, agSock,
                   DetachFrame>>

Detach(t) ==
    \/ DetachCheck(t) \/ DetachTake(t) \/ DetachStop(t)
    \/ DetachMark(t) \/ DetachWrite(t) \/ DetachShut(t)

\* DetachSession; refused while there is no relay.
DetachSession ==
    /\ "detach" \in Requests /\ dpc[Admin] = "no" /\ relay # "none"
    /\ StartDetach(Admin, NoOne)
    /\ UNCHANGED <<sessVars, recVars, rowVars, relayVars, DetachFrame>>

-----------------------------------------------------------------------------
(* AttachOperator and the operator's read pump. *)

Goto(v, p) == vpc' = [vpc EXCEPT ![v] = p]

\* RotateOperatorToken, refused once the session has ended.
RotateOperatorToken ==
    /\ state \notin EndedStates /\ ~token
    /\ token' = TRUE
    /\ UNCHANGED <<state, connVars, idleVars, recVars, rowVars, relayVars,
                   OthersFrame>>

\* The token is checked and consumed in one step.
ConsumeToken(v) ==
    /\ vpc[v] = "idle" /\ token
    /\ token' = FALSE
    /\ Goto(v, "opened")
    /\ UNCHANGED <<state, connVars, idleVars, recVars, rowVars, relayVars,
                   snap, reads, ViewerFrame>>

\* The viewer becomes the session's operator, under sess.mu.
Claim(v) ==
    /\ relay' = IF relay = "none" THEN "open" ELSE relay
    /\ opConnected' = TRUE
    /\ state' = IF agConnected THEN "active" ELSE "connecting"
    /\ idle' = now + IdleTimeout
    /\ snap' = [snap EXCEPT ![v] = [state |-> state', idle |-> idle']]
    /\ Goto(v, "claimed")

Refuse(v) ==
    /\ Goto(v, "gone")
    /\ UNCHANGED <<state, opConnected, idle, relay, snap>>

FreeUnlessEnded == state \notin EndedStates

Free == state \notin EndedStates /\ ~opConnected

\* The session under sess.mu: refused, or superseding the operator, or taken.
Admit(v) ==
    /\ vpc[v] = "opened"
    /\ \/ state \in EndedStates /\ Refuse(v) /\ UNCHANGED detachVars
       \/ /\ state \notin EndedStates /\ opConnected
          /\ Goto(v, "superseding") /\ StartDetach(v, NoOne)
          /\ UNCHANGED <<state, opConnected, idle, relay, snap>>
       \/ Free /\ Claim(v) /\ UNCHANGED detachVars
    /\ UNCHANGED <<agConnected, token, dirty, recVars, rowVars, closing,
                   attachVars, sockVars, agentVars, closeVars, sweepVars,
                   reads, clockVars>>

\* Again, after DetachOperator has returned.
Readmit(v) ==
    /\ vpc[v] = "superseding" /\ dpc[v] = "no"
    /\ \/ Free /\ Claim(v)
       \/ ~Free /\ Refuse(v)
    /\ UNCHANGED <<agConnected, token, dirty, recVars, rowVars, closing,
                   attachVars, sockVars, reads, ViewerFrame>>

WriteState(v) ==
    /\ vpc[v] = "claimed" /\ Goto(v, "stored")
    /\ row' = snap[v].state
    /\ UNCHANGED <<sessVars, recVars, idleRow, relayVars, snap, reads,
                   ViewerFrame>>

WriteIdle(v) ==
    /\ vpc[v] = "stored" /\ Goto(v, "upgrading")
    /\ idleRow' = snap[v].idle
    /\ snap' = [snap EXCEPT ![v] = NoSnap]
    /\ UNCHANGED <<sessVars, recVars, row, relayVars, reads, ViewerFrame>>

\* The WebSocket upgrade, and the attachment is installed in the relay.
Install(v) ==
    /\ vpc[v] = "upgrading" /\ Goto(v, "installed")
    /\ opStop' = v /\ socks' = socks \cup {v}
    /\ UNCHANGED <<sessVars, recVars, rowVars, onceVars, stopped, detached,
                   agSock, snap, reads, ViewerFrame>>

UpgradeFails(v) ==
    /\ vpc[v] = "upgrading" /\ Goto(v, "gone")
    /\ opConnected' = FALSE
    /\ UNCHANGED <<state, agConnected, token, idleVars, recVars, rowVars,
                   relayVars, snap, reads, ViewerFrame>>

ResumeDetached(v) ==
    /\ vpc[v] = "installed" /\ Goto(v, "pump")
    /\ UNCHANGED <<sessVars, recVars, rowVars, relayVars, snap, reads,
                   ViewerFrame>>

\* The agent's output is queued for this viewer from here on.
Resume(v) ==
    /\ vpc[v] = "installed" /\ Goto(v, "pump")
    /\ detached' = FALSE
    /\ UNCHANGED <<sessVars, recVars, rowVars, onceVars, opStop, stopped,
                   sockVars, snap, reads, ViewerFrame>>

ViewerReads(v) ==
    /\ vpc[v] = "pump" /\ v \in socks /\ reads < MaxReads
    /\ reads' = reads + 1
    /\ Goto(v, "read")
    /\ UNCHANGED <<sessVars, recVars, rowVars, relayVars, snap,
                   ViewerFrame>>

ViewerRecords(v) ==
    /\ vpc[v] = "read" /\ Goto(v, "forward")
    /\ RecordFrame(TRUE)
    /\ UNCHANGED <<state, connVars, token, rowVars, relayVars, snap, reads,
                   ViewerFrame>>

\* The frame goes into the agent's queue.  When the relay is closed or the
\* attachment stopped, Go's select may still choose the queue.
ViewerForwards(v) ==
    /\ vpc[v] = "forward" /\ Goto(v, "pump")
    /\ UNCHANGED <<sessVars, recVars, rowVars, relayVars, snap, reads,
                   ViewerFrame>>

\* The read pump returns: its socket failed, or it saw done or stop.  Its
\* deferred detach does nothing if the write pump is detaching already.
ViewerLeaves(v) ==
    /\ \/ vpc[v] = "pump"
       \/ vpc[v] = "forward" /\ (relay = "closed" \/ v \in stopped)
    /\ Goto(v, "leaving")
    /\ \/ dpc[v] = "no" /\ StartDetach(v, v)
       \/ dpc[v] # "no" /\ UNCHANGED detachVars
    /\ UNCHANGED <<sessVars, recVars, rowVars, relayVars, snap, agentVars,
                   closeVars, sweepVars, reads, clockVars>>

\* operatorWritePump fails; the read pump is wherever it is.
WritePumpFails(v) ==
    /\ vpc[v] \in {"pump", "read", "forward"} /\ dpc[v] = "no"
    /\ v \notin stopped /\ relay # "closed"
    /\ StartDetach(v, v)
    /\ UNCHANGED <<sessVars, recVars, rowVars, relayVars, DetachFrame>>

\* A malformed or forbidden frame, or (after it is recorded) a close frame.
ViewerEndsSession(v) ==
    /\ vpc[v] \in {"read", "forward"} /\ Goto(v, "closing")
    /\ CallClose
    /\ UNCHANGED <<sessVars, recVars, rowVars, attachVars, sockVars, snap,
                   reads, ViewerFrame>>

\* The handler returns; after Close its deferred detach does nothing.
ViewerReturns(v) ==
    /\ \/ vpc[v] = "leaving" /\ dpc[v] = "no"
       \/ vpc[v] = "closing" /\ Closed
    /\ Goto(v, "gone")
    /\ UNCHANGED <<sessVars, recVars, rowVars, relayVars, snap, reads,
                   ViewerFrame>>

\* Steps a handler takes by itself once it has started.
ViewerProceeds(v) ==
    \/ Admit(v) \/ Readmit(v) \/ WriteState(v) \/ WriteIdle(v)
    \/ Install(v) \/ UpgradeFails(v) \/ Resume(v)
    \/ ViewerRecords(v) \/ ViewerForwards(v) \/ ViewerEndsSession(v)
    \/ ViewerReturns(v)

-----------------------------------------------------------------------------
(* AttachAgent and the agent's pumps. *)

AgentClaims ==
    /\ "agent" \in Requests /\ apc = "idle"
    /\ state \notin EndedStates /\ ~agConnected
    /\ relay' = IF relay = "none" THEN "open" ELSE relay
    /\ agConnected' = TRUE
    /\ state' = IF opConnected THEN "active" ELSE "connecting"
    /\ aState' = state'
    /\ apc' = "claimed"
    /\ UNCHANGED <<opConnected, token, idleVars, recVars, rowVars, closing,
                   attachVars, sockVars, reads, AgentFrame>>

AgentWriteState ==
    /\ apc = "claimed" /\ apc' = "upgrading"
    /\ row' = aState /\ aState' = "waiting"
    /\ UNCHANGED <<sessVars, recVars, idleRow, relayVars, reads, AgentFrame>>

AgentInstalls ==
    /\ apc = "upgrading" /\ apc' = "pump"
    /\ agSock' = "open"
    /\ UNCHANGED <<sessVars, recVars, rowVars, onceVars, attachVars, socks,
                   aState, reads, AgentFrame>>

\* The agent may try again.
AgentUpgradeFails ==
    /\ apc = "upgrading" /\ apc' = "idle"
    /\ agConnected' = FALSE
    /\ UNCHANGED <<state, opConnected, token, idleVars, recVars, rowVars,
                   relayVars, aState, reads, AgentFrame>>

AgentReads ==
    /\ apc = "pump" /\ agSock = "open" /\ reads < MaxReads
    /\ apc' = "read" /\ reads' = reads + 1
    /\ UNCHANGED <<sessVars, recVars, rowVars, relayVars, aState,
                   AgentFrame>>

AgentRecords ==
    /\ apc = "read" /\ apc' = "forward"
    /\ RecordFrame(FALSE)
    /\ UNCHANGED <<state, connVars, token, rowVars, relayVars, aState, reads,
                   AgentFrame>>

\* Queued for the operator, or left to the recording while detached.
AgentForwards ==
    /\ apc = "forward" /\ apc' = "pump"
    /\ UNCHANGED <<sessVars, recVars, rowVars, relayVars, aState, reads,
                   AgentFrame>>

\* The read pump ends: socket failure, a bad or close frame, or done.
AgentLeaves ==
    /\ apc \in {"pump", "read", "forward"} /\ apc' = "closing"
    /\ CallClose
    /\ UNCHANGED <<sessVars, recVars, rowVars, attachVars, sockVars, aState,
                   reads, AgentFrame>>

\* agentWritePump fails; the read pump is wherever it is.
AgentWriteFails ==
    /\ apc \in {"pump", "read", "forward"}
    /\ BeginClose
    /\ UNCHANGED <<sessVars, recVars, rowVars, attachVars, sockVars,
                   OthersFrame>>

AgentReturns ==
    /\ apc = "closing" /\ Closed
    /\ apc' = "gone"
    /\ UNCHANGED <<sessVars, recVars, rowVars, relayVars, aState, reads,
                   AgentFrame>>

-----------------------------------------------------------------------------
(* CloseSession *)

CloseSession ==
    /\ "close" \in Requests /\ cpc = "idle" /\ cpc' = "row"
    /\ state' = "closed"
    /\ cRelay' = (relay # "none")
    /\ UNCHANGED <<connVars, token, idleVars, recVars, rowVars, relayVars,
                   CloseFrame>>

CloseSessionRow ==
    /\ cpc = "row" /\ cpc' = IF cRelay THEN "relay" ELSE "seal"
    /\ row' = "closed" /\ cRelay' = FALSE
    /\ UNCHANGED <<sessVars, recVars, idleRow, relayVars, CloseFrame>>

CloseSessionRelay ==
    /\ cpc = "relay"
    /\ \/ BeginClose /\ UNCHANGED cpc
       \/ Closed /\ cpc' = "seal" /\ UNCHANGED onceVars
    /\ UNCHANGED <<sessVars, recVars, rowVars, attachVars, sockVars, cRelay,
                   CloseFrame>>

CloseSessionSeal ==
    /\ cpc = "seal" /\ cpc' = "done"
    /\ Seal
    /\ UNCHANGED <<sessVars, rowVars, relayVars, cRelay, CloseFrame>>

-----------------------------------------------------------------------------
(* Sweep *)

\* flushDirty collects the counters under the locks ...
SweepStart ==
    /\ "sweep" \in Requests /\ spc = "idle"
    /\ spc' = IF dirty THEN "flush" ELSE "select"
    /\ flush' = IF dirty THEN [idle |-> idle, rec |-> rec] ELSE flush
    /\ dirty' = FALSE
    /\ UNCHANGED <<state, connVars, token, idle, recVars, rowVars, relayVars,
                   picks, cutoff, SweepFrame>>

\* ... and writes them after.
SweepFlush ==
    /\ spc = "flush" /\ spc' = "select"
    /\ idleRow' = flush.idle /\ recRow' = flush.rec /\ flush' = NoFlush
    /\ UNCHANGED <<sessVars, rec, frames, finalized, sealed, appended, row,
                   relayVars, picks, cutoff, SweepFrame>>

Add(cause, new) == picks' = IF cause THEN picks \cup {new} ELSE picks

\* sweepExpiredSessions queries the row three times, for the time at which
\* the sweep began: no connection in time ...
SweepConnect ==
    /\ spc = "select" /\ spc' = "idlers"
    /\ cutoff' = now
    /\ Add(row \in {"waiting", "connecting"} /\ ConnectTimeout < now, "failed")
    /\ UNCHANGED <<sessVars, recVars, rowVars, relayVars, flush, SweepFrame>>

\* ... an operator idle for too long ...
SweepIdle ==
    /\ spc = "idlers" /\ spc' = "elders"
    /\ Add(row \in {"active", "detached"} /\ idleRow < cutoff, "expired")
    /\ UNCHANGED <<sessVars, recVars, rowVars, relayVars, flush, cutoff,
                   SweepFrame>>

SweepableNoDetached == LiveStates \ {"detached"}

Sweepable == LiveStates

\* ... and a session too old.
SweepDuration ==
    /\ spc = "elders"
    /\ Add(row \in Sweepable /\ MaxDuration < cutoff, "expired")
    /\ spc' = IF picks' = {} THEN "idle" ELSE "fail"
    /\ cutoff' = 0
    /\ UNCHANGED <<sessVars, recVars, rowVars, relayVars, flush, SweepFrame>>

\* Updates of the row, in the order of the queries; each takes a live row.
SweepRow(new) ==
    /\ row' = IF new \in picks /\ row \in LiveStates THEN new ELSE row
    /\ UNCHANGED <<sessVars, recVars, idleRow, relayVars, flush, picks, cutoff,
                   SweepFrame>>

SweepFail == spc = "fail" /\ spc' = "expire" /\ SweepRow("failed")
SweepExpire == spc = "expire" /\ spc' = "memory" /\ SweepRow("expired")

SweptWithRelay ==
    IF relay = "none" THEN state
    ELSE IF "expired" \in picks THEN "expired" ELSE "failed"

\* In memory the last one stands, whatever the session's state is now.
Swept == IF "expired" \in picks THEN "expired" ELSE "failed"

SweepMemory ==
    /\ spc = "memory"
    /\ spc' = IF relay = "none" THEN "seal" ELSE "relay"
    /\ state' = Swept
    /\ picks' = {}
    /\ UNCHANGED <<connVars, token, idleVars, recVars, rowVars, relayVars,
                   flush, cutoff, SweepFrame>>

SweepRelay ==
    /\ spc = "relay"
    /\ \/ BeginClose /\ UNCHANGED spc
       \/ Closed /\ spc' = "seal" /\ UNCHANGED onceVars
    /\ UNCHANGED <<sessVars, recVars, rowVars, attachVars, sockVars, flush,
                   picks, cutoff, SweepFrame>>

SweepSeal ==
    /\ spc = "seal" /\ spc' = "idle"
    /\ Seal
    /\ UNCHANGED <<sessVars, rowVars, relayVars, flush, picks, cutoff,
                   SweepFrame>>

Sweep ==
    \/ SweepStart \/ SweepFlush
    \/ SweepConnect \/ SweepIdle \/ SweepDuration \/ SweepFail \/ SweepExpire
    \/ SweepMemory \/ SweepRelay \/ SweepSeal

-----------------------------------------------------------------------------
\* The hub stops and starts: initStore fails what the row says is live, and
\* the session is loaded from its row when next asked for.
Restart ==
    /\ restarts < MaxRestarts
    /\ restarts' = restarts + 1
    /\ row' = IF row \in LiveStates THEN "failed" ELSE row
    /\ state' = row'
    /\ opConnected' \in BOOLEAN /\ agConnected' \in BOOLEAN  \* as the row says
    /\ idle' = idleRow /\ dirty' = FALSE
    /\ rec' = recRow /\ frames' = 0
    /\ relay' = "none" /\ closing' = "no" /\ opStop' = NoOne /\ stopped' = {}
    /\ detached' = FALSE /\ socks' = {} /\ agSock' = "none"
    /\ vpc' = [v \in Viewers |-> "idle"]
    /\ snap' = [v \in Viewers |-> NoSnap]
    /\ dpc' = [t \in Detachers |-> "no"]
    /\ dOwner' = [t \in Detachers |-> NoOne]
    /\ dTaken' = [t \in Detachers |-> NoOne]
    /\ dState' = [t \in Detachers |-> "waiting"]
    /\ apc' = "idle" /\ aState' = "waiting"
    /\ cpc' = "idle" /\ cRelay' = FALSE
    /\ spc' = "idle" /\ flush' = NoFlush /\ picks' = {} /\ cutoff' = 0
    /\ UNCHANGED <<token, idleRow, recRow, finalized, sealed, appended,
                   reads, now>>

Next ==
    \/ Tick \/ Restart
    \/ RotateOperatorToken \/ DetachSession
    \/ \E t \in Detachers : Detach(t)
    \/ \E v \in Viewers :
          \/ ConsumeToken(v) \/ ViewerReads(v) \/ ViewerLeaves(v)
          \/ WritePumpFails(v) \/ ViewerProceeds(v)
    \/ AgentClaims \/ AgentWriteState \/ AgentInstalls \/ AgentUpgradeFails
    \/ AgentReads \/ AgentRecords \/ AgentForwards \/ AgentLeaves
    \/ AgentWriteFails \/ AgentReturns
    \/ CloseMemory \/ CloseRow \/ CloseSockets \/ CloseSeal
    \/ CloseSession \/ CloseSessionRow \/ CloseSessionRelay
    \/ CloseSessionSeal
    \/ Sweep

Spec == Init /\ [][Next]_vars

\* The clock, the sweeper's ticker and every goroutine that has something to
\* do go on; requests, frames, failures and restarts need not come.
FairSpec ==
    /\ Spec
    /\ WF_vars(Tick) /\ WF_vars(Sweep)
    /\ \A t \in Detachers : WF_vars(Detach(t))
    /\ \A v \in Viewers : WF_vars(ViewerProceeds(v))
    /\ WF_vars(AgentWriteState \/ AgentInstalls \/ AgentUpgradeFails)
    /\ WF_vars(AgentRecords \/ AgentForwards \/ AgentReturns)
    /\ WF_vars(CloseMemory \/ CloseRow \/ CloseSockets \/ CloseSeal)
    /\ WF_vars(CloseSessionRow \/ CloseSessionRelay \/ CloseSessionSeal)

-----------------------------------------------------------------------------
(* Properties *)

States == LiveStates \cup EndedStates
RecordingStates == {"recording", "bounded", "closed", "sealed", "seal_failed"}
ViewerSteps == {"idle", "opened", "superseding", "claimed", "stored", "upgrading",
                "installed", "pump", "read", "forward", "leaving", "closing",
                "gone"}
DetachSteps == {"no", "check", "take", "stop", "mark", "write", "shut"}

\* The values the session, its row, the relay and the goroutines take.
TypeOK ==
    /\ now \in Nat /\ idle \in Nat /\ idleRow \in Nat
    /\ state \in States /\ row \in States
    /\ opConnected \in BOOLEAN /\ agConnected \in BOOLEAN /\ token \in BOOLEAN
    /\ dirty \in BOOLEAN /\ detached \in BOOLEAN /\ finalized \in BOOLEAN
    /\ rec \in RecordingStates /\ recRow \in RecordingStates
    /\ frames \in Nat /\ sealed \in Nat /\ appended \in Nat
    /\ relay \in {"none", "open", "closed"}
    /\ closing \in {"no", "memory", "row", "sockets", "seal", "done"}
    /\ opStop \in Viewers \cup {NoOne}
    /\ stopped \subseteq Viewers /\ socks \subseteq Viewers
    /\ agSock \in {"none", "open", "closed"}
    /\ vpc \in [Viewers -> ViewerSteps]
    /\ snap \in [Viewers -> [state : States, idle : Nat]]
    /\ dpc \in [Detachers -> DetachSteps]
    /\ dOwner \in [Detachers -> Viewers \cup {NoOne}]
    /\ dTaken \in [Detachers -> Viewers \cup {NoOne}]
    /\ dState \in [Detachers -> States]
    /\ apc \in {"idle", "claimed", "upgrading", "pump", "read", "forward",
                "closing", "gone"}
    /\ aState \in States
    /\ cpc \in {"idle", "row", "relay", "seal", "done"} /\ cRelay \in BOOLEAN
    /\ spc \in {"idle", "flush", "select", "idlers", "elders", "fail", "expire",
                "memory", "relay", "seal"}
    /\ cutoff \in Nat
    /\ flush \in [idle : Nat, rec : RecordingStates]
    /\ picks \subseteq {"failed", "expired"}
    /\ reads \in Nat /\ restarts \in Nat

\* A session that was closed, failed or expired never comes back to life:
\* not by an attach that was under way, a detach finishing late, an agent
\* dialling in, or a restart.
EndedStaysEnded ==
    [][(state \in EndedStates) => (state' \in EndedStates)]_vars

\* A live session holds its slot: the caps count rows, and until a
\* sweep is updating it a session that is live in memory is live in its row,
\* whichever goroutine wrote the row last.
SlotHeld ==
    state \in LiveStates /\ spc \notin {"expire", "memory"}
    => row \in LiveStates

Attached(v) == vpc[v] \in {"installed", "pump", "read", "forward"}

\* At most one operator attachment is running that has not been told to
\* stop, however attaches, take-overs and failures overlap.
OneOperator ==
    \A v, w \in Viewers :
        /\ Attached(v) /\ v \notin stopped
        /\ Attached(w) /\ w \notin stopped
        => v = w

\* The operator that owns the relay gets the agent's output: the detached
\* flag a predecessor's detach raised cannot outlive the new attachment's
\* clearing of it.
OperatorIsFed ==
    \A v \in Viewers :
        opStop = v /\ Attached(v) /\ vpc[v] # "installed" => ~detached

\* A viewer's goroutines stop another viewer's attachment only while that
\* viewer is taking the session over: a pump that dies late, after it was
\* superseded, does not detach its successor.
SuccessorLeftAlone ==
    \A v \in Viewers :
        dTaken[v] \notin {NoOne, v} => vpc[v] = "superseding"

\* Every session ends within its maximum duration, in memory and in its row;
\* a row that a late write made live again is swept again.
AlwaysEnds == <>[](state \in EndedStates /\ row \in EndedStates)

\* However a session ends, its recording is closed, unless the hub stopped.
RecordingCloses ==
    state \in EndedStates ~> rec # "recording" \/ restarts > 0

\* No recorded frame is lost before a restart: whatever pumps record while
\* several goroutines close and seal the session, each frame is in memory or
\* in the one evidence item the session names.
FramesKept == restarts = 0 => sealed + frames = appended

\* "GetSessionRecording returns all recorded frames for a session, decrypting
\* from evidence store if sealed" (session.go).  The code does not do that for
\* a frame recorded after the seal.
ReadsWholeRecording == rec = "sealed" /\ restarts = 0 => ReadBack = appended
=============================================================================
