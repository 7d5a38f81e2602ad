--------------------------- MODULE BmsSessionProofs ---------------------------
(***************************************************************************)
(* What holds of an update over any transport, for any bounds on the tries *)
(* and on what is on the line.                                             *)
(***************************************************************************)
EXTENDS BmsSession, TLAPS

Outside == {"idle", "open", "opened"}

\* The drivers of preh.c and si.c have no session of their own when the transport is
\* not open, and of the others none is left between two updates.
SessionInv ==
    /\ pc \in Outside => ~open
    /\ pc = "idle" /\ conn # "none" => Notes

\* Over can_ip these two drivers get past the frames they cannot do without only by a
\* frame that was never received.
MadeUpInv ==
    Notes /\ kind = "can_ip" =>
        /\ ok \/ updated => hollow
        /\ pc \in {"read", "clear", "judge"} /\ req # Needed => hollow

-----------------------------------------------------------------------------
(* What the transport and the driver each leave alone.                     *)

\* A call on the handle keeps the transport's kind, the request and whether a made-up
\* frame was used; it neither begins nor ends an update.
LEMMA TransportStep ==
    ASSUME Open \/ Write \/ Read
    PROVE  /\ kind' = kind /\ req' = req /\ hollow' = hollow
           /\ \/ pc = "open" /\ pc' = "opened"
              \/ pc = "write" /\ pc' \in {"write", "written"}
              \/ pc \in {"read", "clear"} /\ pc' \in {"read", "clear", "judge"}
<1>1. CASE Open
  BY <1>1 DEF Open, OpenAlready, OpenSucceeds, OpenFails, SetupFails, At, user, history,
              handle, far, inbox
<1>2. CASE Write
  BY <1>2 DEF Write, WriteStream, WriteFrame, WriteFails, DiesOfPipe, At, user, history,
              handle, far, inbox, result
<1>3. CASE Read
  <2>1. CASE ReadStream \/ ReadFails \/ ReadFrame \/ ReadHollow
    BY <2>1 DEF ReadStream, ReadFails, ReadFrame, ReadHollow, At, user, history, handle, far, inbox
  <2>2. CASE BtNothing \/ BtTake \/ BtClear \/ DiesOfPipe("read")
    BY <2>2 DEF BtNothing, BtTake, BtClear, DiesOfPipe, At, user, history, handle, far, inbox,
                result
  <2> QED
    BY <1>3, <2>1, <2>2 DEF Read
<1> QED
  BY <1>1, <1>2, <1>3

\* The same for the steps of a driver between two calls; a made-up frame is recorded.
LEMMA JbdStep ==
    ASSUME JbdSteps
    PROVE  /\ drv = "jbd" /\ handle' = handle /\ who' = who
           /\ pc \in {"written", "judge"}
           /\ pc' \in {Begin, "read", "write", "close"}
<1>1. CASE RwWritten \/ CanWritten
  BY <1>1 DEF RwWritten, CanWritten, At, Jbd, driver
<1>2. CASE RwError \/ CanError
  BY <1>2 DEF RwError, CanError, Jbd, Refuse, Return
<1>3. CASE RwAccept \/ CanAccept
  BY <1>3 DEF RwAccept, CanAccept, Jbd, Accept, Proceed
<1>4. CASE RwAgain \/ CanAgain
  BY <1>4 DEF RwAgain, CanAgain, Jbd, Again, Return
<1> QED
  BY <1>1, <1>2, <1>3, <1>4 DEF JbdSteps

LEMMA JkStep ==
    ASSUME JkSteps
    PROVE  /\ drv = "jk" /\ handle' = handle /\ who' = who
           /\ pc \in {"written", "judge"}
           /\ pc' \in {"read", "write", "close"}
<1>1. CASE JkWritten \/ JkWriteError \/ InfoError
  BY <1>1 DEF JkWritten, JkWriteError, InfoError, Jk, Refuse, Return, driver
<1>2. CASE InfoDone \/ InfoAgain \/ VoltsCome
  BY <1>2 DEF InfoDone, InfoAgain, VoltsCome, Jk, Return, driver
<1>3. CASE VoltsWait \/ VoltsNever
  BY <1>3 DEF VoltsWait, VoltsNever, Jk, Refuse, Return, driver
<1> QED
  BY <1>1, <1>2, <1>3 DEF JkSteps

LEMMA RemoteStep ==
    ASSUME RemoteSteps
    PROVE  /\ Notes /\ kind = "can_ip" /\ handle' = handle /\ who' = who
           /\ pc = "judge" /\ pc' \in {"read", "close"}
<1>1. CASE FrameTaken
  BY <1>1 DEF FrameTaken, Remote, Accept, Proceed, Begin
<1>2. CASE FrameAgain \/ FrameMissing
  BY <1>2 DEF FrameAgain, FrameMissing, Remote, Return, Proceed, Begin, driver
<1> QED
  BY <1>1, <1>2 DEF RemoteSteps

LEMMA PrehStep ==
    ASSUME PrehSteps
    PROVE  /\ drv = "preh" /\ kind = "can" /\ handle' = handle /\ who' = who
           /\ hollow' = hollow /\ got' = got
           /\ pc = "look" /\ pc' \in {"look", "close"}
<1>1. CASE Wait \/ FoundOther \/ NoState
  BY <1>1 DEF Wait, FoundOther, NoState, Local, GoTo, Return, driver, history
<1>2. CASE FoundCells \/ PassOver
  BY <1>2 DEF FoundCells, TakeCells, PassOver, Local, GoTo, driver, history
<1> QED
  BY <1>1, <1>2 DEF PrehSteps

-----------------------------------------------------------------------------
(* No session is kept.                                                     *)

LEMMA SessionInit == Init => SessionInv
BY DEF Init, SessionInv

LEMMA SessionProgram == ASSUME SessionInv, Program PROVE SessionInv'
<1> USE DEF SessionInv, Outside, Notes
<1>1. CASE (Open \/ Write \/ Read) /\ UNCHANGED <<driver, try, got, mailbox, updated>>
  <2>1. pc' \in Outside => pc = "open" /\ pc' = "opened"
    BY <1>1, TransportStep
  <2> QED
    BY <1>1, <2>1 DEF driver, who
<1>2. CASE JbdSteps \/ JkSteps \/ RemoteSteps \/ PrehSteps
  <2>1. pc' \notin Outside
    BY <1>2, JbdStep, JkStep, RemoteStep, PrehStep DEF Begin
  <2> QED
    BY <2>1
<1>3. CASE Opened
  BY <1>3 DEF Opened, At, Begin
<1>4. CASE NotOpened
  BY <1>4 DEF NotOpened, At, Pack, driver, who, handle
<1>5. CASE Close \/ CloseAll
  BY <1>5 DEF Close, CloseAll, At, CloseDriver, Release, handle
<1>6. CASE AsksToClose /\ DiesOfPipe("close") /\ UNCHANGED <<driver, try, got, mailbox, updated>>
  BY <1>6 DEF DiesOfPipe
<1> QED
  BY <1>1, <1>2, <1>3, <1>4, <1>5, <1>6 DEF Program

LEMMA SessionStep == ASSUME SessionInv, [Next]_vars PROVE SessionInv'
<1> USE DEF SessionInv, Outside, Notes
<1>1. CASE PeerCloses \/ CbCopy \/ CbAdd
  BY <1>1 DEF PeerCloses, CbCopy, CbAdd, driver, who
<1>2. CASE Hear \/ Forget
  BY <1>2 DEF Hear, Forget, driver, who, handle
<1>3. CASE Start
  BY <1>3 DEF Start, At, who
<1>4. CASE Program
  BY <1>4, SessionProgram
<1>5. CASE Kill
  BY <1>5 DEF Kill
<1>6. CASE UNCHANGED vars
  BY <1>6 DEF vars, driver, who, handle
<1> QED
  BY <1>1, <1>2, <1>3, <1>4, <1>5, <1>6 DEF Next, Ended

\* No connection outlives the update it was made for (pack_update, pack_update_all,
\* inverter_read), whichever call of the transport fails and wherever the worker is
\* killed.
THEOREM NoSession == Spec => []NoSessionKept
<1>1. SessionInv => NoSessionKept
  BY DEF SessionInv, NoSessionKept, Outside
<1> QED
  BY <1>1, SessionInit, SessionStep, PTL DEF Spec

-----------------------------------------------------------------------------
(* The updates over can_ip.                                                *)

LEMMA MadeUpInit == Init => MadeUpInv
BY DEF Init, MadeUpInv

LEMMA MadeUpFrame == ASSUME MadeUpInv, RemoteSteps, UNCHANGED updated PROVE MadeUpInv'
<1> USE DEF MadeUpInv, Remote, handle, who, Needed
<1>1. CASE FrameTaken
  <2>1. hollow'
    BY <1>1 DEF FrameTaken, FullSize
  <2> QED
    BY <2>1
<1>2. CASE FrameAgain
  BY <1>2 DEF FrameAgain, Notes, user, history, driver
<1>3. CASE FrameMissing
  <2>1. /\ pc = "judge" /\ hollow' = hollow /\ kind' = kind /\ Notes
        /\ kind = "can_ip" /\ updated' = updated
    BY <1>3 DEF FrameMissing, history, Notes
  <2>2. CASE req = Needed
    BY <1>3, <2>1, <2>2 DEF FrameMissing, Return
  <2>3. CASE req # Needed
    BY <2>1, <2>3
  <2> QED
    BY <2>2, <2>3
<1> QED
  BY <1>1, <1>2, <1>3 DEF RemoteSteps

LEMMA MadeUpProgram == ASSUME MadeUpInv, Program PROVE MadeUpInv'
<1> USE DEF MadeUpInv, Notes
<1>1. CASE (Open \/ Write \/ Read) /\ UNCHANGED <<driver, try, got, mailbox, updated>>
  <2>1. pc' \in {"read", "clear", "judge"} => pc \in {"read", "clear", "judge"}
    BY <1>1, TransportStep
  <2> QED
    BY <1>1, <2>1, TransportStep DEF driver, who
<1>2. CASE (JbdSteps \/ JkSteps) /\ UNCHANGED <<mailbox, updated>>
  BY <1>2, JbdStep, JkStep DEF who
<1>3. CASE RemoteSteps /\ UNCHANGED <<mailbox, updated>>
  BY <1>3, MadeUpFrame
<1>4. CASE PrehSteps /\ UNCHANGED updated
  BY <1>4, PrehStep DEF handle
<1>5. CASE Opened \/ NotOpened
  BY <1>5 DEF Opened, NotOpened, At, Begin, Pack, Needed, handle, history, driver, who, user
<1>6. CASE Close
  <2>1. /\ kind' = kind /\ drv' = drv /\ hollow' = hollow /\ ok' = ok /\ updated' = ok
        /\ pc' \in {"closing", "idle"}
    BY <1>6 DEF Close, At, CloseDriver, Release, handle, history
  <2> QED
    BY <2>1
<1>7. CASE CloseAll
  BY <1>7 DEF CloseAll, At, CloseDriver, Release, handle, history
<1>8. CASE AsksToClose /\ DiesOfPipe("close") /\ UNCHANGED <<driver, try, got, mailbox, updated>>
  BY <1>8 DEF DiesOfPipe, handle, history, driver, who
<1> QED
  BY <1>1, <1>2, <1>3, <1>4, <1>5, <1>6, <1>7, <1>8 DEF Program

LEMMA MadeUpStep == ASSUME MadeUpInv, [Next]_vars PROVE MadeUpInv'
<1> USE DEF MadeUpInv, Notes
<1>1. CASE PeerCloses \/ CbCopy \/ CbAdd
  BY <1>1 DEF PeerCloses, CbCopy, CbAdd, driver, who, user, history
<1>2. CASE (Hear \/ Forget) /\ UNCHANGED updated
  BY <1>2 DEF Hear, Forget, driver, who, handle, user, history
<1>3. CASE Start
  BY <1>3 DEF Start, At, who
<1>4. CASE Program
  BY <1>4, MadeUpProgram
<1>5. CASE Kill
  BY <1>5 DEF Kill, driver, who, history
<1>6. CASE UNCHANGED vars
  BY <1>6 DEF vars, driver, who, handle, user, history
<1> QED
  BY <1>1, <1>2, <1>3, <1>4, <1>5, <1>6 DEF Next, Ended

\* The size that preh.c:112 and si.c:96 wait for is never the size of what can_ip_read
\* received: every update they report over can_ip rests on an uninitialized frame.
THEOREM RemoteMadeUp == Spec => []RemoteUpdatesAreMadeUp
<1>1. MadeUpInv => RemoteUpdatesAreMadeUp
  BY DEF MadeUpInv, RemoteUpdatesAreMadeUp
<1> QED
  BY <1>1, MadeUpInit, MadeUpStep, PTL DEF Spec

=============================================================================
