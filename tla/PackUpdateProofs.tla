-------------------------- MODULE PackUpdateProofs --------------------------
(***************************************************************************)
(* What holds of pack_update_all for every number of packs, slots and      *)
(* threads.  Its steps are steps of the pool (or leave it alone), so what  *)
(* WorkerPoolProofs says of the pool holds of it.  Then what becomes of    *)
(* the packs of a round, and that the rounds implement UpdateRound.        *)
(***************************************************************************)
EXTENDS PackUpdate, WorkerPoolProofs

-----------------------------------------------------------------------------
(* The list cursor, and the pool as pack_update_all uses it.               *)

CursorOK ==
    /\ step \in {"scan", "clear", "submit", "wait", "kill", "close"}
    /\ pp \in 1..(NPacks + 1)
    /\ step = "submit" => pp \in Packs

LEMMA InitCursor == PacksInit => CursorOK
  BY PacksAssumption DEF PacksInit, CursorOK

LEMMA NextCursor == CursorOK /\ [PacksNext]_allvars => CursorOK'
  <1> SUFFICES ASSUME CursorOK, [PacksNext]_allvars PROVE CursorOK'
    OBVIOUS
  <1>1. NPacks \in Nat /\ NPacks # 0
    BY PacksAssumption
  <1>2. CASE UNCHANGED loop
    BY <1>2 DEF CursorOK, loop
  <1>3. CASE EnterRound \/ ClearUpdated \/ SubmitUpdate \/ WaitForUpdates
             \/ KillLate \/ KillDone \/ ClosePack \/ LeaveRound
    BY <1>1, <1>3
    DEF CursorOK, Packs, Loop, EnterRound, ClearUpdated, SubmitUpdate, WaitForUpdates,
        KillLate, KillDone, ClosePack, LeaveRound
  <1>. QED
    BY <1>2, <1>3
    DEF PacksNext, Main, InPool, Locks, Spurious, PoolStep, Updating, Begin, Open,
        OpenError, Read, Close, Mark, Killed, loop, allvars

LEMMA StepOfPool == CursorOK /\ [PacksNext]_allvars => [Next]_vars
  <1> SUFFICES ASSUME CursorOK, [PacksNext]_allvars PROVE [Next]_vars
    OBVIOUS
  <1>1. CASE UNCHANGED vars
    BY <1>1
  <1>2. CASE SubmitUpdate
    BY <1>2, PacksAssumption DEF SubmitUpdate, CursorOK, Packs, Loop, Next
  <1>3. CASE WaitForUpdates \/ KillLate \/ InPool
    BY <1>3 DEF WaitForUpdates, KillLate, InPool, Next
  <1>4. CASE \E t \in Threads : Locks(t) \/ Spurious(t) \/ PoolStep(t) \/ Updating(t) \/ Read(t) \/ Killed(t)
    <2>1. PICK t \in Threads : Worker(t) \/ UNCHANGED vars
      BY <1>4
      DEF Locks, Spurious, PoolStep, Updating, Begin, Open, OpenError, Read, Close, Mark,
          Killed, Worker, Stepping
    <2>. QED
      BY <2>1 DEF Next
  <1>. QED
    BY <1>1, <1>2, <1>3, <1>4
    DEF PacksNext, Main, EnterRound, ClearUpdated, KillDone, ClosePack, LeaveRound, allvars, vars

LEMMA CursorInvariant == PacksSpec => []CursorOK
  BY InitCursor, NextCursor, PTL DEF PacksSpec

\* pack_update_all is a caller of the pool: what it does to the pool is what the
\* pool's specification allows.
THEOREM PacksUseThePool == PacksSpec => Spec
  <1>1. PacksInit => Init
    BY DEF PacksInit
  <1>. QED
    BY <1>1, StepOfPool, CursorInvariant, PTL DEF PacksSpec, Spec

\* Between its lock and its unlock a worker is alone in its slot during a round.
THEOREM PacksMutex == PacksSpec => []SlotMutex
  BY PacksUseThePool, PoolMutex, PTL

\* Only one thread that was not sent the signal ever works for a slot, however many
\* were killed in the rounds before and however long they take to end.
THEOREM PacksOneWorker == PacksSpec => []OneWorkerPerSlot
  BY PacksUseThePool, PoolOneWorker, PTL

-----------------------------------------------------------------------------
(* The end of a round.  The main thread is in the pool's function that its *)
(* place in pack_update_all says, and from the return of worker_killbusy   *)
(* to the next worker_exec no slot has a flag, whenever the signals arrive *)
(* and whatever the threads still write: they store a part of the flags    *)
(* that are there (FlagWrites).  If the signals have taken effect by then  *)
(* nobody is inside pack_update either: who is keeps its slot BUSY.        *)

InStep ==
    /\ step \in {"scan", "submit", "close"} => mpc = "caller"
    /\ step = "clear" => mpc \in {"caller", "exec"}
    /\ step = "wait" => mpc \in {"caller", "wait"}
    /\ step = "kill" => mpc \in {"caller"} \cup Killing

Idle ==
    step \in {"close", "scan"} \/ (step = "kill" /\ mpc = "caller") =>
        \A s \in Slots : flags[s] = {}

RoundInv == InStep /\ Idle

LEMMA InitRound == PacksInit => RoundInv
  BY DEF PacksInit, Init, RoundInv, InStep, Idle

\* Of the pool's steps, only worker_exec sets flags of an idle slot.
LEMMA WorkerIdle ==
    ASSUME TypeInv, OwnInv, NEW t \in Threads, Worker(t),
           \A s \in Slots : flags[s] = {}
    PROVE  \A s \in Slots : flags'[s] = {}
  <1>1. CASE WriteFlags(t)
    <2>1. pc[t] = "write" /\ wp[t] \in Slots /\ tmp[t] \subseteq flags[wp[t]]
      BY <1>1 DEF WriteFlags, At, TypeInv, TypeOK, OwnInv, FlagWrites
    <2>2. tmp[t] = {}
      BY <2>1
    <2>. QED
      BY <1>1, <2>1, <2>2 DEF WriteFlags, TypeInv, TypeOK
  <1>2. CASE ~WriteFlags(t)
    BY <1>2
    DEF Worker, Locking, Stepping, Lock, LockDone, Unwind, Sleep, TakeItem, Call, ReadFlags,
        Unlock, Die, Return, SpuriousWakeup, slots
  <1>. QED
    BY <1>1, <1>2

LEMMA StepOfThread ==
    ASSUME NEW t \in Threads,
           Locks(t) \/ Spurious(t) \/ PoolStep(t) \/ Updating(t) \/ Read(t) \/ Killed(t)
    PROVE  Worker(t) \/ UNCHANGED vars
  BY DEF Locks, Spurious, PoolStep, Updating, Begin, Open, OpenError, Read, Close, Mark,
         Killed, Worker, Stepping

LEMMA ThreadsKeep ==
    ASSUME NEW t \in Threads,
           Locks(t) \/ Spurious(t) \/ PoolStep(t) \/ Updating(t) \/ Read(t) \/ Killed(t)
    PROVE  UNCHANGED <<step, pp, mpc, mx>>
  BY DEF Locks, Spurious, PoolStep, Updating, Begin, Open, OpenError, Read, Close, Mark,
         Killed, Locking, Lock, LockDone, Unwind, Sleep, TakeItem, Call, ReadFlags,
         WriteFlags, Unlock, Die, Return, SpuriousWakeup, loop, vars, caller

LEMMA NextInStep ==
    ASSUME CursorOK, InStep, [PacksNext]_allvars
    PROVE  InStep'
  <1>. USE DEF InStep, Killing
  <1>1. CASE UNCHANGED allvars
    BY <1>1 DEF allvars, vars
  <1>2. CASE \E t \in Threads : Locks(t) \/ Spurious(t) \/ PoolStep(t) \/ Updating(t) \/ Read(t) \/ Killed(t)
    BY <1>2, ThreadsKeep
  <1>3. CASE EnterRound \/ ClearUpdated \/ KillDone \/ ClosePack \/ LeaveRound
    BY <1>3 DEF EnterRound, ClearUpdated, KillDone, ClosePack, LeaveRound, Loop, vars, CursorOK
  <1>4. CASE SubmitUpdate \/ WaitForUpdates \/ KillLate
    BY <1>4 DEF SubmitUpdate, WaitForUpdates, KillLate, ExecCall, WaitCall, KillCall,
                Loop, Goto, CursorOK
  <1>5. CASE InPool
    <2>1. UNCHANGED <<step, pp>> /\ Caller
      BY <1>5 DEF InPool, loop
    <2>2. CASE InExec
      BY <2>1, <2>2 DEF InExec, ExecBusy, ExecAssign, Goto, CursorOK
    <2>3. CASE InWait
      BY <2>1, <2>3 DEF InWait, WaitScan, WaitReturn, WaitAgain, WaitTimeout, Goto, CursorOK
    <2>4. CASE InKill
      <3>1. mpc \in Killing /\ mpc' \in Killing \cup {"caller"}
        BY <2>4 DEF InKill, KillScan, SendSignal, ReadKill, WriteKill, KillEnd, RecreateTest,
                    Recreate, KillReturn, Goto
      <3>2. step = "kill"
        BY <3>1 DEF CursorOK
      <3>. QED
        BY <2>1, <3>1, <3>2
    <2>. QED
      BY <2>1, <2>2, <2>3, <2>4 DEF Caller
  <1>. QED
    BY <1>1, <1>2, <1>3, <1>4, <1>5 DEF PacksNext, Main

LEMMA InStepInvariant == PacksSpec => []InStep
  <1>1. PacksInit => InStep
    BY DEF PacksInit, Init, InStep
  <1>. QED
    BY <1>1, NextInStep, CursorInvariant, PTL DEF PacksSpec

LEMMA NextRound ==
    ASSUME CursorOK, TypeInv, OwnInv, KillInv, RoundInv, [PacksNext]_allvars
    PROVE  RoundInv'
  <1>0. InStep'
    BY NextInStep DEF RoundInv
  <1>. USE DEF RoundInv, InStep, Idle, Killing
  <1>1. CASE UNCHANGED allvars
    BY <1>0, <1>1 DEF allvars, vars
  <1>2. ASSUME NEW t \in Threads,
               Locks(t) \/ Spurious(t) \/ PoolStep(t) \/ Updating(t) \/ Read(t) \/ Killed(t)
        PROVE  RoundInv'
    <2>1. UNCHANGED <<step, pp, mpc, mx>>
      BY <1>2, ThreadsKeep
    <2>2. (\A s \in Slots : flags[s] = {}) => (\A s \in Slots : flags'[s] = {})
      BY <1>2, StepOfThread, WorkerIdle DEF vars
    <2>. QED
      BY <1>0, <2>1, <2>2
  <1>3. CASE EnterRound \/ ClearUpdated \/ KillDone \/ ClosePack \/ LeaveRound
    BY <1>0, <1>3 DEF EnterRound, ClearUpdated, KillDone, ClosePack, LeaveRound, Loop, vars
  <1>4. CASE SubmitUpdate \/ WaitForUpdates \/ KillLate
    BY <1>0, <1>4 DEF SubmitUpdate, WaitForUpdates, KillLate, ExecCall, WaitCall, KillCall,
                      Loop, Goto
  <1>5. CASE InPool
    <2>1. UNCHANGED <<step, pp>> /\ Caller
      BY <1>5 DEF InPool, loop
    <2>2. CASE KillReturn
      <3>1. \A s \in Slots : flags'[s] = {}
        BY <2>2, AfterKill
      <3>. QED
        BY <1>0, <3>1
    <2>3. CASE ~KillReturn
      <3>1. mpc # "caller" /\ (mpc' = "caller" => mpc \in {"exec", "wait"})
        BY <2>1, <2>3
        DEF Caller, InExec, InWait, InKill, ExecBusy, ExecAssign, WaitScan, WaitReturn,
            WaitAgain, WaitTimeout, KillScan, SendSignal, ReadKill, WriteKill, KillEnd,
            RecreateTest, Recreate, Goto
      <3>. QED
        BY <1>0, <2>1, <3>1 DEF CursorOK
    <2>. QED
      BY <2>2, <2>3
  <1>. QED
    BY <1>1, <1>2, <1>3, <1>4, <1>5 DEF PacksNext, Main

LEMMA RoundInvariant == PacksSpec => [](TypeInv /\ OwnInv /\ KillInv /\ RoundInv)
  <1>1. CursorOK /\ TypeInv /\ OwnInv /\ KillInv /\ RoundInv /\ [PacksNext]_allvars => RoundInv'
    BY NextRound
  <1>. QED
    BY <1>1, InitRound, CursorInvariant, PoolTypeInvariant, OwnInvariant, KillInvariant,
       PacksUseThePool, PTL
    DEF PacksSpec

\* After worker_killbusy no slot has a flag left and each has its thread, but one whose
\* KILL its thread has overwritten; whichever threads were killed, wherever they were
\* and however late the signals arrive.
THEOREM PoolIsReady == PacksSpec => []PoolReadyAfterKill
  <1>1. KillInv /\ RoundInv => PoolReadyAfterKill
    <2> SUFFICES ASSUME KillInv, RoundInv, step \in {"close", "scan"}, NEW s \in Slots
                 PROVE  flags[s] = {} /\ (Active(tid[s]) \/ s \in lost)
      BY DEF PoolReadyAfterKill
    <2>1. mpc = "caller" /\ flags[s] = {}
      BY DEF RoundInv, InStep, Idle
    <2>. QED
      BY <2>1 DEF KillInv, Replaceable, Served
  <1>. QED
    BY <1>1, RoundInvariant, PTL

\* Between two rounds no thread is inside pack_update, if the signals of a round have
\* taken effect when its worker_killbusy returns.
THEOREM RoundsAreQuiescent == Prompt => (PacksSpec => []QuiescentBetweenRounds)
  <1> SUFFICES ASSUME Prompt PROVE PacksSpec => []QuiescentBetweenRounds
    OBVIOUS
  <1>1. ASSUME TypeInv, PromptInv, RoundInv PROVE QuiescentBetweenRounds
    <2>1. ASSUME step = "scan", NEW t \in Threads, Active(t), item[t] # None PROVE FALSE
      <3>1. pc[t] \in Working /\ wp[t] \in Slots
        BY <1>1, <2>1 DEF PromptInv, ItemInv, Working, TypeInv, TypeOK, Active
      <3>2. t \notin sig
        BY <1>1, <2>1 DEF PromptInv, SignalsEnd, Killing, RoundInv, InStep
      <3>. QED
        BY <1>1, <2>1, <3>1, <3>2 DEF PromptInv, BusyWhileWorking, RoundInv, Idle
    <2>. QED
      BY <2>1 DEF QuiescentBetweenRounds
  <1>2. PacksSpec => [](TypeInv /\ OwnInv /\ KillInv /\ RoundInv)
    BY RoundInvariant
  <1>. QED
    BY <1>1, <1>2, PromptInvariant, PacksUseThePool, PTL

-----------------------------------------------------------------------------
(* Inside pack_update, and what it writes.                                 *)

BodyInv ==
    /\ body \in [Threads -> Body] /\ result \in [Threads -> BOOLEAN]
    /\ \A t \in Threads : body[t] # "none" => pc[t] = "run"
    /\ \A t \in Threads : result[t] => body[t] \in {"close", "mark"}
    /\ opened \subseteq Packs /\ updated \subseteq Packs
    /\ outcome \in [Packs -> {"none", "running", "read", "failed"}]

LEMMA InitBody == PacksInit => BodyInv
  BY DEF PacksInit, BodyInv, Body

\* The pool's other steps leave a running thread where it is.
LEMMA StillRunning ==
    ASSUME TypeInv, NEW u \in Threads, pc[u] = "run",
           Caller \/ (\E i \in Items : ExecCall(i)) \/ WaitCall \/ KillCall
    PROVE  pc'[u] = "run"
  <1>1. CASE ExecAssign
    BY <1>1 DEF ExecAssign, Signal, TypeInv, TypeOK
  <1>2. CASE \E t \in Threads : Recreate(t)
    BY <1>2 DEF Recreate, TypeInv, TypeOK
  <1>3. CASE UNCHANGED pc
    BY <1>3
  <1>. QED
    BY <1>1, <1>2, <1>3
    DEF Caller, InExec, InWait, InKill, ExecBusy, WaitScan, WaitReturn, WaitAgain, WaitTimeout,
        KillScan, SendSignal, ReadKill, WriteKill, KillEnd, RecreateTest, KillReturn,
        ExecCall, WaitCall, KillCall, workers

LEMMA ThreadBody ==
    ASSUME TypeInv, ArgInv, BodyInv, NEW t \in Threads,
           Locks(t) \/ Spurious(t) \/ PoolStep(t) \/ Updating(t) \/ Read(t) \/ Killed(t)
    PROVE  BodyInv'
  <1>. USE DEF TypeInv, TypeOK, ArgInv, BodyInv, Body, WorkerPC, Holding, packs, loop, At, In
  <1>1. Items = Packs
    BY PacksAssumption DEF Packs
  <1>2. CASE Locks(t) \/ Spurious(t) \/ PoolStep(t)
    BY <1>2
    DEF Locks, Spurious, PoolStep, Locking, Lock, LockDone, Unwind, SpuriousWakeup, Sleep,
        TakeItem, ReadFlags, WriteFlags, Unlock
  <1>3. CASE Begin(t)
    <2>1. /\ pc[t] = "call" /\ pc' = [pc EXCEPT ![t] = "run"]
          /\ body' = [body EXCEPT ![t] = "open"] /\ UNCHANGED <<result, opened, updated>>
      BY <1>3 DEF Begin, Call
    <2>2. outcome' \in [Packs -> {"none", "running", "read", "failed"}]
      BY <1>3 DEF Begin, Note
    <2>. QED
      BY <2>1, <2>2
  <1>4. CASE Open(t) \/ Close(t)
    BY <1>1, <1>4 DEF Open, Close, vars
  <1>5. CASE OpenError(t) \/ Mark(t)
    <2>1. /\ body' = [body EXCEPT ![t] = "none"] /\ pc' = [pc EXCEPT ![t] = "done"]
          /\ body[t] # "none" /\ opened' = opened
      BY <1>5 DEF OpenError, Mark, Return
    <2>2. body' \in [Threads -> Body] /\ \A u \in Threads : body'[u] # "none" => pc'[u] = "run"
      BY <2>1
    <2>3. item[t] \in Packs
      BY <1>1, <2>1
    <2>4. /\ result' \in [Threads -> BOOLEAN] /\ updated' \subseteq Packs
          /\ outcome' \in [Packs -> {"none", "running", "read", "failed"}]
          /\ \A u \in Threads : result'[u] => body'[u] \in {"close", "mark"}
      <3>1. CASE OpenError(t)
        BY <2>1, <3>1 DEF OpenError, Note
      <3>2. CASE Mark(t)
        BY <2>1, <2>3, <3>2 DEF Mark
      <3>. QED
        BY <1>5, <3>1, <3>2
    <2>. QED
      BY <2>1, <2>2, <2>4
  <1>6. CASE Read(t)
    <2>1. PICK ok \in BOOLEAN : /\ result' = [result EXCEPT ![t] = ok]
                                /\ Note(item[t], IF ok THEN "read" ELSE "failed")
      BY <1>6 DEF Read
    <2>2. /\ body' = [body EXCEPT ![t] = "close"] /\ body[t] = "read"
          /\ UNCHANGED <<pc, item, opened, updated>>
      BY <1>6 DEF Read, vars
    <2>3. outcome' \in [Packs -> {"none", "running", "read", "failed"}]
      BY <2>1 DEF Note
    <2>. QED
      BY <2>1, <2>2, <2>3
  <1>7. CASE Killed(t)
    BY <1>7 DEF Killed, Die
  <1>. QED
    BY <1>2, <1>3, <1>4, <1>5, <1>6, <1>7 DEF Updating

LEMMA NextBody ==
    ASSUME CursorOK, TypeInv, ArgInv, BodyInv, [PacksNext]_allvars
    PROVE  BodyInv'
  <1>1. CASE UNCHANGED allvars
    BY <1>1 DEF allvars, vars, BodyInv
  <1>2. CASE EnterRound \/ ClearUpdated \/ KillDone \/ ClosePack \/ LeaveRound
    BY <1>2 DEF EnterRound, ClearUpdated, KillDone, ClosePack, LeaveRound, vars, packs, BodyInv
  <1>3. CASE SubmitUpdate \/ WaitForUpdates \/ KillLate \/ InPool
    <2>1. Caller \/ (\E i \in Items : ExecCall(i)) \/ WaitCall \/ KillCall
      BY <1>3, PacksAssumption
      DEF SubmitUpdate, WaitForUpdates, KillLate, InPool, CursorOK, Packs, Loop
    <2>2. UNCHANGED <<body, result, packs>>
      BY <1>3 DEF SubmitUpdate, WaitForUpdates, KillLate, InPool
    <2>. QED
      BY <2>1, <2>2, StillRunning DEF BodyInv, packs
  <1>4. CASE \E t \in Threads : Locks(t) \/ Spurious(t) \/ PoolStep(t) \/ Updating(t) \/ Read(t) \/ Killed(t)
    BY <1>4, ThreadBody
  <1>. QED
    BY <1>1, <1>2, <1>3, <1>4 DEF PacksNext, Main

LEMMA BodyInvariant == PacksSpec => []BodyInv
  <1>1. CursorOK /\ TypeInv /\ ArgInv /\ BodyInv /\ [PacksNext]_allvars => BodyInv'
    BY NextBody
  <1>. QED
    BY <1>1, InitBody, CursorInvariant, PoolTypeInvariant, ArgInvariant, PacksUseThePool, PTL
    DEF PacksSpec

\* Every state of pack_update_all is well-typed: in particular its threads only
\* ever open, read and mark packs of the list.
THEOREM PacksTypeCorrect == PacksSpec => []PacksTypeOK
  <1>1. CursorOK /\ TypeInv /\ BodyInv => PacksTypeOK
    BY DEF CursorOK, TypeInv, BodyInv, PacksTypeOK
  <1>. QED
    BY <1>1, CursorInvariant, PoolTypeInvariant, BodyInvariant, PacksUseThePool, PTL

-----------------------------------------------------------------------------
(* What ClosePack closes stays closed.                                     *)

ClosedSoFar ==
    /\ step = "close" => \A p \in opened : p >= pp
    /\ step = "scan" => opened = {}

LEMMA NextClosed ==
    ASSUME CursorOK, TypeInv, PromptInv, RoundInv, BodyInv, ClosedSoFar,
           [PacksNext]_allvars
    PROVE  ClosedSoFar'
  <1>1. CASE UNCHANGED <<step, pp, opened>>
    BY <1>1 DEF ClosedSoFar
  <1>2. ASSUME NEW t \in Threads, Open(t) PROVE ClosedSoFar'
    <2>1. Active(t) /\ pc[t] \in Working /\ wp[t] \in Slots
      BY <1>2 DEF Open, In, BodyInv, Active, Working, TypeInv, TypeOK
    <2>2. t \notin sig => "BUSY" \in flags[wp[t]]
      BY <2>1 DEF PromptInv, BusyWhileWorking
    <2>3. step \notin {"close", "scan"}
      BY <2>1, <2>2 DEF PromptInv, SignalsEnd, Killing, RoundInv, InStep, Idle
    <2>. QED
      BY <1>2, <2>3 DEF Open, loop, ClosedSoFar
  <1>3. ASSUME NEW t \in Threads, Close(t) PROVE ClosedSoFar'
    BY <1>3 DEF Close, loop, ClosedSoFar
  <1>4. CASE KillDone
    BY <1>4 DEF KillDone, Loop, packs, ClosedSoFar, BodyInv, Packs
  <1>5. CASE ClosePack
    <2>1. \A p \in opened : p \in Nat /\ p >= pp
      BY <1>5 DEF ClosePack, Loop, ClosedSoFar, BodyInv, Packs
    <2>2. pp \in Nat /\ step' = "close" /\ pp' = pp + 1 /\ opened' = opened \ {pp}
      BY <1>5, PacksAssumption DEF ClosePack, Loop, CursorOK
    <2>. QED
      BY <2>1, <2>2 DEF ClosedSoFar
  <1>6. CASE LeaveRound
    <2>1. \A p \in opened : p \in 1..NPacks /\ p >= pp
      BY <1>6 DEF LeaveRound, Loop, ClosedSoFar, BodyInv, Packs
    <2>2. pp > NPacks /\ pp \in Nat /\ NPacks \in Nat
      BY <1>6, PacksAssumption DEF LeaveRound, CursorOK
    <2>3. opened = {}
      BY <2>1, <2>2
    <2>. QED
      BY <1>6, <2>3 DEF LeaveRound, Loop, packs, ClosedSoFar
  <1>7. CASE EnterRound \/ ClearUpdated \/ SubmitUpdate \/ WaitForUpdates \/ KillLate
    BY <1>7 DEF EnterRound, ClearUpdated, SubmitUpdate, WaitForUpdates, KillLate, Loop, ClosedSoFar
  <1>8. CASE InPool \/ \E t \in Threads : \/ Locks(t) \/ Spurious(t) \/ PoolStep(t) \/ Begin(t)
                                         \/ OpenError(t) \/ Mark(t) \/ Killed(t) \/ Read(t)
    BY <1>1, <1>8
    DEF InPool, Locks, Spurious, PoolStep, Begin, OpenError, Mark, Killed, Read, loop, packs
  <1>9. CASE UNCHANGED allvars
    BY <1>1, <1>9 DEF allvars
  <1>. QED
    BY <1>2, <1>3, <1>4, <1>5, <1>6, <1>7, <1>8, <1>9 DEF PacksNext, Main, Updating

LEMMA ClosedInvariant == Prompt => (PacksSpec => []ClosedSoFar)
  <1> SUFFICES ASSUME Prompt PROVE PacksSpec => []ClosedSoFar
    OBVIOUS
  <1>1. PacksInit => ClosedSoFar
    BY DEF PacksInit, ClosedSoFar
  <1>2. CursorOK /\ TypeInv /\ PromptInv /\ RoundInv /\ BodyInv /\ ClosedSoFar
          /\ [PacksNext]_allvars => ClosedSoFar'
    BY NextClosed
  <1>3. PacksSpec => [](TypeInv /\ OwnInv /\ KillInv /\ RoundInv)
    BY RoundInvariant
  <1>. QED
    BY <1>1, <1>2, <1>3, CursorInvariant, BodyInvariant, PromptInvariant, PacksUseThePool, PTL
    DEF PacksSpec

\* "Make sure all closed": no session outlives the round, whichever threads were killed
\* in the middle of one, if their signals have taken effect when worker_killbusy returns.
THEOREM RoundsLeaveClosed == Prompt => (PacksSpec => []ClosedBetweenRounds)
  <1> SUFFICES ASSUME Prompt PROVE PacksSpec => []ClosedBetweenRounds
    OBVIOUS
  <1>1. ClosedSoFar => ClosedBetweenRounds
    BY DEF ClosedSoFar, ClosedBetweenRounds
  <1>2. PacksSpec => []ClosedSoFar
    BY ClosedInvariant
  <1>. QED
    BY <1>1, <1>2, PTL

-----------------------------------------------------------------------------
(* What becomes of the packs handed to the pool: each is updated once, its *)
(* mark is that of this round's read, and pack_update_all keeps the        *)
(* promise of UpdateRound.  All of it rests on one account of the items:   *)
(* where each pack's item is in the round, and what its update has come    *)
(* to there.  A slot holds its item also while a thread that the signal is *)
(* on its way to works on it, and while worker_killbusy is about to store  *)
(* back the BUSY that such a thread has cleared.                           *)

BaseInv ==
    /\ CursorOK /\ TypeInv /\ LockInv /\ OwnInv /\ PromptInv /\ ArgInv
    /\ BodyInv /\ InStep

Busy(s) == "BUSY" \in flags[s]

Worked(s) == \E t \in Threads : Active(t) /\ wp[t] = s /\ pc[t] \in Working

Held(s) == Busy(s) \/ Worked(s) \/ (mpc = "setkill" /\ mx = s /\ "BUSY" \in mtmp)

\* No two slots hold the same pack.
OwnItem == \A r, s \in Slots : r # s /\ Held(r) /\ Held(s) => arg[r] # arg[s]

\* A thread runs the item of its slot.
RunsArg == \A t \in Threads : pc[t] = "run" => item[t] = arg[wp[t]]

\* The packs that are not handed out yet are those from the cursor on, and the
\* one in worker_exec's argument; the cleared one among them has no outcome.
Handed ==
    /\ step = "clear" /\ mpc = "exec" => marg = pp - 1 /\ outcome[marg] = "none"
    /\ step = "submit" => outcome[pp] = "none"
    /\ step \in {"clear", "submit"} =>
         \A s \in Slots : Held(s) => arg[s] < (IF mpc = "exec" THEN marg ELSE pp)

\* What the update of a busy slot's pack has come to, by where its thread is.
Outcomes(t) ==
    IF pc[t] \in {"done", "read", "write"} THEN {"read", "failed"}
    ELSE IF pc[t] # "run" THEN {"none"}
    ELSE IF body[t] \in {"open", "read"} THEN {"running"}
    ELSE {IF result[t] THEN "read" ELSE "failed"}

Accounted ==
    \A t \in Threads :
        Active(t) /\ t \notin sig /\ Busy(wp[t]) => outcome[arg[wp[t]]] \in Outcomes(t)

\* A mark is that of a read that succeeded, and a thread marks what it has read.
Fresh ==
    /\ \A p \in updated : outcome[p] = "read"
    /\ \A t \in Threads : result[t] => outcome[item[t]] = "read"

\* A thread that runs an item is inside pack_update.
InBody == \A t \in Threads : pc[t] = "run" => body[t] # "none"

ItemsInv == OwnItem /\ RunsArg /\ Handed /\ Accounted /\ Fresh /\ InBody

LEMMA InitItems == PacksInit => ItemsInv
  <1> SUFFICES ASSUME PacksInit PROVE ItemsInv
    OBVIOUS
  <1>1. \A s \in Slots : ~Held(s)
    BY DEF PacksInit, Init, Held, Busy, Worked, Working
  <1>2. \A t \in Threads : Active(t) => wp[t] \in Slots /\ ~Busy(wp[t])
    BY DEF PacksInit, Init, Active, Busy
  <1>3. Accounted
    BY <1>2 DEF Accounted
  <1>. QED
    BY <1>1, <1>3 DEF PacksInit, Init, ItemsInv, OwnItem, RunsArg, Handed, Fresh, InBody

\* What a slot holds is a pack.
LEMMA HeldPack ==
    ASSUME BaseInv, NEW s \in Slots, Held(s)
    PROVE  arg[s] \in Packs
  BY PacksAssumption DEF BaseInv, TypeInv, TypeOK, ArgInv, Held, Busy, Worked, Packs

\* A thread that works for a slot has the slot's pack, and the slot is busy unless the
\* signal is on its way to the thread.
LEMMA WorkHolds ==
    ASSUME BaseInv, NEW t \in Threads, Active(t)
    PROVE  /\ wp[t] \in Slots
           /\ pc[t] \in Working => Held(wp[t])
           /\ pc[t] \in Working /\ t \notin sig => Busy(wp[t])
  <1>1. wp[t] \in Slots
    BY DEF BaseInv, TypeInv, TypeOK, Active
  <1>2. pc[t] \in Working => Held(wp[t])
    BY DEF Held, Worked
  <1>3. pc[t] \in Working /\ t \notin sig => Busy(wp[t])
    BY DEF BaseInv, PromptInv, BusyWhileWorking, Busy
  <1>. QED
    BY <1>1, <1>2, <1>3

\* Who works for a busy slot works for it alone.
LEMMA BusyAlone ==
    ASSUME BaseInv, NEW t \in Threads, NEW u \in Threads, Active(t), Active(u),
           wp[t] = wp[u], Busy(wp[t])
    PROVE  t = u
  <1>1. tid[wp[t]] = t /\ tid[wp[u]] = u
    BY DEF BaseInv, PromptInv, Replaced, Busy
  <1>. QED
    BY <1>1

\* Two threads of which one works and the other is to work have different packs: a
\* thread that was replaced leaves a slot that is not used before it is gone.
LEMMA WorksApart ==
    ASSUME BaseInv, OwnItem, NEW t \in Threads, NEW u \in Threads, t # u,
           Active(t), Active(u), pc[t] \in Working, Busy(wp[u])
    PROVE  wp[t] # wp[u] /\ arg[wp[t]] # arg[wp[u]]
  <1>1. wp[t] \in Slots /\ wp[u] \in Slots /\ Held(wp[t]) /\ Held(wp[u])
    BY WorkHolds DEF Held
  <1>2. wp[t] # wp[u]
    BY BusyAlone
  <1>. QED
    BY <1>1, <1>2 DEF OwnItem

\* Nothing is held when no slot is busy and no signal under way.
LEMMA NoneHeld ==
    ASSUME BaseInv, mpc \notin Killing, \A s \in Slots : ~Busy(s)
    PROVE  \A s \in Slots : ~Held(s)
  <1>1. sig = {} /\ mpc # "setkill"
    BY DEF BaseInv, PromptInv, SignalsEnd, Killing
  <1>2. \A t \in Threads : Active(t) => pc[t] \notin Working
    BY <1>1, WorkHolds
  <1>. QED
    BY <1>1, <1>2 DEF Held, Worked

-----------------------------------------------------------------------------
(* The threads' steps.                                                     *)

\* What a thread's step leaves to the main thread and to the other threads.
LEMMA ThreadSlots ==
    ASSUME BaseInv, NEW t \in Threads,
           Locks(t) \/ Spurious(t) \/ PoolStep(t) \/ Updating(t) \/ Read(t) \/ Killed(t)
    PROVE  /\ UNCHANGED <<step, pp, arg, tid, mpc, mx, marg, mtmp>>
           /\ \A s \in Slots : Busy(s)' => Busy(s)
           /\ \A u \in Threads : Active(u)' => Active(u) /\ wp'[u] = wp[u]
           /\ \A u \in Threads : u # t => pc'[u] = pc[u] /\ body'[u] = body[u]
                                            /\ result'[u] = result[u] /\ item'[u] = item[u]
           /\ sig' \subseteq sig /\ \A u \in Threads : u \in sig => u \in sig' \/ u = t
  <1>. USE DEF BaseInv, TypeInv, TypeOK, BodyInv, WorkerPC, Holding, Busy, Active, At, In, loop,
               vars, slots, caller
  <1>1. CASE Locks(t) \/ Spurious(t)
    BY <1>1 DEF Locks, Spurious, Locking, Lock, LockDone, Unwind, SpuriousWakeup
  <1>2. CASE PoolStep(t)
    <2>1. CASE WriteFlags(t)
      BY <2>1, <1>2 DEF PoolStep, WriteFlags, OwnInv, FlagWrites
    <2>2. CASE ~WriteFlags(t)
      BY <1>2, <2>2 DEF PoolStep, Sleep, TakeItem, ReadFlags, Unlock
    <2>. QED
      BY <2>1, <2>2
  <1>3. CASE Begin(t)
    BY <1>3 DEF Begin, Call
  <1>4. CASE Open(t) \/ Close(t) \/ Read(t)
    BY <1>4 DEF Open, Close, Read
  <1>5. CASE OpenError(t) \/ Mark(t)
    BY <1>5 DEF OpenError, Mark, Return
  <1>6. CASE Killed(t)
    BY <1>6 DEF Killed, Die
  <1>. QED
    BY <1>1, <1>2, <1>3, <1>4, <1>5, <1>6 DEF Updating

\* A thread goes to work only on what its slot holds already.
LEMMA ThreadHolds ==
    ASSUME BaseInv, NEW t \in Threads,
           Locks(t) \/ Spurious(t) \/ PoolStep(t) \/ Updating(t) \/ Read(t) \/ Killed(t),
           NEW s \in Slots, Held(s)'
    PROVE  Held(s)
  <1>1. /\ UNCHANGED <<mpc, mx, mtmp>> /\ (Busy(s)' => Busy(s))
        /\ \A u \in Threads : Active(u)' => Active(u) /\ wp'[u] = wp[u]
        /\ \A u \in Threads : u # t => pc'[u] = pc[u]
    BY ThreadSlots
  <1>2. ASSUME Active(t)', pc'[t] \in Working, wp[t] = s  PROVE Held(s)
    <2>1. Active(t) /\ (pc[t] \in Working \/ TakeItem(t))
      BY <1>1, <1>2
      DEF Locks, Spurious, PoolStep, Updating, Begin, Open, OpenError, Read, Close, Mark,
          Killed, Locking, Lock, LockDone, Unwind, Sleep, Call, ReadFlags, WriteFlags, Unlock,
          Die, Return, SpuriousWakeup, vars, At, Working, BaseInv, TypeInv, TypeOK
    <2>. QED
      BY <1>2, <2>1 DEF TakeItem, Held, Busy, Worked
  <1>. QED
    BY <1>1, <1>2 DEF Held, Worked

\* Where a thread writes an outcome: its slot's pack, and not over what has been read.
Notes(t) ==
    /\ \/ outcome' = outcome
       \/ /\ Active(t) /\ pc[t] \in Working
          /\ \E o : outcome' = [outcome EXCEPT ![arg[wp[t]]] = o]
    /\ \A p \in Packs : outcome[p] = "read" => outcome'[p] = "read"

LEMMA ThreadNotes ==
    ASSUME BaseInv, RunsArg, NEW t \in Threads,
           Locks(t) \/ Spurious(t) \/ PoolStep(t) \/ Updating(t) \/ Read(t) \/ Killed(t)
    PROVE  Notes(t)
  <1>. USE DEF BaseInv, BodyInv, In
  <1>1. ASSUME NEW o, Active(t), pc[t] \in Working, Note(arg[wp[t]], o)
        PROVE  Notes(t)
    BY <1>1 DEF Note, Notes
  <1>2. CASE Begin(t)
    <2>1. pc[t] = "call" /\ item'[t] = arg[wp[t]]
      BY <1>2 DEF Begin, Call, At, TypeInv, TypeOK
    <2>. QED
      BY <1>1, <1>2, <2>1 DEF Begin, Active, Working
  <1>3. CASE OpenError(t) \/ Read(t)
    <2>1. pc[t] = "run" /\ item[t] = arg[wp[t]]
      BY <1>3 DEF OpenError, Read, RunsArg
    <2>2. PICK o : Note(item[t], o)
      BY <1>3 DEF OpenError, Read
    <2>. QED
      BY <1>1, <2>1, <2>2 DEF Active, Working
  <1>4. CASE UNCHANGED outcome
    BY <1>4 DEF Notes
  <1>. QED
    BY <1>2, <1>3, <1>4
    DEF Locks, Spurious, PoolStep, Updating, Open, Close, Mark, Killed, packs

\* What a step does to the outcome of the pack that a thread works on does not
\* disturb the account of the others.
LEMMA OthersAccounted ==
    ASSUME BaseInv, ItemsInv, NEW t \in Threads,
           Locks(t) \/ Spurious(t) \/ PoolStep(t) \/ Updating(t) \/ Read(t) \/ Killed(t),
           NEW u \in Threads, u # t, Active(u)', u \notin sig', Busy(wp[u])'
    PROVE  outcome'[arg'[wp'[u]]] \in Outcomes(u)'
  <1>1. Active(u) /\ wp'[u] = wp[u] /\ arg' = arg /\ u \notin sig
    BY ThreadSlots
  <1>2. wp[u] \in Slots /\ Busy(wp[u])
    <2>1. wp[u] \in Slots
      BY <1>1, WorkHolds
    <2>. QED
      BY <1>1, <2>1, ThreadSlots DEF Busy
  <1>3. outcome[arg[wp[u]]] \in Outcomes(u)
    BY <1>1, <1>2 DEF ItemsInv, Accounted
  <1>4. Outcomes(u)' = Outcomes(u)
    BY ThreadSlots DEF Outcomes
  <1>5. outcome'[arg[wp[u]]] = outcome[arg[wp[u]]]
    <2>1. arg[wp[u]] \in Packs
      BY <1>2, HeldPack DEF Held
    <2>2. Active(t) /\ pc[t] \in Working => arg[wp[u]] # arg[wp[t]]
      BY <1>1, <1>2, WorksApart DEF ItemsInv
    <2>3. Notes(t)
      BY ThreadNotes DEF ItemsInv
    <2>. QED
      BY <2>1, <2>2, <2>3 DEF Notes, BaseInv, BodyInv
  <1>. QED
    BY <1>1, <1>3, <1>4, <1>5

\* The same of the packs that are handed out later.
LEMMA StillHanded ==
    ASSUME BaseInv, ItemsInv, NEW t \in Threads,
           Locks(t) \/ Spurious(t) \/ PoolStep(t) \/ Updating(t) \/ Read(t) \/ Killed(t)
    PROVE  OwnItem' /\ Handed'
  <1>1. UNCHANGED <<step, pp, arg, mpc, marg>>
    BY ThreadSlots
  <1>2. \A s \in Slots : Held(s)' => Held(s)
    BY ThreadHolds
  <1>3. OwnItem'
    BY <1>1, <1>2 DEF ItemsInv, OwnItem
  <1>4. Notes(t) /\ (Active(t) /\ pc[t] \in Working => wp[t] \in Slots /\ Held(wp[t]))
    BY ThreadNotes, WorkHolds DEF ItemsInv
  <1>5. step = "clear" /\ mpc = "exec" => outcome'[marg] = "none"
    <2>1. ASSUME step = "clear", mpc = "exec", Active(t), pc[t] \in Working
          PROVE  arg[wp[t]] # marg
      BY <1>4, <2>1, HeldPack, PacksAssumption DEF ItemsInv, Handed, Packs, BaseInv, CursorOK
    <2>2. step = "clear" /\ mpc = "exec" => marg \in Packs
      BY PacksAssumption DEF BaseInv, ArgInv, TypeInv, TypeOK, Packs
    <2>. QED
      BY <1>4, <2>1, <2>2 DEF Notes, ItemsInv, Handed, BaseInv, BodyInv
  <1>6. step = "submit" => outcome'[pp] = "none"
    <2>1. ASSUME step = "submit", Active(t), pc[t] \in Working
          PROVE  arg[wp[t]] # pp
      BY <1>4, <2>1, HeldPack, PacksAssumption DEF ItemsInv, Handed, Packs, BaseInv, CursorOK, InStep
    <2>. QED
      BY <1>4, <2>1 DEF Notes, ItemsInv, Handed, BaseInv, BodyInv, CursorOK
  <1>. QED
    BY <1>1, <1>2, <1>3, <1>5, <1>6 DEF ItemsInv, Handed

\* Of one thread's step: its own account, the marks, and that it is inside
\* pack_update when it runs the item of its slot.
LEMMA ThreadAccounted ==
    ASSUME BaseInv, ItemsInv, NEW t \in Threads,
           Locks(t) \/ Spurious(t) \/ PoolStep(t) \/ Updating(t) \/ Read(t) \/ Killed(t)
    PROVE  /\ Active(t)' /\ t \notin sig' /\ Busy(wp[t])' => outcome'[arg'[wp'[t]]] \in Outcomes(t)'
           /\ RunsArg' /\ Fresh' /\ InBody'
  <1>. USE DEF BaseInv, TypeInv, TypeOK, BodyInv, Body, WorkerPC, Holding, At, In
  <1>1. /\ UNCHANGED arg /\ (Active(t)' => Active(t) /\ wp'[t] = wp[t])
        /\ \A s \in Slots : Busy(s)' => Busy(s)
        /\ \A u \in Threads : pc'[u] = "run" => wp'[u] = wp[u]
    <2>1. \A u \in Threads : pc'[u] = "run" => Active(u)'
      BY DEF Active
    <2>. QED
      BY <2>1, ThreadSlots
  <1>2. Active(t) => /\ wp[t] \in Slots
                     /\ pc[t] \in Working => Held(wp[t])
                     /\ pc[t] \in Working /\ t \notin sig => Busy(wp[t])
                     /\ pc[t] \in Working => arg[wp[t]] \in Packs
                     /\ pc[t] = "run" => item[t] = arg[wp[t]]
    <2>1. Active(t) => /\ wp[t] \in Slots
                       /\ pc[t] \in Working => Held(wp[t])
                       /\ pc[t] \in Working /\ t \notin sig => Busy(wp[t])
      BY WorkHolds
    <2>. QED
      BY <2>1, HeldPack DEF ItemsInv, RunsArg
  <1>3. Active(t) /\ t \notin sig /\ Busy(wp[t]) => outcome[arg[wp[t]]] \in Outcomes(t)
    BY DEF ItemsInv, Accounted
  <1>4. Fresh /\ InBody /\ RunsArg
    BY DEF ItemsInv
  <1>5. Notes(t) /\ \A p \in Packs : outcome[p] = "read" => outcome'[p] = "read"
    BY <1>4, ThreadNotes DEF Notes
  <1>6. \A u \in Threads : result[u] => pc[u] = "run" /\ item[u] \in Packs
    BY PacksAssumption DEF ArgInv, Packs
  <1>7. CASE Locks(t) \/ Spurious(t) \/ PoolStep(t)
    <2>1. UNCHANGED <<packs, body, result, item>>
      BY <1>7 DEF Locks, Spurious, PoolStep, Locking, Lock, LockDone, Unwind, SpuriousWakeup,
                  Sleep, TakeItem, ReadFlags, WriteFlags, Unlock
    <2>2. sig' = sig /\ \A u \in Threads : pc'[u] = "run" => pc[u] = "run"
      BY <1>7 DEF Locks, Spurious, PoolStep, Locking, Lock, LockDone, Unwind, SpuriousWakeup,
                  Sleep, TakeItem, ReadFlags, WriteFlags, Unlock
    <2>3. CASE WriteFlags(t)
      <3>1. ~Busy(wp[t])'
        BY <1>2, <2>3 DEF WriteFlags, Busy, Active
      <3>. QED
        BY <1>1, <1>4, <2>1, <2>2, <3>1 DEF packs, Fresh, InBody, RunsArg
    <2>4. CASE ~WriteFlags(t)
      <3>1. Active(t)' => pc'[t] # "run" /\ pc[t] # "run"
              /\ (pc'[t] \in {"done", "read", "write"} <=> pc[t] \in {"done", "read", "write"})
        BY <1>7, <2>4 DEF Locks, Spurious, PoolStep, Locking, Lock, LockDone, Unwind,
                          SpuriousWakeup, Sleep, TakeItem, ReadFlags, Unlock, Active
      <3>. QED
        BY <1>1, <1>2, <1>3, <1>4, <2>1, <2>2, <3>1 DEF packs, Outcomes, Fresh, InBody, RunsArg
    <2>. QED
      BY <2>3, <2>4
  <1>8. CASE Begin(t)
    <2>1. /\ pc' = [pc EXCEPT ![t] = "run"] /\ body' = [body EXCEPT ![t] = "open"]
          /\ pc[t] = "call" /\ Active(t) /\ item' = [item EXCEPT ![t] = arg[wp[t]]]
          /\ UNCHANGED <<updated, result, sig>>
      BY <1>8 DEF Begin, Call, Active
    <2>2. t \notin sig => outcome[arg[wp[t]]] = "none"
      BY <1>2, <1>3, <2>1 DEF Working, Outcomes
    <2>3. Note(arg[wp[t]], "running") /\ arg[wp[t]] \in Packs
      BY <1>2, <1>8, <2>1 DEF Begin, Working
    <2>4. Fresh'
      BY <1>4, <1>5, <1>6, <2>1 DEF Fresh
    <2>. QED
      BY <1>1, <1>4, <2>1, <2>2, <2>3, <2>4 DEF Outcomes, Note, InBody, RunsArg
  <1>9. CASE Open(t) \/ Close(t)
    BY <1>1, <1>3, <1>4, <1>9 DEF Open, Close, vars, Outcomes, Fresh, InBody, RunsArg
  <1>10. CASE OpenError(t)
    <2>1. /\ pc' = [pc EXCEPT ![t] = "done"] /\ body' = [body EXCEPT ![t] = "none"]
          /\ pc[t] = "run" /\ body[t] = "open" /\ Active(t) /\ UNCHANGED <<updated, result, sig>>
          /\ item' = [item EXCEPT ![t] = None]
      BY <1>10 DEF OpenError, Return, Active
    <2>2. arg[wp[t]] \in Packs /\ Note(arg[wp[t]], "failed") /\ ~result[t]
      BY <1>2, <1>10, <2>1 DEF Working, OpenError
    <2>3. t \notin sig => outcome[arg[wp[t]]] = "running"
      BY <1>2, <1>3, <2>1 DEF Working, Outcomes
    <2>4. Fresh'
      BY <1>4, <1>5, <1>6, <2>1, <2>2 DEF Fresh
    <2>. QED
      BY <1>1, <1>4, <2>1, <2>2, <2>3, <2>4 DEF Outcomes, Note, InBody, RunsArg
  <1>11. CASE Read(t)
    <2>1. /\ body' = [body EXCEPT ![t] = "close"] /\ UNCHANGED <<pc, updated, item, sig>>
          /\ pc[t] = "run" /\ body[t] = "read" /\ Active(t)
      BY <1>11 DEF Read, Active, vars
    <2>2. arg[wp[t]] \in Packs /\ item[t] = arg[wp[t]]
      BY <1>2, <2>1 DEF Working
    <2>3. PICK ok \in BOOLEAN : /\ result' = [result EXCEPT ![t] = ok]
                                /\ Note(arg[wp[t]], IF ok THEN "read" ELSE "failed")
      BY <1>11, <2>2 DEF Read
    <2>4. t \notin sig => outcome[arg[wp[t]]] = "running"
      BY <1>2, <1>3, <2>1 DEF Working, Outcomes
    <2>5. ok => outcome'[arg[wp[t]]] = "read"
      BY <2>2, <2>3 DEF Note
    <2>6. Fresh'
      BY <1>4, <1>5, <1>6, <2>1, <2>2, <2>3, <2>5 DEF Fresh
    <2>. QED
      BY <1>1, <1>4, <2>1, <2>2, <2>3, <2>4, <2>6 DEF Outcomes, Note, InBody, RunsArg
  <1>12. CASE Mark(t)
    <2>1. /\ pc' = [pc EXCEPT ![t] = "done"] /\ body' = [body EXCEPT ![t] = "none"]
          /\ pc[t] = "run" /\ body[t] = "mark" /\ Active(t) /\ UNCHANGED <<outcome, sig>>
          /\ updated' = IF result[t] THEN updated \cup {item[t]} ELSE updated
          /\ result' = [result EXCEPT ![t] = FALSE]
          /\ item' = [item EXCEPT ![t] = None]
      BY <1>12 DEF Mark, Return, Active
    <2>2. t \notin sig => outcome[arg[wp[t]]] = IF result[t] THEN "read" ELSE "failed"
      BY <1>2, <1>3, <2>1 DEF Working, Outcomes
    <2>3. Fresh'
      BY <1>4, <2>1 DEF Fresh
    <2>. QED
      BY <1>1, <1>4, <2>1, <2>2, <2>3 DEF Outcomes, InBody, RunsArg
  <1>13. CASE Killed(t)
    <2>1. /\ ~Active(t)' /\ UNCHANGED <<packs, arg>>
          /\ pc'[t] # "run" /\ ~result'[t]
          /\ \A u \in Threads : u # t => /\ pc'[u] = pc[u] /\ body'[u] = body[u] /\ item'[u] = item[u]
                                         /\ result'[u] = result[u]
      BY <1>13 DEF Killed, Die, Active, slots
    <2>. QED
      BY <1>1, <1>4, <2>1 DEF packs, Fresh, InBody, RunsArg
  <1>. QED
    BY <1>7, <1>8, <1>9, <1>10, <1>11, <1>12, <1>13 DEF Updating

LEMMA ThreadItems ==
    ASSUME BaseInv, ItemsInv, NEW t \in Threads,
           Locks(t) \/ Spurious(t) \/ PoolStep(t) \/ Updating(t) \/ Read(t) \/ Killed(t)
    PROVE  ItemsInv'
  <1>1. OwnItem' /\ Handed'
    BY StillHanded
  <1>2. ASSUME NEW u \in Threads, Active(u)', u \notin sig', Busy(wp[u])'
        PROVE  outcome'[arg'[wp'[u]]] \in Outcomes(u)'
    BY <1>2, ThreadAccounted, OthersAccounted
  <1>3. Accounted'
    BY <1>2 DEF Accounted
  <1>. QED
    BY <1>1, <1>3, ThreadAccounted DEF ItemsInv

-----------------------------------------------------------------------------
(* The main thread's steps.                                                *)

\* The steps of pack_update_all that hand nothing to the pool.
LEMMA LoopItems ==
    ASSUME BaseInv, ItemsInv,
           step = "scan" => \A s \in Slots : ~Held(s),
           \/ EnterRound \/ ClearUpdated \/ SubmitUpdate \/ WaitForUpdates
           \/ KillLate \/ KillDone \/ ClosePack \/ LeaveRound
    PROVE  ItemsInv'
  <1>. USE DEF Loop, Goto, packs, vars, slots, workers, BaseInv, CursorOK, InStep
  <1>1. /\ UNCHANGED <<flags, arg, tid, pc, wp, item, sig, body, result>>
        /\ mpc # "setkill" /\ mpc' # "setkill"
    BY DEF EnterRound, ClearUpdated, SubmitUpdate, WaitForUpdates, KillLate, KillDone,
           ClosePack, LeaveRound, ExecCall, WaitCall, KillCall
  <1>2. \A s \in Slots : Held(s)' = Held(s)
    BY <1>1 DEF Held, Busy, Worked, Active
  <1>3. OwnItem' /\ RunsArg' /\ InBody'
    BY <1>1, <1>2 DEF ItemsInv, OwnItem, RunsArg, InBody
  <1>4. CASE ClearUpdated
    <2>1. /\ step = "clear" /\ mpc = "caller" /\ pp \in Packs /\ step' = "submit"
          /\ UNCHANGED <<mpc, marg, pp>>
          /\ outcome' = [outcome EXCEPT ![pp] = "none"] /\ updated' = updated \ {pp}
      BY <1>4, PacksAssumption DEF ClearUpdated, Packs
    <2>2. \A s \in Slots : Held(s) => arg[s] \in Packs /\ arg[s] < pp
      BY <2>1, HeldPack DEF ItemsInv, Handed
    <2>3. \A p \in Packs : p < pp => p # pp
      BY <2>1 DEF Packs
    <2>4. \A s \in Slots : Held(s) => arg[s] \in Packs /\ arg[s] # pp
      BY <2>2, <2>3
    <2>5. Accounted'
      <3>1. ASSUME NEW u \in Threads, Active(u), u \notin sig, Busy(wp[u])
            PROVE  outcome'[arg[wp[u]]] \in Outcomes(u)
        <4>1. arg[wp[u]] \in Packs /\ arg[wp[u]] # pp
          BY <2>4, <3>1, WorkHolds DEF Held
        <4>. QED
          BY <2>1, <3>1, <4>1 DEF ItemsInv, Accounted, BodyInv
      <3>. QED
        BY <1>1, <3>1 DEF Accounted, Active, Busy, Outcomes
    <2>6. Fresh'
      <3>1. ASSUME NEW u \in Threads, result[u]
            PROVE  outcome'[item[u]] = "read"
        <4>1. pc[u] = "run" /\ Active(u) /\ item[u] = arg[wp[u]]
          BY <3>1 DEF BodyInv, Active, ItemsInv, RunsArg
        <4>2. item[u] \in Packs /\ item[u] # pp
          BY <2>4, <4>1, WorkHolds DEF Working
        <4>. QED
          BY <2>1, <3>1, <4>2 DEF ItemsInv, Fresh, BodyInv
      <3>. QED
        BY <1>1, <2>1, <3>1 DEF ItemsInv, Fresh, BodyInv
    <2>7. Handed'
      BY <1>1, <1>2, <2>1, <2>2 DEF ItemsInv, Handed, BodyInv
    <2>. QED
      BY <1>3, <2>5, <2>6, <2>7 DEF ItemsInv
  <1>5. CASE ~ClearUpdated
    <2>1. UNCHANGED <<outcome, updated>>
      BY <1>5 DEF EnterRound, SubmitUpdate, WaitForUpdates, KillLate, KillDone, ClosePack, LeaveRound
    <2>2. Fresh' /\ Accounted'
      BY <1>1, <2>1 DEF ItemsInv, Fresh, Accounted, Active, Busy, Outcomes
    <2>3. Handed'
      <3>1. CASE SubmitUpdate
        <4>1. /\ step = "submit" /\ step' = "clear" /\ mpc = "caller" /\ mpc' = "exec"
              /\ marg' = pp /\ pp' = pp + 1 /\ pp \in Nat
          BY <3>1, PacksAssumption DEF SubmitUpdate, ExecCall, Packs
        <4>. QED
          BY <1>1, <1>2, <2>1, <4>1 DEF ItemsInv, Handed
      <3>2. CASE EnterRound
        BY <1>1, <1>2, <3>2 DEF EnterRound, Handed
      <3>3. CASE WaitForUpdates \/ KillLate \/ KillDone \/ ClosePack \/ LeaveRound
        BY <3>3 DEF WaitForUpdates, KillLate, KillDone, ClosePack, LeaveRound, Handed
      <3>. QED
        BY <1>5, <3>1, <3>2, <3>3
    <2>. QED
      BY <1>3, <2>2, <2>3 DEF ItemsInv
  <1>. QED
    BY <1>4, <1>5

\* What worker_exec finds: the next pack, which no slot holds, and a slot that nobody
\* works for.
LEMMA Assigned ==
    ASSUME BaseInv, ItemsInv, ExecAssign
    PROVE  /\ step = "clear" /\ mpc = "exec" /\ mpc' = "caller" /\ sig = {}
           /\ mx \in Slots /\ ~Held(mx) /\ lock[mx] = None
           /\ marg = pp - 1 /\ marg \in Packs /\ outcome[marg] = "none"
           /\ \A s \in Slots : Held(s) => arg[s] \in Packs /\ arg[s] < marg
           /\ arg' = [arg EXCEPT ![mx] = marg]
           /\ flags' = [flags EXCEPT ![mx] = @ \cup {"BUSY"}]
           /\ UNCHANGED <<tid, wp, item, sig>>
           /\ \A u \in Threads : pc'[u] = pc[u] \/ (pc[u] = "wait" /\ pc'[u] = "relock")
  <1>. USE DEF BaseInv
  <1>1. mpc = "exec" /\ mpc' = "caller" /\ ~Busy(mx) /\ lock[mx] = None
    BY DEF ExecAssign, Busy, Free, Goto
  <1>2. step = "clear" /\ sig = {} /\ mx \in Slots
    BY <1>1 DEF InStep, CursorOK, Killing, PromptInv, SignalsEnd, TypeInv, IndexOK
  <1>3. /\ arg' = [arg EXCEPT ![mx] = marg]
        /\ flags' = [flags EXCEPT ![mx] = @ \cup {"BUSY"}]
        /\ UNCHANGED <<tid, wp, item, sig>>
    BY DEF ExecAssign
  <1>4. \A u \in Threads : pc'[u] = pc[u] \/ (pc[u] = "wait" /\ pc'[u] = "relock")
    BY DEF ExecAssign, Signal, TypeInv, TypeOK
  <1>5. marg = pp - 1 /\ marg \in Packs /\ outcome[marg] = "none"
    BY <1>1, <1>2, PacksAssumption DEF ItemsInv, Handed, ArgInv, TypeInv, TypeOK, Packs
  <1>6. ~Held(mx)
    BY <1>1, <1>2, WorkHolds DEF Held, Worked
  <1>7. \A s \in Slots : Held(s) => arg[s] \in Packs /\ arg[s] < marg
    BY <1>1, <1>2, HeldPack DEF ItemsInv, Handed
  <1>. QED
    BY <1>1, <1>2, <1>3, <1>4, <1>5, <1>6, <1>7

LEMMA AssignItems ==
    ASSUME BaseInv, ItemsInv, ExecAssign, UNCHANGED <<loop, body, result, packs>>
    PROVE  ItemsInv'
  <1>. USE DEF loop, packs
  <1>1. /\ step = "clear" /\ mpc = "exec" /\ mpc' = "caller" /\ sig = {}
        /\ mx \in Slots /\ ~Held(mx)
        /\ marg = pp - 1 /\ marg \in Packs /\ outcome[marg] = "none"
        /\ \A s \in Slots : Held(s) => arg[s] \in Packs /\ arg[s] < marg
        /\ arg' = [arg EXCEPT ![mx] = marg]
        /\ flags' = [flags EXCEPT ![mx] = @ \cup {"BUSY"}]
        /\ UNCHANGED <<tid, wp, item, sig>>
        /\ \A u \in Threads : pc'[u] = pc[u] \/ (pc[u] = "wait" /\ pc'[u] = "relock")
    BY Assigned
  <1>2. arg'[mx] = marg /\ \A s \in Slots : s # mx => arg'[s] = arg[s] /\ flags'[s] = flags[s]
    BY <1>1 DEF BaseInv, TypeInv, TypeOK
  <1>3. \A s \in Slots : s # mx => (Held(s)' => Held(s))
    BY <1>1, <1>2 DEF Held, Busy, Worked, Active, Working
  <1>4. pp \in Nat /\ \A p \in Packs : p \in Nat
    BY PacksAssumption DEF BaseInv, CursorOK, Packs
  <1>5. OwnItem'
    BY <1>1, <1>2, <1>3, <1>4 DEF ItemsInv, OwnItem
  <1>6. Handed'
    <2>1. ASSUME NEW s \in Slots, Held(s)' PROVE arg'[s] < pp
      <3>1. marg \in Nat /\ marg < pp
        BY <1>1, <1>4
      <3>2. CASE s = mx
        BY <1>2, <3>1, <3>2
      <3>3. CASE s # mx
        <4>1. arg'[s] = arg[s] /\ arg[s] \in Nat /\ arg[s] < marg
          BY <1>1, <1>2, <1>3, <1>4, <2>1, <3>3
        <4>. QED
          BY <1>4, <3>1, <4>1
      <3>. QED
        BY <3>2, <3>3
    <2>. QED
      BY <1>1, <2>1 DEF Handed
  <1>7. RunsArg'
    <2>1. ASSUME NEW u \in Threads, pc'[u] = "run" PROVE item'[u] = arg'[wp'[u]]
      <3>1. pc[u] = "run" /\ Active(u) /\ item[u] = arg[wp[u]]
        BY <1>1, <2>1 DEF Active, ItemsInv, RunsArg
      <3>2. wp[u] \in Slots /\ wp[u] # mx
        BY <1>1, <3>1, WorkHolds DEF Working
      <3>. QED
        BY <1>1, <1>2, <3>1, <3>2
    <2>. QED
      BY <2>1 DEF RunsArg
  <1>8. Fresh' /\ InBody'
    BY <1>1 DEF ItemsInv, Fresh, InBody
  <1>9. ASSUME NEW u \in Threads, Active(u)', u \notin sig, Busy(wp[u])'
        PROVE  outcome'[arg'[wp'[u]]] \in Outcomes(u)'
    <2>1. Active(u) /\ wp[u] \in Slots /\ Outcomes(u)' = Outcomes(u)
      BY <1>1, <1>9, WorkHolds DEF Active, Outcomes
    <2>2. CASE wp[u] = mx
      <3>1. pc[u] \notin Working
        BY <1>1, <2>1, <2>2, WorkHolds
      <3>. QED
        BY <1>1, <1>2, <2>1, <2>2, <3>1 DEF Working, Outcomes
    <2>3. CASE wp[u] # mx
      BY <1>1, <1>2, <1>9, <2>1, <2>3 DEF ItemsInv, Accounted, Busy
    <2>. QED
      BY <2>2, <2>3
  <1>10. Accounted'
    BY <1>1, <1>9 DEF Accounted
  <1>. QED
    BY <1>5, <1>6, <1>7, <1>8, <1>10 DEF ItemsInv

\* What worker_killbusy does to a slot: it may set BUSY back that its thread has cleared,
\* but the slot held its item all the time, and its thread was sent the signal.
LEMMA KillHolds ==
    ASSUME BaseInv, SendSignal \/ ReadKill \/ WriteKill \/ \E t \in Threads : Recreate(t)
    PROVE  /\ step = "kill" /\ mx \in Slots /\ UNCHANGED <<arg, marg>>
           /\ \A s \in Slots : Held(s)' => Held(s)
           /\ \A u \in Threads : Active(u)' /\ pc'[u] # "lock" =>
                                   Active(u) /\ wp'[u] = wp[u] /\ item'[u] = item[u] /\ pc'[u] = pc[u]
           /\ \A u \in Threads : Active(u)' /\ u \notin sig' /\ Busy(wp[u])' =>
                 /\ Active(u) /\ u \notin sig /\ Busy(wp[u])
                 /\ wp'[u] = wp[u] /\ pc'[u] = pc[u]
  <1>. USE DEF BaseInv, TypeInv, TypeOK, IndexOK, Goto, slots, workers
  <1>1. step = "kill" /\ mx \in Slots /\ UNCHANGED <<arg, marg>>
    BY DEF SendSignal, ReadKill, WriteKill, Recreate, InStep, CursorOK, Killing
  <1>2. CASE SendSignal \/ ReadKill
    <2>1. UNCHANGED <<flags, arg, pc, wp, item, mx>> /\ sig \subseteq sig'
          /\ (mpc' = "setkill" => mtmp' = flags[mx])
      BY <1>2 DEF SendSignal, ReadKill
    <2>. QED
      BY <1>1, <2>1 DEF Held, Busy, Worked, Active
  <1>3. CASE WriteKill
    <2>1. /\ mpc = "setkill" /\ mpc' = "kill" /\ UNCHANGED <<arg, pc, wp, item, sig, tid>>
          /\ flags' = [flags EXCEPT ![mx] = mtmp \cup {"KILL"}]
      BY <1>3 DEF WriteKill
    <2>2. \A s \in Slots : Held(s)' => Held(s)
      BY <1>1, <2>1 DEF Held, Busy, Worked, Active
    <2>3. ASSUME NEW u \in Threads, Active(u), u \notin sig PROVE wp[u] \in Slots /\ wp[u] # mx
      <3>1. tid[wp[u]] = u /\ wp[u] \in Slots
        BY <2>3 DEF OwnInv, OneWorkerPerSlot, Active
      <3>. QED
        BY <2>1, <2>3, <3>1 DEF OwnInv, Doomed, Signalled
    <2>. QED
      BY <1>1, <2>1, <2>2, <2>3 DEF Active, Busy
  <1>4. ASSUME NEW t \in Threads, Recreate(t)
        PROVE  /\ \A s \in Slots : Held(s)' => Held(s)
               /\ \A u \in Threads : Active(u)' /\ pc'[u] # "lock" =>
                                   Active(u) /\ wp'[u] = wp[u] /\ item'[u] = item[u] /\ pc'[u] = pc[u]
               /\ \A u \in Threads : Active(u)' /\ u \notin sig' /\ Busy(wp[u])' =>
                     /\ Active(u) /\ u \notin sig /\ Busy(wp[u])
                     /\ wp'[u] = wp[u] /\ pc'[u] = pc[u]
    <2>1. /\ mpc' = "recreate" /\ UNCHANGED <<sig, item>>
          /\ flags' = [flags EXCEPT ![mx] = {}]
          /\ wp' = [wp EXCEPT ![t] = mx] /\ pc' = [pc EXCEPT ![t] = "lock"]
      BY <1>4 DEF Recreate
    <2>2. \A s \in Slots : Busy(s)' => Busy(s) /\ s # mx
      BY <1>1, <2>1 DEF Busy
    <2>3. \A u \in Threads : u # t => pc'[u] = pc[u] /\ wp'[u] = wp[u]
      BY <2>1
    <2>4. \A s \in Slots : Held(s)' => Held(s)
      BY <2>1, <2>2, <2>3 DEF Held, Worked, Active, Working
    <2>. QED
      BY <1>1, <2>1, <2>2, <2>3, <2>4 DEF Active, Busy
  <1>. QED
    BY <1>1, <1>2, <1>3, <1>4

\* The other steps of the pool's caller.
LEMMA PoolItems ==
    ASSUME BaseInv, ItemsInv, InPool
    PROVE  ItemsInv'
  <1>. USE DEF Goto, loop, packs, slots, workers
  <1>1. UNCHANGED <<step, pp, body, result, updated, outcome>> /\ Caller
    BY DEF InPool
  <1>2. CASE ExecAssign
    BY <1>2, AssignItems DEF InPool
  <1>3. CASE ExecBusy \/ InWait \/ KillScan \/ KillEnd \/ RecreateTest \/ KillReturn
    <2>1. UNCHANGED <<flags, arg, tid, pc, wp, item, sig, marg>> /\ mpc' # "setkill"
      BY <1>3 DEF ExecBusy, InWait, WaitScan, WaitReturn, WaitAgain, WaitTimeout, KillScan,
                  KillEnd, RecreateTest, KillReturn
    <2>2. step = "clear" => mpc' = mpc /\ mpc = "exec"
      BY <1>3 DEF ExecBusy, InWait, WaitScan, WaitReturn, WaitAgain, WaitTimeout, KillScan,
                  KillEnd, RecreateTest, KillReturn, BaseInv, InStep
    <2>3. step # "submit"
      BY <1>3 DEF ExecBusy, InWait, WaitScan, WaitReturn, WaitAgain, WaitTimeout, KillScan,
                  KillEnd, RecreateTest, KillReturn, BaseInv, InStep
    <2>4. \A s \in Slots : Held(s)' => Held(s)
      BY <2>1 DEF Held, Busy, Worked, Active
    <2>5. Handed'
      BY <1>1, <2>1, <2>2, <2>3, <2>4 DEF ItemsInv, Handed
    <2>. QED
      BY <1>1, <2>1, <2>4, <2>5
      DEF ItemsInv, OwnItem, RunsArg, Accounted, Fresh, InBody, Busy, Active, Outcomes
  <1>4. CASE SendSignal \/ ReadKill \/ WriteKill \/ \E t \in Threads : Recreate(t)
    <2>1. /\ step = "kill" /\ UNCHANGED <<arg, marg>>
          /\ \A s \in Slots : Held(s)' => Held(s)
          /\ \A u \in Threads : Active(u)' /\ pc'[u] # "lock" =>
                                  Active(u) /\ wp'[u] = wp[u] /\ item'[u] = item[u] /\ pc'[u] = pc[u]
          /\ \A u \in Threads : Active(u)' /\ u \notin sig' /\ Busy(wp[u])' =>
                /\ Active(u) /\ u \notin sig /\ Busy(wp[u])
                /\ wp'[u] = wp[u] /\ pc'[u] = pc[u]
      BY <1>4, KillHolds
    <2>2. OwnItem' /\ Handed'
      BY <1>1, <2>1 DEF ItemsInv, OwnItem, Handed
    <2>3. RunsArg' /\ InBody'
      BY <1>1, <2>1 DEF ItemsInv, RunsArg, InBody, Active
    <2>4. Fresh'
      BY <1>1, <1>4 DEF ItemsInv, Fresh, SendSignal, ReadKill, WriteKill, Recreate
    <2>5. ASSUME NEW u \in Threads, Active(u)', u \notin sig', Busy(wp[u])'
          PROVE  outcome'[arg'[wp'[u]]] \in Outcomes(u)'
      <3>1. Active(u) /\ u \notin sig /\ Busy(wp[u]) /\ wp'[u] = wp[u] /\ Outcomes(u)' = Outcomes(u)
        BY <1>1, <2>1, <2>5 DEF Outcomes
      <3>. QED
        BY <1>1, <2>1, <3>1 DEF ItemsInv, Accounted
    <2>6. Accounted'
      BY <2>5 DEF Accounted
    <2>. QED
      BY <2>2, <2>3, <2>4, <2>6 DEF ItemsInv
  <1>. QED
    BY <1>1, <1>2, <1>3, <1>4 DEF Caller, InExec, InKill

LEMMA NextItems ==
    ASSUME BaseInv, ItemsInv,
           step = "scan" => \A s \in Slots : ~Held(s),
           [PacksNext]_allvars
    PROVE  ItemsInv'
  <1>1. CASE UNCHANGED allvars
    BY <1>1 DEF allvars, vars, ItemsInv, OwnItem, RunsArg, Handed, Accounted, Fresh, InBody,
                Held, Busy, Worked, Active, Outcomes
  <1>. QED
    BY <1>1, ThreadItems, LoopItems, PoolItems DEF PacksNext, Main

-----------------------------------------------------------------------------
(* Marks and updates (of a pool whose signals have taken effect when       *)
(* worker_killbusy returns).                                               *)

LEMMA BaseInvariant == Prompt => (PacksSpec => []BaseInv)
  <1> SUFFICES ASSUME Prompt PROVE PacksSpec => []BaseInv
    OBVIOUS
  <1>1. CursorOK /\ TypeInv /\ LockInv /\ OwnInv /\ PromptInv /\ ArgInv /\ BodyInv /\ InStep => BaseInv
    BY DEF BaseInv
  <1>. QED
    BY <1>1, CursorInvariant, PoolTypeInvariant, LockInvariant, OwnInvariant, PromptInvariant,
       ArgInvariant, BodyInvariant, InStepInvariant, PacksUseThePool, PTL

LEMMA ItemsInvariant == Prompt => (PacksSpec => []ItemsInv)
  <1> SUFFICES ASSUME Prompt PROVE PacksSpec => []ItemsInv
    OBVIOUS
  <1>1. ASSUME BaseInv, RoundInv, step = "scan" PROVE \A s \in Slots : ~Held(s)
    <2>1. mpc \notin Killing /\ \A s \in Slots : ~Busy(s)
      BY <1>1 DEF RoundInv, InStep, Idle, Busy, Killing
    <2>. QED
      BY <1>1, <2>1, NoneHeld
  <1>2. BaseInv /\ RoundInv /\ ItemsInv /\ [PacksNext]_allvars => ItemsInv'
    BY <1>1, NextItems
  <1>3. PacksSpec => []BaseInv
    BY BaseInvariant
  <1>. QED
    BY <1>2, <1>3, InitItems, RoundInvariant, PTL DEF PacksSpec

\* A pack reported to the control loop was read in this round, whichever of the
\* workers failed, were late or were killed in this round and those before, if the
\* signals of a round have taken effect when its worker_killbusy returns.
THEOREM MarksAreFresh == Prompt => (PacksSpec => []FreshBetweenRounds)
  <1> SUFFICES ASSUME Prompt PROVE PacksSpec => []FreshBetweenRounds
    OBVIOUS
  <1>1. ItemsInv => FreshBetweenRounds
    BY DEF ItemsInv, Fresh, FreshBetweenRounds
  <1>2. PacksSpec => []ItemsInv
    BY ItemsInvariant
  <1>. QED
    BY <1>1, <1>2, PTL

LEMMA TakesOnce ==
    ASSUME BaseInv, ItemsInv, PacksNext,
           NEW t \in Threads, NEW p \in Packs, item[t] = None, item'[t] = p
    PROVE  outcome[p] = "none" \/ t \in sig
  <1>. USE DEF BaseInv
  <1>1. p # None
    BY PoolAssumption, PacksAssumption DEF Packs
  <1>2. ASSUME NEW u \in Threads,
               Locks(u) \/ Spurious(u) \/ PoolStep(u) \/ Updating(u) \/ Read(u) \/ Killed(u)
        PROVE  outcome[p] = "none" \/ t \in sig
    <2>1. u = t
      BY <1>1, <1>2, ThreadSlots
    <2>2. Begin(t)
      BY <1>1, <1>2, <2>1
      DEF Locks, Spurious, PoolStep, Updating, Open, OpenError, Read, Close, Mark, Killed,
          Locking, Lock, LockDone, Unwind, Sleep, TakeItem, ReadFlags, WriteFlags, Unlock, Die,
          Return, SpuriousWakeup, vars, TypeInv, TypeOK
    <2>3. Active(t) /\ pc[t] = "call" /\ p = arg[wp[t]]
      BY <2>2 DEF Begin, Call, At, Active, TypeInv, TypeOK
    <2>4. t \notin sig => Busy(wp[t])
      BY <2>3, WorkHolds DEF Working
    <2>. QED
      BY <2>3, <2>4 DEF ItemsInv, Accounted, Outcomes
  <1>3. ASSUME Main PROVE FALSE
    BY <1>1, <1>3
    DEF Main, EnterRound, ClearUpdated, SubmitUpdate, WaitForUpdates, KillLate, KillDone,
        ClosePack, LeaveRound, InPool, Caller, InExec, InWait, InKill, ExecBusy, ExecAssign,
        WaitScan, WaitReturn, WaitAgain, WaitTimeout, KillScan, SendSignal, ReadKill,
        WriteKill, KillEnd, RecreateTest, Recreate, KillReturn, ExecCall, WaitCall, KillCall,
        workers, vars
  <1>. QED
    BY <1>2, <1>3 DEF PacksNext

\* No pack is updated twice in a round, but by a thread that the signal is on its way
\* to: not by the thread made for the slot of one that was killed, and not by a slot
\* that has had it already, whatever becomes of the flags that worker_killbusy and the
\* threads write at the same time; if no thread outlives the worker_killbusy that
\* signalled it.
THEOREM UpdatesOnce == Prompt => (PacksSpec => UpdatedOncePerRound)
  <1> SUFFICES ASSUME Prompt PROVE PacksSpec => UpdatedOncePerRound
    OBVIOUS
  <1>1. BaseInv /\ ItemsInv /\ [PacksNext]_allvars =>
          [\A t \in Threads, p \in Packs :
             item[t] = None /\ item'[t] = p => outcome[p] = "none" \/ t \in sig]_allvars
    BY TakesOnce
  <1>2. PacksSpec => []BaseInv
    BY BaseInvariant
  <1>3. PacksSpec => []ItemsInv
    BY ItemsInvariant
  <1>. QED
    BY <1>1, <1>2, <1>3, PTL DEF PacksSpec, UpdatedOncePerRound

-----------------------------------------------------------------------------
(* Every step of pack_update_all is a step of UpdateRound or leaves it     *)
(* alone (of a pool whose signals have taken effect when worker_killbusy   *)
(* returns).  The mapping's "running" is the set of the packs of the       *)
(* threads that serve them, each of which serves another one.              *)

LEMMA ServingHolds ==
    ASSUME BaseInv, NEW t \in Threads, Serving(t)
    PROVE  /\ Active(t) /\ wp[t] \in Slots /\ Held(wp[t]) /\ arg[wp[t]] \in Packs
           /\ pc[t] \in Working \/ Busy(wp[t])
  <1>1. Active(t) /\ (pc[t] \in Working \/ Busy(wp[t]))
    BY DEF Serving, Active, Working, Busy
  <1>2. wp[t] \in Slots /\ Held(wp[t])
    BY <1>1, WorkHolds DEF Held
  <1>. QED
    BY <1>1, <1>2, HeldPack

LEMMA ServingApart ==
    ASSUME BaseInv, OwnItem, NEW t \in Threads, NEW u \in Threads,
           Serving(t), Serving(u), arg[wp[t]] = arg[wp[u]]
    PROVE  t = u
  <1>1. /\ Active(t) /\ wp[t] \in Slots /\ Held(wp[t]) /\ (pc[t] \in Working \/ Busy(wp[t]))
        /\ Active(u) /\ wp[u] \in Slots /\ Held(wp[u]) /\ (pc[u] \in Working \/ Busy(wp[u]))
    BY ServingHolds
  <1>2. wp[t] = wp[u]
    BY <1>1 DEF OwnItem
  <1>3. CASE Busy(wp[t])
    BY <1>1, <1>2, <1>3, BusyAlone
  <1>4. CASE ~Busy(wp[t])
    <2>1. t \in sig /\ u \in sig
      BY <1>1, <1>2, <1>4, WorkHolds
    <2>2. (tid[wp[t]] = t /\ tid[wp[u]] = u) \/ tid[wp[t]] \notin {t, u}
      BY <1>1, <1>2, <2>1 DEF BaseInv, PromptInv, Replaced
    <2>. QED
      BY <1>1, <1>2, <2>2 DEF BaseInv, PromptInv, Replaced
  <1>. QED
    BY <1>3, <1>4

\* The packs under way do not change when the threads that serve keep doing so, and
\* lose or gain the pack of the one thread that ceases or begins to.
LEMMA SameServed ==
    ASSUME \A t \in Threads : Serving(t)' <=> Serving(t),
           \A t \in Threads : Serving(t) => wp'[t] = wp[t] /\ arg'[wp[t]] = arg[wp[t]]
    PROVE  Underway' = Underway
  BY DEF Underway

LEMMA OneLessServed ==
    ASSUME BaseInv, OwnItem, NEW t \in Threads, Serving(t), ~Serving(t)',
           \A u \in Threads : u # t => (Serving(u)' <=> Serving(u)),
           \A u \in Threads : Serving(u) => wp'[u] = wp[u] /\ arg'[wp[u]] = arg[wp[u]]
    PROVE  arg[wp[t]] \in Underway /\ Underway' = Underway \ {arg[wp[t]]}
  <1>1. \A u \in Threads : u # t /\ Serving(u) => arg[wp[u]] # arg[wp[t]]
    BY ServingApart
  <1>. QED
    BY <1>1 DEF Underway

LEMMA OneMoreServed ==
    ASSUME NEW t \in Threads, Serving(t)',
           \A u \in Threads : u # t => (Serving(u)' <=> Serving(u)),
           \A u \in Threads : Serving(u) => wp'[u] = wp[u] /\ arg'[wp[u]] = arg[wp[u]],
           \A u \in Threads : Serving(u) => arg[wp[u]] # arg'[wp'[t]]
    PROVE  arg'[wp'[t]] \notin Underway /\ Underway' = Underway \cup {arg'[wp'[t]]}
  BY DEF Underway

RefineInv == BaseInv /\ KillInv /\ RoundInv /\ ClosedSoFar /\ ItemsInv

\* Nothing is held, and so no pack under way, outside of the round.
LEMMA HeldInside ==
    ASSUME BaseInv, RoundInv
    PROVE  step \in {"scan", "close"} => \A s \in Slots : ~Held(s)
  <1> SUFFICES ASSUME step \in {"scan", "close"} PROVE \A s \in Slots : ~Held(s)
    OBVIOUS
  <1>1. mpc \notin Killing /\ \A s \in Slots : ~Busy(s)
    BY DEF RoundInv, InStep, Idle, Busy, Killing
  <1>. QED
    BY <1>1, NoneHeld

\* What is held has been cleared before, and only the loop's own steps clear a mark.
LEMMA HeldCleared ==
    ASSUME BaseInv, RoundInv, ItemsInv, NEW s \in Slots, Held(s)
    PROVE  arg[s] \in Cleared
  <1>1. arg[s] \in Packs /\ step \notin {"scan", "close"}
    BY HeldPack, HeldInside
  <1>2. CASE step \in {"clear", "submit"}
    <2>1. arg[s] < pp
      <3>1. CASE mpc = "exec"
        <4>1. step = "clear" /\ marg = pp - 1 /\ arg[s] < marg
          BY <1>2, <3>1 DEF ItemsInv, Handed, RoundInv, InStep
        <4>. QED
          BY <1>1, <4>1, PacksAssumption DEF Packs, BaseInv, CursorOK
      <3>2. CASE mpc # "exec"
        BY <1>2, <3>2 DEF ItemsInv, Handed
      <3>. QED
        BY <3>1, <3>2
    <2>. QED
      BY <1>1, <1>2, <2>1 DEF Cleared
  <1>3. CASE step \in {"wait", "kill"}
    BY <1>1, <1>3 DEF Cleared
  <1>. QED
    BY <1>1, <1>2, <1>3 DEF BaseInv, CursorOK

LEMMA SameCleared ==
    ASSUME UNCHANGED <<step, pp>>
    PROVE  Cleared' = Cleared
  BY DEF Cleared

LEMMA InitRefines ==
    ASSUME PacksInit
    PROVE  Round!Init
  <1>1. \A t \in Threads : Serving(t) => wp[t] \in Slots
    BY DEF PacksInit, Init, Serving
  <1>2. \A t \in Threads : ~Serving(t)
    BY <1>1 DEF PacksInit, Init, Serving
  <1>. QED
    BY <1>2 DEF PacksInit, Round!Init, Underway, Cleared

\* How a thread's own step changes whom it serves.
LEMMA ThreadServing ==
    ASSUME BaseInv, NEW t \in Threads,
           Locks(t) \/ Spurious(t) \/ PoolStep(t) \/ Updating(t) \/ Read(t) \/ Killed(t)
    PROVE  /\ \A u \in Threads : u # t => (Serving(u)' <=> Serving(u))
           /\ \A u \in Threads : Serving(u) /\ Serving(u)' => wp'[u] = wp[u]
           /\ ~(Unlock(t) \/ Killed(t) \/ OpenError(t) \/ Mark(t)) => (Serving(t)' <=> Serving(t))
           /\ Unlock(t) => ~Serving(t) /\ Active(t)
           /\ Killed(t) \/ OpenError(t) \/ Mark(t) => ~Serving(t)'
  <1>. USE DEF BaseInv, TypeInv, TypeOK, WorkerPC, Holding, At, In, vars, slots
  <1>1. ASSUME NEW u \in Threads, u # t, Active(u) PROVE flags'[wp[u]] = flags[wp[u]] \/ ~Serving(u)
    <2>1. CASE WriteFlags(t)
      <3>1. /\ Active(t) /\ pc[t] \in Working
            /\ \A s \in Slots : s # wp[t] => flags'[s] = flags[s]
        BY <2>1 DEF WriteFlags, Active, Working
      <3>2. CASE wp[u] = wp[t] /\ Busy(wp[t])
        BY <1>1, <3>1, <3>2, BusyAlone
      <3>3. CASE wp[u] = wp[t] /\ ~Busy(wp[t])
        <4>1. CASE pc[u] \in {"call", "run"}
          <5>1. t \in sig /\ u \in sig
            BY <1>1, <3>1, <3>3, <4>1, WorkHolds DEF Working
          <5>2. (tid[wp[t]] = t /\ tid[wp[u]] = u) \/ tid[wp[t]] \notin {t, u}
            BY <1>1, <3>1, <3>3, <5>1 DEF PromptInv, Replaced
          <5>. QED
            BY <1>1, <3>1, <3>3, <5>2 DEF PromptInv, Replaced
        <4>2. CASE pc[u] \notin {"call", "run"}
          BY <3>3, <4>2 DEF Serving, Busy
        <4>. QED
          BY <4>1, <4>2
      <3>4. CASE wp[u] # wp[t]
        BY <1>1, <3>1, <3>4, WorkHolds
      <3>. QED
        BY <3>2, <3>3, <3>4
    <2>2. CASE ~WriteFlags(t)
      BY <2>2
      DEF Locks, Spurious, PoolStep, Updating, Read, Locking, Lock, LockDone, Unwind,
          SpuriousWakeup, Sleep, TakeItem, ReadFlags, Unlock, Begin, Call, Open, OpenError,
          Close, Mark, Return, Killed, Die
    <2>. QED
      BY <2>1, <2>2
  <1>2. ASSUME NEW u \in Threads, u # t PROVE Serving(u)' <=> Serving(u)
    <2>1. /\ pc'[u] = pc[u] /\ (Active(u)' => Active(u) /\ wp'[u] = wp[u])
          /\ \A s \in Slots : Busy(s)' => Busy(s)
      BY <1>2, ThreadSlots
    <2>2. CASE ~Active(u)
      BY <2>1, <2>2 DEF Serving, Active
    <2>3. CASE Active(u)
      <3>1. wp'[u] = wp[u] /\ wp[u] \in Slots
        BY <2>1, <2>3, WorkHolds DEF Active
      <3>2. Serving(u) => flags'[wp[u]] = flags[wp[u]]
        BY <1>1, <1>2, <2>3
      <3>3. Busy(wp[u])' => Busy(wp[u])
        BY <2>1, <3>1 DEF Busy
      <3>. QED
        BY <2>1, <3>1, <3>2, <3>3 DEF Serving, Busy
    <2>. QED
      BY <2>2, <2>3
  <1>3. CASE Locks(t) \/ Spurious(t)
    BY <1>2, <1>3 DEF Locks, Spurious, Locking, Lock, LockDone, Unwind, SpuriousWakeup, Serving,
                      Unlock, Killed, Die, OpenError, Mark, Return, Active
  <1>4. CASE PoolStep(t)
    <2>1. CASE Sleep(t) \/ TakeItem(t) \/ ReadFlags(t) \/ WriteFlags(t)
      BY <1>2, <2>1 DEF Sleep, TakeItem, ReadFlags, WriteFlags, Serving,
                        Unlock, Killed, Die, OpenError, Mark, Return, Active
    <2>2. CASE Unlock(t)
      BY <1>2, <2>2 DEF Unlock, Serving, Killed, Die, OpenError, Mark, Return, Active
    <2>. QED
      BY <1>4, <2>1, <2>2 DEF PoolStep
  <1>5. CASE Begin(t)
    BY <1>2, <1>5 DEF Begin, Call, Serving, Unlock, Killed, Die, OpenError, Mark, Return, Active
  <1>6. CASE Open(t) \/ Close(t) \/ Read(t)
    <2>1. UNCHANGED <<pc, wp, flags>> /\ body[t] \in {"open", "close", "read"} /\ pc[t] = "run"
      BY <1>6 DEF Open, Close, Read, BodyInv
    <2>. QED
      BY <1>2, <2>1 DEF Serving, Unlock, Killed, Die, OpenError, Mark, Return, Active
  <1>7. CASE OpenError(t) \/ Mark(t)
    BY <1>2, <1>7 DEF OpenError, Mark, Return, Serving, Unlock
  <1>8. CASE Killed(t)
    BY <1>2, <1>8 DEF Killed, Die, Serving, Unlock, Active
  <1>. QED
    BY <1>3, <1>4, <1>5, <1>6, <1>7, <1>8 DEF Updating

LEMMA ThreadRefines ==
    ASSUME RefineInv, NEW t \in Threads,
           Locks(t) \/ Spurious(t) \/ PoolStep(t) \/ Updating(t) \/ Read(t) \/ Killed(t)
    PROVE  [Round!Next]_(Round!vars)
  <1>. USE DEF RefineInv
  <1>1. step' = step /\ arg' = arg /\ Cleared' = Cleared
    BY ThreadSlots, SameCleared
  <1>2. /\ \A u \in Threads : u # t => (Serving(u)' <=> Serving(u))
        /\ \A u \in Threads : Serving(u) /\ Serving(u)' => wp'[u] = wp[u]
        /\ ~(Unlock(t) \/ Killed(t) \/ OpenError(t) \/ Mark(t)) => (Serving(t)' <=> Serving(t))
        /\ Unlock(t) => ~Serving(t) /\ Active(t)
        /\ Killed(t) \/ OpenError(t) \/ Mark(t) => ~Serving(t)'
    BY ThreadServing
  <1>3. (Serving(t)' <=> Serving(t)) => Underway' = Underway
    BY <1>1, <1>2, SameServed DEF Underway
  <1>4. ASSUME Serving(t), ~Serving(t)'
        PROVE  /\ arg[wp[t]] \in Underway /\ arg[wp[t]] \in Packs /\ step # "scan"
               /\ Underway' = Underway \ {arg[wp[t]]}
    <2>1. arg[wp[t]] \in Packs /\ wp[t] \in Slots /\ Held(wp[t])
      BY <1>4, ServingHolds
    <2>2. \A u \in Threads : u # t /\ Serving(u) => arg[wp[u]] # arg[wp[t]]
      BY <1>4, ServingApart DEF ItemsInv
    <2>3. Underway' = Underway \ {arg[wp[t]]}
      BY <1>1, <1>2, <1>4, <2>2 DEF Underway
    <2>. QED
      BY <1>4, <2>1, <2>3, HeldInside DEF Underway
  <1>5. ASSUME body[t] # "none"
        PROVE  /\ Serving(t) /\ item[t] = arg[wp[t]] /\ item[t] \in Packs
               /\ item[t] \in Underway /\ step # "scan"
    <2>1. pc[t] = "run" /\ Serving(t) /\ item[t] = arg[wp[t]]
      BY <1>5 DEF BaseInv, BodyInv, Serving, ItemsInv, RunsArg
    <2>2. item[t] \in Packs /\ wp[t] \in Slots /\ Held(wp[t])
      BY <2>1, ServingHolds
    <2>. QED
      BY <2>1, <2>2, HeldInside DEF Underway
  <1>6. CASE Unlock(t) /\ UNCHANGED <<opened, updated>>
    <2>1. CASE Serving(t)'
      <3>1. ~Serving(t) /\ Active(t) /\ wp' = wp /\ pc'[t] = "lock" /\ flags' = flags
        BY <1>2, <1>6 DEF Unlock, At, BaseInv, TypeInv, TypeOK
      <3>2. Busy(wp[t]) /\ wp[t] \in Slots
        BY <2>1, <3>1, WorkHolds DEF Serving, Busy
      <3>3. arg[wp[t]] \in Packs /\ arg[wp[t]] \in Cleared /\ step # "scan"
        BY <3>2, HeldPack, HeldCleared, HeldInside DEF Held
      <3>4. \A u \in Threads : Serving(u) => arg[wp[u]] # arg[wp[t]]
        <4>1. ASSUME NEW u \in Threads, Serving(u) PROVE arg[wp[u]] # arg[wp[t]]
          <5>1. u # t /\ Active(u) /\ wp[u] \in Slots /\ Held(wp[u])
            BY <3>1, <4>1, ServingHolds
          <5>2. wp[u] # wp[t]
            BY <3>1, <3>2, <5>1, BusyAlone
          <5>. QED
            BY <3>2, <5>1, <5>2 DEF ItemsInv, OwnItem, Held
        <4>. QED
          BY <4>1
      <3>5. arg[wp[t]] \notin Underway /\ Underway' = Underway \cup {arg[wp[t]]}
        BY <1>1, <1>2, <2>1, <3>1, <3>4 DEF Underway
      <3>. QED
        BY <1>1, <1>6, <3>3, <3>5 DEF RoundInv, Round!Next, Round!Start
    <2>2. CASE ~Serving(t)'
      BY <1>1, <1>2, <1>3, <1>6, <2>2 DEF Round!vars
    <2>. QED
      BY <2>1, <2>2
  <1>7. CASE Killed(t)
    <2>1. UNCHANGED <<opened, updated>>
      BY <1>7 DEF Killed, packs
    <2>2. CASE Serving(t)
      BY <1>1, <1>2, <1>4, <1>7, <2>1, <2>2 DEF Round!Next, Round!Stop
    <2>3. CASE ~Serving(t)
      BY <1>1, <1>2, <1>3, <1>7, <2>1, <2>3 DEF Round!vars
    <2>. QED
      BY <2>2, <2>3
  <1>8. CASE OpenError(t)
    <2>1. body[t] # "none" /\ UNCHANGED <<opened, updated>>
      BY <1>8 DEF OpenError, In
    <2>. QED
      BY <1>1, <1>2, <1>4, <1>5, <1>8, <2>1 DEF Round!Next, Round!Stop
  <1>9. CASE Mark(t)
    <2>1. /\ body[t] # "none" /\ opened' = opened
          /\ updated' = IF result[t] THEN updated \cup {item[t]} ELSE updated
      BY <1>9 DEF Mark, In
    <2>2. /\ item[t] \in Packs /\ item[t] \in Underway
          /\ Underway' = Underway \ {item[t]}
      BY <1>2, <1>4, <1>5, <1>9, <2>1
    <2>3. CASE result[t]
      BY <1>1, <2>1, <2>2, <2>3 DEF Round!Next, Round!Mark
    <2>4. CASE ~result[t]
      BY <1>1, <1>5, <2>1, <2>2, <2>4 DEF Round!Next, Round!Stop
    <2>. QED
      BY <2>3, <2>4
  <1>10. ASSUME ~(Unlock(t) \/ Killed(t) \/ OpenError(t) \/ Mark(t)) PROVE Underway' = Underway
    BY <1>2, <1>3, <1>10
  <1>11. CASE Open(t)
    <2>1. body[t] = "open" /\ pc' = pc /\ opened' = opened \cup {item[t]} /\ updated' = updated
          /\ vars' = vars
      BY <1>11 DEF Open, In, vars
    <2>2. Underway' = Underway
      BY <2>1 DEF Underway, Serving, vars
    <2>. QED
      BY <1>1, <1>5, <2>1, <2>2 DEF Round!Next, Round!OpenSession
  <1>12. CASE Close(t)
    <2>1. body[t] = "close" /\ opened' = opened \ {item[t]} /\ updated' = updated
          /\ vars' = vars
      BY <1>12 DEF Close, In
    <2>2. Underway' = Underway
      BY <2>1 DEF Underway, Serving, vars
    <2>. QED
      BY <1>1, <1>5, <2>1, <2>2 DEF Round!Next, Round!CloseSession
  <1>13. CASE Locks(t) \/ Spurious(t) \/ PoolStep(t) \/ Read(t) \/ Begin(t)
    <2>1. UNCHANGED <<opened, updated>>
      BY <1>13 DEF Locks, Spurious, PoolStep, Read, Begin, packs
    <2>2. CASE Unlock(t)
      BY <1>6, <2>1, <2>2
    <2>3. CASE ~Unlock(t)
      BY <1>1, <1>7, <1>8, <1>9, <1>10, <2>1, <2>3 DEF Round!vars
    <2>. QED
      BY <2>2, <2>3
  <1>. QED
    BY <1>7, <1>8, <1>9, <1>11, <1>12, <1>13 DEF Updating

LEMMA LoopRefines ==
    ASSUME RefineInv,
           \/ EnterRound \/ ClearUpdated \/ SubmitUpdate \/ WaitForUpdates
           \/ KillLate \/ KillDone \/ ClosePack \/ LeaveRound
    PROVE  [Round!Next]_(Round!vars)
  <1>. USE DEF RefineInv, Loop, Goto, packs, vars, slots, workers
  <1>1. UNCHANGED <<flags, arg, pc, wp>>
    BY DEF EnterRound, ClearUpdated, SubmitUpdate, WaitForUpdates, KillLate, KillDone,
           ClosePack, LeaveRound, ExecCall, WaitCall, KillCall
  <1>2. Underway' = Underway
    BY <1>1 DEF Underway, Serving
  <1>3. CASE EnterRound
    <2>1. Cleared = {} /\ Cleared' = {}
      BY <1>3, PacksAssumption DEF EnterRound, Cleared, Packs
    <2>. QED
      BY <1>2, <1>3, <2>1 DEF EnterRound, Round!Next, Round!Enter
  <1>4. CASE ClearUpdated
    <2>1. pp \in Packs /\ mpc = "caller" /\ step = "clear"
      BY <1>4, PacksAssumption DEF ClearUpdated, BaseInv, CursorOK, Packs
    <2>2. \A s \in Slots : Held(s) => arg[s] < pp
      BY <2>1 DEF ItemsInv, Handed
    <2>3. pp \in Nat /\ ~(pp < pp)
      BY <2>1 DEF Packs
    <2>4. \A t \in Threads : Serving(t) => arg[wp[t]] # pp
      BY <2>2, <2>3, ServingHolds
    <2>5. pp \notin Underway
      BY <2>4 DEF Underway
    <2>6. Cleared' = Cleared \cup {pp}
      BY <1>4, <2>1 DEF ClearUpdated, Cleared
    <2>. QED
      BY <1>2, <1>4, <2>1, <2>5, <2>6 DEF ClearUpdated, Round!Next, Round!Clear
  <1>5. CASE SubmitUpdate \/ WaitForUpdates \/ KillLate \/ KillDone
    <2>1. pp \in Nat /\ NPacks \in Nat
      BY PacksAssumption DEF BaseInv, CursorOK
    <2>2. ASSUME SubmitUpdate PROVE Cleared' = Cleared
      <3>1. \A p \in Packs : p < pp + 1 <=> p < pp \/ p = pp
        BY <2>1 DEF Packs
      <3>. QED
        BY <2>2, <3>1 DEF SubmitUpdate, Cleared
    <2>3. ASSUME WaitForUpdates PROVE Cleared' = Cleared
      <3>1. \A p \in Packs : p < pp
        BY <2>1, <2>3 DEF WaitForUpdates, Packs
      <3>. QED
        BY <2>3, <3>1 DEF WaitForUpdates, Cleared
    <2>4. ASSUME KillLate \/ KillDone PROVE Cleared' = Cleared
      BY <2>4 DEF KillLate, KillDone, Cleared
    <2>5. Cleared' = Cleared
      BY <1>5, <2>2, <2>3, <2>4
    <2>. QED
      BY <1>2, <1>5, <2>5 DEF SubmitUpdate, WaitForUpdates, KillLate, KillDone, Round!vars
  <1>6. CASE ClosePack
    <2>1. pp \in Packs
      BY <1>6, PacksAssumption DEF ClosePack, BaseInv, CursorOK, Packs
    <2>2. Cleared' = Cleared
      BY <1>6 DEF ClosePack, Cleared
    <2>. QED
      BY <1>2, <1>6, <2>1, <2>2 DEF ClosePack, Round!Next, Round!CloseSession
  <1>7. CASE LeaveRound
    <2>1. \A t \in Threads : ~Serving(t)
      BY <1>7, HeldInside, ServingHolds DEF LeaveRound
    <2>2. Underway = {}
      BY <2>1 DEF Underway
    <2>3. opened = {}
      <3>1. \A p \in opened : p \in 1..NPacks /\ p >= pp
        BY <1>7 DEF LeaveRound, ClosedSoFar, BaseInv, BodyInv, Packs
      <3>2. pp > NPacks /\ pp \in Nat /\ NPacks \in Nat
        BY <1>7, PacksAssumption DEF LeaveRound, BaseInv, CursorOK
      <3>. QED
        BY <3>1, <3>2
    <2>4. Cleared = Packs /\ Cleared' = {}
      BY <1>7 DEF LeaveRound, Cleared
    <2>. QED
      BY <1>2, <1>7, <2>2, <2>3, <2>4 DEF LeaveRound, Round!Next, Round!Leave
  <1>. QED
    BY <1>3, <1>4, <1>5, <1>6, <1>7

\* worker_exec gives the pack to an idle slot; its thread, if it has one, will take it.
LEMMA AssignRefines ==
    ASSUME RefineInv, ExecAssign, UNCHANGED <<step, pp, opened, updated>>
    PROVE  [Round!Next]_(Round!vars)
  <1>. USE DEF RefineInv
  <1>1. /\ step = "clear" /\ mpc = "exec" /\ mpc' = "caller" /\ sig = {}
        /\ mx \in Slots /\ ~Held(mx) /\ lock[mx] = None
        /\ marg = pp - 1 /\ marg \in Packs /\ outcome[marg] = "none"
        /\ \A s \in Slots : Held(s) => arg[s] \in Packs /\ arg[s] < marg
        /\ arg' = [arg EXCEPT ![mx] = marg]
        /\ flags' = [flags EXCEPT ![mx] = @ \cup {"BUSY"}]
        /\ UNCHANGED <<tid, wp, item, sig>>
        /\ \A u \in Threads : pc'[u] = pc[u] \/ (pc[u] = "wait" /\ pc'[u] = "relock")
    BY Assigned
  <1>2. /\ arg'[mx] = marg /\ "BUSY" \in flags'[mx]
        /\ \A s \in Slots : s # mx => arg'[s] = arg[s] /\ flags'[s] = flags[s]
    BY <1>1 DEF BaseInv, TypeInv, TypeOK
  <1>3. ASSUME NEW u \in Threads, Active(u) PROVE Active(u)' /\ wp[u] \in Slots
    BY <1>1, <1>3, WorkHolds DEF Active
  <1>4. ASSUME NEW u \in Threads, wp[u] # mx
        PROVE  (Serving(u)' <=> Serving(u)) /\ (Serving(u) => arg'[wp[u]] = arg[wp[u]])
    <2>1. CASE Active(u)
      BY <1>1, <1>2, <1>3, <1>4, <2>1 DEF Serving
    <2>2. CASE ~Active(u)
      BY <1>1, <2>2 DEF Serving, Active
    <2>. QED
      BY <2>1, <2>2
  <1>5. ASSUME NEW u \in Threads, wp[u] = mx PROVE ~Serving(u)
    BY <1>1, <1>5, ServingHolds
  <1>6. \A u \in Threads : Serving(u) => arg[wp[u]] # marg
    <2>1. \A p \in Packs : ~(p < p)
      BY PacksAssumption DEF Packs
    <2>. QED
      BY <1>1, <2>1, ServingHolds
  <1>9. marg \in Cleared /\ Cleared' = Cleared
    <2>1. marg < pp
      BY <1>1 DEF BaseInv, CursorOK, Packs
    <2>. QED
      BY <1>1, <2>1, SameCleared DEF Cleared
  <1>7. CASE \E t \in Threads : Active(t) /\ wp[t] = mx
    <2>1. PICK t \in Threads : Active(t) /\ wp[t] = mx
      BY <1>7
    <2>2. \A u \in Threads : Active(u) /\ wp[u] = mx => u = t
      BY <1>1, <2>1 DEF BaseInv, OwnInv, OneWorkerPerSlot
    <2>3. pc[t] \notin Working /\ pc[t] \notin Holding
      BY <1>1, <2>1, WorkHolds, PoolAssumption DEF BaseInv, LockInv
    <2>4. pc[t] \in {"lock", "wait", "relock"}
      BY <2>1, <2>3 DEF BaseInv, TypeInv, TypeOK, WorkerPC, Holding, Working, Active
    <2>5. Serving(t)' /\ arg'[wp'[t]] = marg
      BY <1>1, <1>2, <2>1, <2>4 DEF Serving
    <2>6. \A u \in Threads : u # t => (Serving(u)' <=> Serving(u))
      <3>1. ASSUME NEW u \in Threads, u # t, wp[u] = mx PROVE ~Serving(u)'
        <4>1. ~Active(u)
          BY <2>2, <3>1
        <4>. QED
          BY <1>1, <4>1 DEF Active, Serving
      <3>. QED
        BY <1>4, <1>5, <3>1
    <2>7. \A u \in Threads : Serving(u) => wp'[u] = wp[u] /\ arg'[wp[u]] = arg[wp[u]]
      BY <1>1, <1>4, <1>5
    <2>8. marg \notin Underway /\ Underway' = Underway \cup {marg}
      BY <1>6, <2>5, <2>6, <2>7, OneMoreServed
    <2>. QED
      BY <1>1, <1>9, <2>8 DEF Round!Next, Round!Start
  <1>8. CASE ~\E t \in Threads : Active(t) /\ wp[t] = mx
    <2>1. ASSUME NEW u \in Threads, wp[u] = mx PROVE ~Serving(u)'
      <3>1. ~Active(u)
        BY <1>8, <2>1
      <3>. QED
        BY <1>1, <3>1 DEF Active, Serving
    <2>2. Underway' = Underway
      BY <1>1, <1>4, <1>5, <2>1, SameServed
    <2>. QED
      BY <1>9, <2>2 DEF Round!vars
  <1>. QED
    BY <1>7, <1>8

\* worker_killbusy may set back the BUSY that a thread has cleared: the thread, if it is
\* still under way, is to update the pack once more.
LEMMA WriteRefines ==
    ASSUME RefineInv, WriteKill, UNCHANGED <<step, pp, opened, updated>>
    PROVE  [Round!Next]_(Round!vars)
  <1>. USE DEF RefineInv
  <1>1. /\ mpc = "setkill" /\ mx \in Slots /\ flags[mx] \subseteq mtmp /\ step = "kill"
        /\ flags' = [flags EXCEPT ![mx] = mtmp \cup {"KILL"}]
        /\ UNCHANGED <<arg, tid, pc, wp>>
    BY DEF WriteKill, workers, BaseInv, TypeInv, IndexOK, OwnInv, FlagWrites, InStep, CursorOK, Killing
  <1>2. /\ \A s \in Slots : s # mx => flags'[s] = flags[s]
        /\ flags[mx] \subseteq flags'[mx] /\ ("BUSY" \in flags'[mx] => "BUSY" \in mtmp)
    BY <1>1 DEF BaseInv, TypeInv, TypeOK
  <1>3. ASSUME NEW u \in Threads, wp[u] # mx PROVE Serving(u)' <=> Serving(u)
    <2>1. CASE Active(u)
      BY <1>1, <1>2, <1>3, <2>1, WorkHolds DEF Serving
    <2>2. CASE ~Active(u)
      BY <1>1, <2>2 DEF Serving, Active
    <2>. QED
      BY <2>1, <2>2
  <1>4. \A u \in Threads : Serving(u) => wp'[u] = wp[u] /\ arg'[wp[u]] = arg[wp[u]]
    BY <1>1
  <1>5. \A u \in Threads : Serving(u) => Serving(u)'
    <2>1. ASSUME NEW u \in Threads, Serving(u), wp[u] = mx PROVE Serving(u)'
      BY <1>1, <1>2, <2>1 DEF Serving
    <2>. QED
      BY <1>3, <2>1
  <1>6. CASE \E t \in Threads : ~Serving(t) /\ Serving(t)'
    <2>1. PICK t \in Threads : ~Serving(t) /\ Serving(t)'
      BY <1>6
    <2>2. Active(t) /\ wp[t] = mx /\ "BUSY" \in flags'[mx]
      BY <1>1, <1>3, <2>1 DEF Serving, Active
    <2>3. Held(mx) /\ arg[mx] \in Packs /\ arg[mx] \in Cleared
      BY <1>1, <1>2, <2>2, HeldPack, HeldCleared DEF Held
    <2>4. \A u \in Threads : Active(u) /\ wp[u] = mx => u = t
      BY <1>1, <2>2 DEF BaseInv, PromptInv, Replaced
    <2>5. \A u \in Threads : u # t => (Serving(u)' <=> Serving(u))
      <3>1. ASSUME NEW u \in Threads, u # t, Serving(u)' PROVE wp[u] # mx
        <4>1. Active(u)
          BY <1>1, <3>1 DEF Serving, Active
        <4>. QED
          BY <2>4, <3>1, <4>1
      <3>. QED
        BY <1>3, <1>5, <3>1
    <2>6. \A u \in Threads : Serving(u) => arg[wp[u]] # arg[mx]
      <3>1. ASSUME NEW u \in Threads, Serving(u) PROVE arg[wp[u]] # arg[mx]
        <4>1. u # t /\ Active(u) /\ wp[u] \in Slots /\ Held(wp[u])
          BY <2>1, <3>1, ServingHolds
        <4>2. wp[u] # mx
          BY <2>4, <4>1
        <4>. QED
          BY <1>1, <2>3, <4>1, <4>2 DEF ItemsInv, OwnItem
      <3>. QED
        BY <3>1
    <2>7. arg'[wp'[t]] = arg[mx]
      BY <1>1, <2>2
    <2>8. arg[mx] \notin Underway /\ Underway' = Underway \cup {arg[mx]}
      BY <1>4, <2>1, <2>5, <2>6, <2>7, OneMoreServed
    <2>. QED
      BY <1>1, <2>3, <2>8, SameCleared DEF Round!Next, Round!Start
  <1>7. CASE ~\E t \in Threads : ~Serving(t) /\ Serving(t)'
    <2>1. Underway' = Underway
      BY <1>4, <1>5, <1>7, SameServed
    <2>. QED
      BY <2>1, SameCleared DEF Round!vars
  <1>. QED
    BY <1>6, <1>7

\* A thread that is re-created before the signal has stopped the old one takes what the
\* old one had still to begin.
LEMMA RecreateRefines ==
    ASSUME RefineInv, NEW r \in Threads, Recreate(r), UNCHANGED <<step, pp, opened, updated>>
    PROVE  [Round!Next]_(Round!vars)
  <1>. USE DEF RefineInv
  <1>1. /\ mpc = "create" /\ mx \in Slots /\ pc[r] = "dead" /\ step = "kill"
        /\ flags' = [flags EXCEPT ![mx] = {}]
        /\ wp' = [wp EXCEPT ![r] = mx] /\ pc' = [pc EXCEPT ![r] = "lock"]
        /\ UNCHANGED arg
    BY DEF Recreate, BaseInv, TypeInv, IndexOK, InStep, CursorOK, Killing
  <1>2. ~Serving(r) /\ ~Serving(r)'
    <2>1. pc'[r] = "lock" /\ wp'[r] = mx /\ flags'[mx] = {}
      BY <1>1 DEF BaseInv, TypeInv, TypeOK
    <2>. QED
      BY <1>1, <2>1 DEF Serving
  <1>3. ASSUME NEW u \in Threads, u # r
        PROVE  /\ pc'[u] = pc[u] /\ wp'[u] = wp[u]
               /\ Serving(u)' => Serving(u)
               /\ Active(u) /\ wp[u] # mx => (Serving(u)' <=> Serving(u))
    <2>1. pc'[u] = pc[u] /\ wp'[u] = wp[u]
      BY <1>1, <1>3
    <2>2. Active(u) => wp[u] \in Slots
      BY WorkHolds
    <2>3. \A s \in Slots : flags'[s] \subseteq flags[s] /\ (s # mx => flags'[s] = flags[s])
      BY <1>1 DEF BaseInv, TypeInv, TypeOK
    <2>. QED
      BY <2>1, <2>2, <2>3 DEF Serving, Active
  <1>4. \A u \in Threads : Serving(u) => u # r /\ wp'[u] = wp[u] /\ arg'[wp[u]] = arg[wp[u]]
    BY <1>1, <1>2, <1>3
  <1>5. CASE \E t \in Threads : Serving(t) /\ ~Serving(t)'
    <2>1. PICK t \in Threads : Serving(t) /\ ~Serving(t)'
      BY <1>5
    <2>2. Active(t) /\ wp[t] \in Slots /\ arg[wp[t]] \in Packs
      BY <2>1, ServingHolds
    <2>3. wp[t] = mx
      BY <1>2, <1>3, <2>1, <2>2
    <2>4. \A u \in Threads : Active(u) /\ wp[u] = mx => u = t
      BY <1>1, <2>2, <2>3, NotLess DEF BaseInv, PromptInv, Replaced
    <2>5. \A u \in Threads : u # t => (Serving(u)' <=> Serving(u))
      <3>1. ASSUME NEW u \in Threads, u # t, Serving(u) PROVE Serving(u)'
        <4>1. Active(u) /\ u # r
          BY <1>4, <3>1, ServingHolds
        <4>. QED
          BY <1>3, <2>4, <3>1, <4>1
      <3>. QED
        BY <1>2, <1>3, <3>1
    <2>6. arg[wp[t]] \in Underway /\ Underway' = Underway \ {arg[wp[t]]}
      BY <1>4, <2>1, <2>5, OneLessServed DEF ItemsInv
    <2>. QED
      BY <2>2, <2>6, SameCleared DEF Round!Next, Round!Stop
  <1>6. CASE ~\E t \in Threads : Serving(t) /\ ~Serving(t)'
    <2>1. Underway' = Underway
      BY <1>2, <1>3, <1>4, <1>6, SameServed
    <2>. QED
      BY <2>1, SameCleared DEF Round!vars
  <1>. QED
    BY <1>5, <1>6

LEMMA PoolRefines ==
    ASSUME RefineInv, InPool
    PROVE  [Round!Next]_(Round!vars)
  <1>1. UNCHANGED <<step, pp, opened, updated>> /\ Caller
    BY DEF InPool, loop, packs
  <1>2. CASE ExecAssign \/ WriteKill \/ \E t \in Threads : Recreate(t)
    BY <1>1, <1>2, AssignRefines, WriteRefines, RecreateRefines
  <1>3. CASE \/ ExecBusy \/ InWait \/ KillScan \/ SendSignal \/ ReadKill \/ KillEnd
             \/ RecreateTest \/ KillReturn
    <2>1. UNCHANGED <<flags, arg, pc, wp>>
      BY <1>3 DEF ExecBusy, InWait, WaitScan, WaitReturn, WaitAgain, WaitTimeout, KillScan,
                  SendSignal, ReadKill, KillEnd, RecreateTest, KillReturn, slots, workers
    <2>. QED
      BY <1>1, <2>1, SameCleared DEF Round!vars, Underway, Serving
  <1>. QED
    BY <1>1, <1>2, <1>3 DEF Caller, InExec, InKill

LEMMA NextRefines ==
    ASSUME RefineInv, [PacksNext]_allvars
    PROVE  [Round!Next]_(Round!vars)
  <1>1. CASE UNCHANGED allvars
    BY <1>1, SameCleared DEF allvars, vars, loop, Underway, Serving, Round!vars
  <1>. QED
    BY <1>1, ThreadRefines, LoopRefines, PoolRefines DEF PacksNext, Main

\* pack_update_all keeps its promise to the control loop, for every number of packs, of
\* slots and of threads, whatever is late, fails or is killed, if the signals of a round
\* have taken effect when its worker_killbusy returns.
THEOREM PacksImplementRound == Prompt => (PacksSpec => ImplementsRound)
  <1> SUFFICES ASSUME Prompt PROVE PacksSpec => ImplementsRound
    OBVIOUS
  <1>1. PacksInit => Round!Init
    BY InitRefines
  <1>2. RefineInv /\ [PacksNext]_allvars => [Round!Next]_(Round!vars)
    BY NextRefines
  <1>3. PacksSpec => []BaseInv
    BY BaseInvariant
  <1>4. PacksSpec => []ClosedSoFar
    BY ClosedInvariant
  <1>5. PacksSpec => []ItemsInv
    BY ItemsInvariant
  <1>6. BaseInv /\ KillInv /\ RoundInv /\ ClosedSoFar /\ ItemsInv => RefineInv
    BY DEF RefineInv
  <1>7. PacksSpec => []RefineInv
    BY <1>3, <1>4, <1>5, <1>6, RoundInvariant, PTL
  <1>. QED
    BY <1>1, <1>2, <1>7, PTL DEF PacksSpec, ImplementsRound, Round!Spec

-----------------------------------------------------------------------------
(* No update is lost when all are in time (whatever Prompt says: no signal *)
(* is sent).  What worker_wait has seen idle stays idle,                   *)
(* since nobody hands out a pack meanwhile; and a pack that has been       *)
(* handed out is done, or is still in a busy slot.                         *)

Calm ==
    /\ sig = {} /\ mpc \notin {"signal", "rdflag", "setkill", "create"}
    /\ \A s \in Slots : "KILL" \notin flags[s]
    /\ step \in {"scan", "kill", "close"} \/ (step = "wait" /\ mpc = "caller") =>
         \A s \in Slots : ~Busy(s)
    /\ mpc = "wait" /\ mtmp = {} => \A s \in Slots : s < mx => ~Busy(s)

HandedOut(p) ==
    step \in {"wait", "kill", "close"} \/ (step \in {"clear", "submit"} /\ p < pp)

Kept ==
    \A p \in Packs : HandedOut(p) =>
        \/ outcome[p] \in {"read", "failed"}
        \/ mpc = "exec" /\ marg = p
        \/ \E s \in Slots : Busy(s) /\ arg[s] = p

LEMMA NextPromptInv ==
    ASSUME TypeInv, OwnInv, PromptInv, Calm, [Next]_vars
    PROVE  PromptInv'
  <1>1. PromptInv /\ UNCHANGED vars => PromptInv'
    BY DEF PromptInv, SignalsEnd, Replaced, ItemInv, BusyWhileWorking, Active, vars
  <1>. QED
    BY <1>1, WorkerPrompt, CallerPrompt DEF Calm, Next

LEMMA NextCalm ==
    ASSUME Timely, BaseInv, Calm, [PacksNext]_allvars
    PROVE  Calm'
  <1>. USE DEF BaseInv, TypeInv, TypeOK, IndexOK, Calm, Goto, Loop, slots, workers, caller
  <1>1. CASE UNCHANGED allvars
    BY <1>1 DEF allvars, vars, Busy
  <1>2. ASSUME NEW t \in Threads,
               Locks(t) \/ Spurious(t) \/ PoolStep(t) \/ Updating(t) \/ Read(t) \/ Killed(t)
        PROVE  Calm'
    <2>1. /\ UNCHANGED <<step, mpc, mx, mtmp>>
          /\ \A s \in Slots : Busy(s)' => Busy(s)
      BY <1>2, ThreadSlots
    <2>2. sig' = sig /\ \A s \in Slots : "KILL" \in flags'[s] => "KILL" \in flags[s]
      <3>1. CASE WriteFlags(t)
        <4>1. wp[t] \in Slots /\ tmp[t] \subseteq flags[wp[t]]
          BY <3>1 DEF WriteFlags, At, OwnInv, FlagWrites
        <4>. QED
          BY <3>1, <4>1 DEF WriteFlags
      <3>2. CASE ~WriteFlags(t)
        BY <1>2, <3>2
        DEF Locks, Spurious, PoolStep, Updating, Begin, Open, OpenError, Read, Close, Mark,
            Killed, Locking, Lock, LockDone, Unwind, Sleep, TakeItem, Call, ReadFlags,
            Unlock, Die, Return, SpuriousWakeup, vars
      <3>. QED
        BY <3>1, <3>2
    <2>. QED
      BY <2>1, <2>2
  <1>3. CASE \/ EnterRound \/ ClearUpdated \/ SubmitUpdate \/ WaitForUpdates
             \/ KillLate \/ KillDone \/ ClosePack \/ LeaveRound
    <2>1. UNCHANGED <<flags, sig>>
      BY <1>3 DEF EnterRound, ClearUpdated, SubmitUpdate, WaitForUpdates, KillLate, KillDone,
                  ClosePack, LeaveRound, ExecCall, WaitCall, KillCall, vars
    <2>2. \A s \in Slots : ~(s < 1)
      BY PoolAssumption DEF Slots
    <2>. QED
      BY <1>3, <2>1, <2>2
      DEF EnterRound, ClearUpdated, SubmitUpdate, WaitForUpdates, KillLate, KillDone, ClosePack,
          LeaveRound, ExecCall, WaitCall, KillCall, vars, Busy, InStep
  <1>4. CASE InPool
    <2>1. UNCHANGED <<step, pp>> /\ Caller
      BY <1>4 DEF InPool, loop
    <2>2. CASE ExecAssign
      <3>1. step \notin {"scan", "kill", "close", "wait"}
        BY <2>2 DEF ExecAssign, InStep, Killing
      <3>2. /\ mpc' = "caller" /\ sig' = sig
            /\ \A s \in Slots : "KILL" \in flags'[s] => "KILL" \in flags[s]
        BY <2>2 DEF ExecAssign
      <3>. QED
        BY <2>1, <3>1, <3>2
    <2>3. CASE WaitScan
      <3>1. mx \in Slots /\ \A s \in Slots : s < mx + 1 => s < mx \/ s = mx
        BY <2>3, PoolAssumption DEF WaitScan, Slots
      <3>. QED
        BY <2>1, <2>3, <3>1 DEF WaitScan, Busy
    <2>4. CASE WaitReturn \/ WaitAgain \/ WaitTimeout
      <3>1. \A s \in Slots : s < mx /\ ~(s < 1)
        BY <2>4, PoolAssumption DEF WaitReturn, WaitAgain, WaitTimeout, Slots
      <3>. QED
        BY <2>1, <2>4, <3>1 DEF WaitReturn, WaitAgain, WaitTimeout, Busy
    <2>5. CASE KillScan
      <3>1. mx \in Slots /\ step = "kill"
        BY <2>5, PoolAssumption DEF KillScan, Slots, InStep, CursorOK
      <3>. QED
        BY <2>1, <2>5, <3>1 DEF KillScan, Busy
    <2>6. CASE RecreateTest
      <3>1. mx \in Slots
        BY <2>6, PoolAssumption DEF RecreateTest, Slots
      <3>. QED
        BY <2>1, <2>6, <3>1 DEF RecreateTest, Busy
    <2>7. CASE ExecBusy \/ KillEnd \/ KillReturn
      BY <2>1, <2>7 DEF ExecBusy, KillEnd, KillReturn, Busy, InStep, CursorOK
    <2>8. ~(SendSignal \/ ReadKill \/ WriteKill \/ \E t \in Threads : Recreate(t))
      BY DEF SendSignal, ReadKill, WriteKill, Recreate
    <2>. QED
      BY <2>1, <2>2, <2>3, <2>4, <2>5, <2>6, <2>7, <2>8 DEF Caller, InExec, InWait, InKill
  <1>. QED
    BY <1>1, <1>2, <1>3, <1>4 DEF PacksNext, Main

LEMMA ThreadKept ==
    ASSUME BaseInv, ItemsInv, sig = {}, Kept, NEW t \in Threads,
           Locks(t) \/ Spurious(t) \/ PoolStep(t) \/ Updating(t) \/ Read(t) \/ Killed(t)
    PROVE  Kept'
  <1>. USE DEF BaseInv, TypeInv, TypeOK, At, In, slots, vars
  <1>1. UNCHANGED <<step, pp, mpc, marg, arg>>
    BY ThreadSlots
  <1>2. SUFFICES ASSUME NEW p \in Packs, HandedOut(p), ~(mpc = "exec" /\ marg = p)
                 PROVE  \/ outcome'[p] \in {"read", "failed"}
                        \/ \E s \in Slots : Busy(s)' /\ arg[s] = p
    BY <1>1 DEF Kept, HandedOut
  <1>3. \/ outcome' = outcome
        \/ /\ Active(t) /\ Busy(wp[t])
           /\ \E o : outcome' = [outcome EXCEPT ![arg[wp[t]]] = o]
    BY ThreadNotes, WorkHolds DEF Notes, ItemsInv
  <1>4. CASE WriteFlags(t)
    <2>1. Active(t) /\ pc[t] = "write" /\ outcome' = outcome
      BY <1>4, <1>2
      DEF WriteFlags, Active, Locks, Spurious, PoolStep, Updating, Read, packs, Locking, Lock,
          LockDone, Unwind, SpuriousWakeup, Begin, Call, Open, OpenError, Close, Mark, Return,
          Killed, Die
    <2>2. wp[t] \in Slots /\ Busy(wp[t]) /\ outcome[arg[wp[t]]] \in {"read", "failed"}
      BY <2>1, WorkHolds DEF ItemsInv, Accounted, Outcomes, Working
    <2>3. \A s \in Slots : s # wp[t] => flags'[s] = flags[s]
      BY <1>4, <2>2 DEF WriteFlags
    <2>. QED
      BY <1>2, <2>1, <2>2, <2>3 DEF Kept, Busy
  <1>5. CASE ~WriteFlags(t)
    <2>1. flags' = flags
      BY <1>5
      DEF Locks, Spurious, PoolStep, Updating, Read, Locking, Lock, LockDone, Unwind,
          SpuriousWakeup, Sleep, TakeItem, ReadFlags, Unlock, Begin, Call, Open, OpenError,
          Close, Mark, Return, Killed, Die
    <2>2. outcome'[p] = outcome[p] \/ (Active(t) /\ Busy(wp[t]) /\ arg[wp[t]] = p)
      BY <1>3 DEF BodyInv
    <2>3. Active(t) => wp[t] \in Slots
      BY DEF Active
    <2>. QED
      BY <1>2, <2>1, <2>2, <2>3 DEF Kept, Busy
  <1>. QED
    BY <1>4, <1>5

LEMMA MainKept ==
    ASSUME BaseInv, ItemsInv, Calm, Kept, Main
    PROVE  Kept'
  <1>. USE DEF BaseInv, TypeInv, TypeOK, IndexOK, Loop, Goto, slots, workers, vars, packs, loop, CursorOK
  <1>0. NPacks \in Nat /\ Packs = 1..NPacks
    BY PacksAssumption DEF Packs
  <1>1. CASE EnterRound \/ LeaveRound
    BY <1>0, <1>1 DEF EnterRound, LeaveRound, Kept, HandedOut
  <1>2. CASE ClearUpdated
    <2>1. /\ step = "clear" /\ step' = "submit" /\ outcome' = [outcome EXCEPT ![pp] = "none"]
          /\ UNCHANGED <<pp, mpc, marg, arg, flags>>
      BY <1>2 DEF ClearUpdated
    <2>2. \A p \in Packs : HandedOut(p)' => HandedOut(p) /\ outcome'[p] = outcome[p]
      BY <1>0, <2>1 DEF HandedOut, BodyInv
    <2>. QED
      BY <2>1, <2>2 DEF Kept, Busy
  <1>3. CASE SubmitUpdate
    <2>1. /\ mpc' = "exec" /\ marg' = pp /\ pp' = pp + 1 /\ step = "submit" /\ step' = "clear"
          /\ UNCHANGED <<arg, flags, outcome>> /\ mpc = "caller"
      BY <1>3 DEF SubmitUpdate, ExecCall
    <2>2. \A p \in Packs : HandedOut(p)' => HandedOut(p) \/ p = pp
      BY <1>0, <2>1 DEF HandedOut
    <2>. QED
      BY <2>1, <2>2 DEF Kept, Busy
  <1>4. CASE WaitForUpdates \/ KillLate \/ KillDone \/ ClosePack
    <2>1. UNCHANGED <<arg, flags, outcome>> /\ mpc = "caller"
      BY <1>4 DEF WaitForUpdates, KillLate, KillDone, ClosePack, WaitCall, KillCall, InStep
    <2>2. \A p \in Packs : HandedOut(p)
      BY <1>0, <1>4 DEF WaitForUpdates, KillLate, KillDone, ClosePack, HandedOut
    <2>. QED
      BY <2>1, <2>2 DEF Kept, Busy
  <1>5. CASE InPool
    <2>1. UNCHANGED <<step, pp, outcome>> /\ Caller
      BY <1>5 DEF InPool
    <2>2. CASE ExecAssign
      <3>1. mpc = "exec" /\ mx \in Slots /\ ~Busy(mx)
        BY <2>2 DEF ExecAssign, Busy
      <3>2. arg' = [arg EXCEPT ![mx] = marg] /\ flags' = [flags EXCEPT ![mx] = @ \cup {"BUSY"}]
        BY <2>2 DEF ExecAssign
      <3>3. /\ \A s \in Slots : Busy(s) => Busy(s)' /\ arg'[s] = arg[s]
            /\ Busy(mx)' \/ mx' # mx
            /\ "BUSY" \in flags'[mx] /\ arg'[mx] = marg
        BY <3>1, <3>2 DEF Busy
      <3>. QED
        BY <2>1, <3>1, <3>3 DEF Kept, HandedOut, Busy
    <2>3. CASE ~ExecAssign
      <3>1. UNCHANGED <<arg, flags, marg>> /\ (mpc = "exec" => mpc' = "exec")
        BY <2>1, <2>3
        DEF Caller, InExec, InWait, InKill, ExecBusy, WaitScan, WaitReturn, WaitAgain,
            WaitTimeout, KillScan, SendSignal, ReadKill, WriteKill, KillEnd, RecreateTest,
            Recreate, KillReturn, Calm
      <3>. QED
        BY <2>1, <3>1 DEF Kept, HandedOut, Busy
    <2>. QED
      BY <2>2, <2>3
  <1>. QED
    BY <1>1, <1>2, <1>3, <1>4, <1>5 DEF Main

TimelyInv == PromptInv /\ Calm /\ ItemsInv /\ Kept

LEMMA TimelyInvariant == Timely => (PacksSpec => []TimelyInv)
  <1> SUFFICES ASSUME Timely PROVE PacksSpec => []TimelyInv
    OBVIOUS
  <1>1. PacksInit => TimelyInv
    <2>1. PacksInit => Calm /\ Kept
      BY DEF PacksInit, Init, Calm, Kept, HandedOut, Busy
    <2>. QED
      BY <2>1, InitItems, InitPrompt DEF PacksInit, TimelyInv
  <1>2. ASSUME BaseInv, TimelyInv, [PacksNext]_allvars
        PROVE  TimelyInv'
    <2>. USE DEF TimelyInv
    <2>1. PromptInv'
      BY <1>2, StepOfPool, NextPromptInv DEF BaseInv
    <2>2. Calm'
      BY <1>2, NextCalm
    <2>3. ItemsInv'
      <3>1. step = "scan" => \A s \in Slots : ~Held(s)
        BY <1>2, NoneHeld DEF BaseInv, InStep, Calm, Killing
      <3>. QED
        BY <1>2, <3>1, NextItems
    <2>4. Kept'
      <3>1. CASE UNCHANGED allvars
        BY <1>2, <3>1 DEF allvars, vars, Kept, HandedOut, Busy
      <3>. QED
        BY <1>2, <3>1, ThreadKept, MainKept DEF Calm, PacksNext
    <2>. QED
      BY <2>1, <2>2, <2>3, <2>4
  <1>3. /\ CursorOK /\ TypeInv /\ LockInv /\ OwnInv /\ ArgInv /\ BodyInv /\ InStep
        /\ TimelyInv /\ [PacksNext]_allvars
        => TimelyInv'
    BY <1>2 DEF BaseInv, TimelyInv
  <1>. QED
    BY <1>1, <1>3, CursorInvariant, InStepInvariant, PoolTypeInvariant, LockInvariant,
       OwnInvariant, BodyInvariant, ArgInvariant, PacksUseThePool, PTL
    DEF PacksSpec

\* When every item returns in time, each pack that was handed to the pool has been
\* updated or found out of reach when pack_update_all goes on from its wait: no
\* slot loses its item or is given another, and the wait does not end early.
THEOREM NoneIsLost == Timely => (PacksSpec => []NoUpdateLost)
  <1> SUFFICES ASSUME Timely PROVE PacksSpec => []NoUpdateLost
    OBVIOUS
  <1>1. InStep /\ TimelyInv => NoUpdateLost
    BY DEF InStep, Killing, TimelyInv, Calm, Kept, HandedOut, NoUpdateLost
  <1>2. PacksSpec => []TimelyInv
    BY TimelyInvariant
  <1>. QED
    BY <1>1, <1>2, InStepInvariant, PTL

=============================================================================
