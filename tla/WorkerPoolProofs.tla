-------------------------- MODULE WorkerPoolProofs --------------------------
(***************************************************************************)
(* What holds of the pool for every number of slots, threads and items.    *)
(***************************************************************************)
EXTENDS WorkerPool, TLAPS

\* The caller's index is that of a slot wherever it is used as one.
IndexOK ==
    mpc \in {"exec", "signal", "rdflag", "setkill", "create"} => mx \in Slots

\* A thread between lock and unlock is the one the mutex says.
LockInv == \A t \in Threads : pc[t] \in Holding => lock[wp[t]] = t

TypeInv == TypeOK /\ IndexOK

-----------------------------------------------------------------------------
(* Type correctness.                                                       *)

LEMMA InitType == Init => TypeInv
  <1> SUFFICES ASSUME Init PROVE TypeInv
    OBVIOUS
  <1>1. NSlots \in Nat /\ 1 \in 1..(NSlots + 1)
    BY PoolAssumption
  <1>2. \A t \in Threads : pc[t] # "dead" => wp[t] \in Slots
    BY DEF Init
  <1>. QED
    BY <1>1, <1>2 DEF Init, TypeInv, TypeOK, IndexOK, WorkerPC, Holding, Flag

LEMMA WorkerType ==
    ASSUME TypeInv, NEW t \in Threads, Worker(t)
    PROVE  TypeInv'
  <1>. USE DEF TypeInv, TypeOK, IndexOK, WorkerPC, Holding, At, caller, slots
  <1>1. CASE Lock(t)
    BY <1>1 DEF Lock
  <1>2. CASE LockDone(t)
    BY <1>2 DEF LockDone
  <1>3. CASE Unwind(t)
    BY <1>3 DEF Unwind
  <1>4. CASE Sleep(t)
    BY <1>4 DEF Sleep
  <1>5. CASE TakeItem(t)
    BY <1>5 DEF TakeItem
  <1>6. CASE Call(t)
    BY <1>6 DEF Call
  <1>7. CASE ReadFlags(t)
    BY <1>7 DEF ReadFlags
  <1>8. CASE WriteFlags(t)
    BY <1>8 DEF WriteFlags
  <1>9. CASE Unlock(t)
    BY <1>9 DEF Unlock
  <1>10. CASE Die(t)
    BY <1>10 DEF Die
  <1>11. CASE Return(t)
    BY <1>11 DEF Return
  <1>12. CASE SpuriousWakeup(t)
    BY <1>12 DEF SpuriousWakeup
  <1>. QED
    BY <1>1, <1>2, <1>3, <1>4, <1>5, <1>6, <1>7, <1>8, <1>9, <1>10, <1>11, <1>12
    DEF Worker, Locking, Stepping

LEMMA CallerType ==
    ASSUME TypeInv,
           Caller \/ (\E i \in Items : ExecCall(i)) \/ WaitCall \/ KillCall
    PROVE  TypeInv'
  <1>. USE PoolAssumption DEF TypeInv, TypeOK, IndexOK, Goto, workers, slots, Slots
  <1>1. CASE ExecBusy
    BY <1>1 DEF ExecBusy
  <1>2. CASE ExecAssign
    <2>1. PICK u \in Threads : pc' = pc \/ (pc[u] = "wait" /\ pc' = [pc EXCEPT ![u] = "relock"])
      BY <1>2 DEF ExecAssign, Signal
    <2>2. pc' \in [Threads -> WorkerPC] /\ \A t \in Threads : pc'[t] # "dead" => pc[t] # "dead"
      BY <2>1 DEF WorkerPC
    <2>3. flags' \in [Slots -> SUBSET Flag] /\ arg' \in [Slots -> Items \cup {None}]
      BY <1>2 DEF ExecAssign, Flag
    <2>4. mpc' = "caller" /\ mx' \in 1..(NSlots + 1) /\ marg' = None
          /\ UNCHANGED <<lock, tid, lost, wp, item, tmp, sig, mtmp>>
      BY <1>2 DEF ExecAssign
    <2>. QED
      BY <2>2, <2>3, <2>4
  <1>3. CASE WaitScan
    <2>1. mtmp' \in SUBSET Flag
      BY <1>3 DEF WaitScan, Flag
    <2>2. mx' \in 1..(NSlots + 1) /\ mpc' = "wait"
      BY <1>3 DEF WaitScan
    <2>. QED
      BY <1>3, <2>1, <2>2 DEF WaitScan
  <1>4. CASE WaitReturn \/ WaitAgain \/ WaitTimeout
    <2>1. /\ mpc' \in {"caller", "wait"} /\ mx' \in 1..(NSlots + 1)
          /\ mtmp' \in SUBSET Flag
      BY <1>4 DEF WaitReturn, WaitAgain, WaitTimeout
    <2>. QED
      BY <1>4, <2>1 DEF WaitReturn, WaitAgain, WaitTimeout
  <1>5. CASE KillScan
    BY <1>5 DEF KillScan
  <1>6. CASE SendSignal
    BY <1>6 DEF SendSignal
  <1>7. CASE ReadKill
    BY <1>7 DEF ReadKill
  <1>8. CASE WriteKill
    BY <1>8 DEF WriteKill, Flag
  <1>9. CASE KillEnd \/ KillReturn
    <2>1. 1 \in 1..(NSlots + 1)
      OBVIOUS
    <2>. QED
      BY <1>9, <2>1 DEF KillEnd, KillReturn
  <1>10. CASE RecreateTest
    BY <1>10 DEF RecreateTest
  <1>11. CASE \E t \in Threads : Recreate(t)
    BY <1>11 DEF Recreate, Flag, WorkerPC
  <1>12. CASE (\E i \in Items : ExecCall(i)) \/ WaitCall \/ KillCall
    <2>1. /\ mpc' \in {"exec", "wait", "kill"} /\ mx' = 1 /\ 1 \in Slots
          /\ mtmp' \in SUBSET Flag /\ marg' \in Items \cup {None}
      BY <1>12 DEF ExecCall, WaitCall, KillCall
    <2>2. UNCHANGED slots /\ UNCHANGED workers
      BY <1>12 DEF ExecCall, WaitCall, KillCall
    <2>. QED
      BY <2>1, <2>2
  <1>. QED
    BY <1>1, <1>2, <1>3, <1>4, <1>5, <1>6, <1>7, <1>8, <1>9, <1>10, <1>11, <1>12
    DEF Caller, InExec, InWait, InKill

LEMMA StutterType == TypeInv /\ UNCHANGED vars => TypeInv'
  BY DEF TypeInv, TypeOK, IndexOK, vars

LEMMA PoolTypeInvariant == Spec => []TypeInv
  <1>1. TypeInv /\ [Next]_vars => TypeInv'
    BY WorkerType, CallerType, StutterType DEF Next
  <1>. QED
    BY InitType, <1>1, PTL DEF Spec

\* Every state of the pool is well-typed.
THEOREM PoolTypeCorrect == Spec => []TypeOK
  <1>1. TypeInv => TypeOK
    BY DEF TypeInv
  <1>. QED
    BY <1>1, PoolTypeInvariant, PTL

-----------------------------------------------------------------------------
(* The mutexes.                                                            *)

LEMMA InitLock == Init => LockInv
  BY DEF Init, LockInv, Holding

LEMMA WorkerLock ==
    ASSUME TypeInv, LockInv, NEW t \in Threads, Worker(t)
    PROVE  LockInv'
  <1>. USE DEF TypeInv, TypeOK, LockInv, WorkerPC, Holding, At, slots, Free
  <1>0. None \notin Threads
    BY PoolAssumption
  <1>1. CASE Lock(t) \/ LockDone(t) \/ Unwind(t)
    BY <1>0, <1>1 DEF Lock, LockDone, Unwind
  <1>2. CASE Sleep(t) \/ TakeItem(t) \/ Unlock(t)
    <2>1. ASSUME NEW u \in Threads, u # t, pc[u] \in Holding
          PROVE  wp[u] # wp[t]
      BY <1>2, <2>1 DEF Sleep, TakeItem, Unlock
    <2>. QED
      BY <1>2, <2>1 DEF Sleep, TakeItem, Unlock
  <1>3. CASE Call(t) \/ ReadFlags(t) \/ WriteFlags(t) \/ Return(t) \/ SpuriousWakeup(t)
    BY <1>3 DEF Call, ReadFlags, WriteFlags, Return, SpuriousWakeup
  <1>4. CASE Die(t)
    BY <1>4 DEF Die
  <1>. QED
    BY <1>1, <1>2, <1>3, <1>4 DEF Worker, Locking, Stepping

LEMMA CallerLock ==
    ASSUME TypeInv, LockInv,
           Caller \/ (\E i \in Items : ExecCall(i)) \/ WaitCall \/ KillCall
    PROVE  LockInv'
  <1>. USE DEF TypeInv, TypeOK, LockInv, Holding, workers, slots
  <1>1. CASE ExecAssign
    BY <1>1 DEF ExecAssign, Signal
  <1>2. CASE SendSignal \/ WriteKill
    BY <1>2 DEF SendSignal, WriteKill
  <1>3. CASE \E t \in Threads : Recreate(t)
    BY <1>3 DEF Recreate
  <1>4. CASE UNCHANGED <<pc, wp, lock>>
    BY <1>4
  <1>. QED
    BY <1>1, <1>2, <1>3, <1>4
    DEF Caller, InExec, InWait, InKill, ExecBusy, WaitScan, WaitReturn, WaitAgain,
        WaitTimeout, KillScan, ReadKill, KillEnd, RecreateTest, KillReturn,
        ExecCall, WaitCall, KillCall

LEMMA NextLock == TypeInv /\ LockInv /\ [Next]_vars => LockInv'
  <1>1. LockInv /\ UNCHANGED vars => LockInv'
    BY DEF LockInv, vars
  <1>. QED
    BY WorkerLock, CallerLock, <1>1 DEF Next

LEMMA LockInvariant == Spec => []LockInv
  BY InitLock, NextLock, PoolTypeInvariant, PTL DEF Spec

\* No two threads are ever inside the same slot's critical section.
THEOREM PoolMutex == Spec => []SlotMutex
  <1>1. LockInv => SlotMutex
    BY DEF LockInv, SlotMutex
  <1>. QED
    BY <1>1, LockInvariant, PTL

\* A mutex that a killed thread left locked is never unlocked again.
THEOREM PoolAbandoned == Spec => AbandonedForever
  <1>1. ASSUME TypeInv, LockInv, Next,
               NEW s \in Slots, NEW t \in Threads, lock[s] = t, pc[t] = "dead"
        PROVE  lock'[s] = t
    <2>. USE DEF TypeInv, TypeOK, Holding, WorkerPC, At, slots, workers, Free
    <2>1. None \notin Threads
      BY PoolAssumption
    <2>2. ASSUME NEW u \in Threads, Worker(u)
          PROVE  lock'[s] = t
      <3>1. CASE pc[u] \in Holding
        <4>1. lock[wp[u]] = u /\ u # t
          BY <1>1, <3>1 DEF LockInv
        <4>. QED
          BY <1>1, <2>1, <2>2, <4>1
          DEF Worker, Locking, Stepping, Lock, LockDone, Unwind, Sleep, TakeItem, Call,
              ReadFlags, WriteFlags, Unlock, Die, Return, SpuriousWakeup
      <3>2. CASE pc[u] \notin Holding
        BY <1>1, <2>1, <2>2, <3>2
        DEF Worker, Locking, Stepping, Lock, LockDone, Unwind, Sleep, TakeItem, Call,
            ReadFlags, WriteFlags, Unlock, Die, Return, SpuriousWakeup
      <3>. QED
        BY <3>1, <3>2
    <2>3. CASE Caller \/ (\E i \in Items : ExecCall(i)) \/ WaitCall \/ KillCall
      BY <1>1, <2>3
      DEF Caller, InExec, InWait, InKill, ExecBusy, ExecAssign, WaitScan, WaitReturn,
          WaitAgain, WaitTimeout, KillScan, SendSignal, ReadKill, WriteKill, KillEnd,
          RecreateTest, Recreate, KillReturn, ExecCall, WaitCall, KillCall
    <2>. QED
      BY <1>1, <2>2, <2>3 DEF Next
  <1>2. TypeInv /\ LockInv /\ [Next]_vars =>
          [\A s \in Slots, t \in Threads :
             lock[s] = t /\ pc[t] = "dead" => lock'[s] = t]_vars
    BY <1>1
  <1>. QED
    BY <1>2, LockInvariant, PoolTypeInvariant, PTL DEF Spec, AbandonedForever

-----------------------------------------------------------------------------
(* Who works for a slot, however late the signals arrive.  A slot has KILL *)
(* set, or is about to have it set or to be re-created, only when the      *)
(* thread in its tid has been stopped or sent the signal (Doomed).  Both   *)
(* sides write the flags without regard to each other: a worker stores a   *)
(* part of the flags that are there (its mutex keeps the slot from being   *)
(* re-created meanwhile), worker_killbusy stores all that are there and    *)
(* KILL (FlagWrites).                                                      *)

Signalled(s) == Active(tid[s]) => tid[s] \in sig

Doomed ==
    /\ \A s \in Slots : "KILL" \in flags[s] => Signalled(s)
    /\ mpc \in {"rdflag", "setkill", "create"} => Signalled(mx)

FlagWrites ==
    /\ \A t \in Threads : pc[t] = "write" => tmp[t] \subseteq flags[wp[t]]
    /\ mpc = "setkill" => flags[mx] \subseteq mtmp

Distinct ==
    /\ \A r, s \in Slots : tid[r] = tid[s] => r = s
    /\ \A t \in sig : Active(t)

OwnInv == OneWorkerPerSlot /\ Doomed /\ FlagWrites /\ Distinct

LEMMA InitOwn == Init => OwnInv
  <1> SUFFICES ASSUME Init PROVE OwnInv
    OBVIOUS
  <1>1. OneWorkerPerSlot
    BY DEF Init, OneWorkerPerSlot, Active
  <1>2. Doomed /\ FlagWrites /\ Distinct
    BY DEF Init, Doomed, FlagWrites, Distinct
  <1>. QED
    BY <1>1, <1>2 DEF OwnInv

LEMMA WorkerOwn ==
    ASSUME TypeInv, LockInv, OwnInv, NEW t \in Threads, Worker(t)
    PROVE  OwnInv'
  <1>. USE DEF TypeInv, TypeOK, IndexOK, OwnInv, OneWorkerPerSlot, Doomed, Signalled,
               FlagWrites, Distinct, Active, WorkerPC, Holding, At, slots, caller, Free
  <1>1. CASE Lock(t) \/ LockDone(t)
    BY <1>1 DEF Lock, LockDone
  <1>2. CASE Unwind(t)
    BY <1>2 DEF Unwind
  <1>3. CASE Sleep(t) \/ TakeItem(t) \/ Unlock(t)
    BY <1>3 DEF Sleep, TakeItem, Unlock
  <1>4. CASE Call(t) \/ Return(t) \/ SpuriousWakeup(t)
    BY <1>4 DEF Call, Return, SpuriousWakeup
  <1>5. CASE ReadFlags(t)
    BY <1>5 DEF ReadFlags
  <1>6. CASE WriteFlags(t)
    <2>1. ASSUME NEW u \in Threads, u # t, pc[u] \in Holding
          PROVE  wp[u] # wp[t]
      BY <1>6, <2>1 DEF WriteFlags, LockInv
    <2>2. /\ flags'[wp[t]] \subseteq flags[wp[t]]
          /\ \A s \in Slots : s # wp[t] => flags'[s] = flags[s]
          /\ pc' = [pc EXCEPT ![t] = "unlock"]
          /\ tmp' = [tmp EXCEPT ![t] = {}]
          /\ UNCHANGED <<tid, wp, sig, mpc, mx, mtmp>>
      BY <1>6 DEF WriteFlags
    <2>3. OneWorkerPerSlot' /\ Distinct'
      BY <1>6, <2>2 DEF WriteFlags
    <2>4. Doomed'
      BY <1>6, <2>2 DEF WriteFlags
    <2>5. FlagWrites'
      BY <1>6, <2>1, <2>2 DEF WriteFlags
    <2>. QED
      BY <2>3, <2>4, <2>5
  <1>7. CASE Die(t)
    BY <1>7 DEF Die
  <1>. QED
    BY <1>1, <1>2, <1>3, <1>4, <1>5, <1>6, <1>7 DEF Worker, Locking, Stepping

LEMMA CallerOwn ==
    ASSUME TypeInv, LockInv, OwnInv,
           Caller \/ (\E i \in Items : ExecCall(i)) \/ WaitCall \/ KillCall
    PROVE  OwnInv'
  <1>. USE DEF TypeInv, TypeOK, IndexOK, OwnInv, OneWorkerPerSlot, Doomed, Signalled,
               FlagWrites, Distinct, Active, WorkerPC, Holding, slots, workers, Goto
  <1>1. CASE ExecAssign
    BY <1>1 DEF ExecAssign, Signal
  <1>2. CASE SendSignal
    BY <1>2 DEF SendSignal
  <1>3. CASE ReadKill
    BY <1>3 DEF ReadKill
  <1>4. CASE WriteKill
    <2>1. mx \in Slots /\ Signalled(mx) /\ flags[mx] \subseteq mtmp
      BY <1>4 DEF WriteKill
    <2>2. /\ \A s \in Slots : s # mx => flags'[s] = flags[s]
          /\ flags[mx] \subseteq flags'[mx]
          /\ mpc' = "kill"
          /\ UNCHANGED <<tid, pc, wp, tmp, sig>>
      BY <1>4, <2>1 DEF WriteKill
    <2>3. OneWorkerPerSlot' /\ Distinct'
      BY <2>2
    <2>4. Doomed'
      BY <2>1, <2>2
    <2>5. FlagWrites'
      BY <2>1, <2>2
    <2>. QED
      BY <2>3, <2>4, <2>5
  <1>5. CASE RecreateTest
    <2>1. mx \in Slots
      BY <1>5, PoolAssumption DEF RecreateTest, Slots
    <2>. QED
      BY <1>5, <2>1 DEF RecreateTest
  <1>6. ASSUME NEW t \in Threads, Recreate(t) PROVE OwnInv'
    <2>1. /\ mx \in Slots /\ Signalled(mx) /\ lock[mx] = None
          /\ pc[t] = "dead" /\ \A s \in Slots : tid[s] # t
          /\ tid' = [tid EXCEPT ![mx] = t]
          /\ wp' = [wp EXCEPT ![t] = mx]
          /\ pc' = [pc EXCEPT ![t] = "lock"]
          /\ flags' = [flags EXCEPT ![mx] = {}]
          /\ mpc' = "recreate"
          /\ UNCHANGED <<tmp, sig>>
      BY <1>6 DEF Recreate, Free
    <2>2. \A u \in Threads : u # t => Active(u)' = Active(u)
      BY <2>1
    <2>3. ASSUME NEW u \in Threads, u # t, Active(u), u \notin sig
          PROVE  tid'[wp'[u]] = u
      <3>1. tid[wp[u]] = u /\ wp[u] \in Slots
        BY <2>3
      <3>2. wp[u] # mx
        BY <2>1, <2>3, <3>1
      <3>. QED
        BY <2>1, <2>3, <3>1, <3>2
    <2>4. tid'[wp'[t]] = t
      BY <2>1
    <2>5. OneWorkerPerSlot'
      BY <2>1, <2>2, <2>3, <2>4
    <2>6. Doomed'
      BY <2>1
    <2>7. ASSUME NEW u \in Threads, pc[u] = "write"  PROVE wp[u] # mx
      <3>1. lock[wp[u]] = u /\ u # None
        BY <2>7, PoolAssumption DEF LockInv
      <3>. QED
        BY <2>1, <3>1
    <2>8. FlagWrites'
      BY <2>1, <2>7
    <2>9. Distinct'
      BY <2>1
    <2>. QED
      BY <2>5, <2>6, <2>8, <2>9
  <1>7. CASE ExecBusy \/ InWait \/ KillScan \/ KillEnd \/ KillReturn
    BY <1>7 DEF ExecBusy, InWait, WaitScan, WaitReturn, WaitAgain, WaitTimeout,
                KillScan, KillEnd, KillReturn
  <1>8. CASE (\E i \in Items : ExecCall(i)) \/ WaitCall \/ KillCall
    BY <1>8 DEF ExecCall, WaitCall, KillCall
  <1>. QED
    BY <1>1, <1>2, <1>3, <1>4, <1>5, <1>6, <1>7, <1>8 DEF Caller, InExec, InKill

LEMMA OwnInvariant == Spec => []OwnInv
  <1>1. OwnInv /\ UNCHANGED vars => OwnInv'
    BY DEF OwnInv, OneWorkerPerSlot, Doomed, Signalled, FlagWrites, Distinct, Active, vars
  <1>2. TypeInv /\ LockInv /\ OwnInv /\ [Next]_vars => OwnInv'
    BY WorkerOwn, CallerOwn, <1>1 DEF Next
  <1>. QED
    BY InitOwn, <1>2, PoolTypeInvariant, LockInvariant, PTL DEF Spec

\* Re-creating the killed slots never leaves two threads working for one slot, but for
\* those that the signal is on its way to; however late it arrives, and whatever
\* becomes of the flags that both sides write.
THEOREM PoolOneWorker == Spec => []OneWorkerPerSlot
  <1>1. OwnInv => OneWorkerPerSlot
    BY DEF OwnInv
  <1>. QED
    BY <1>1, OwnInvariant, PTL

-----------------------------------------------------------------------------
(* What worker_killbusy has done so far, however late the signals arrive:  *)
(* the slots it has passed are not busy or have KILL set, those it has     *)
(* re-created have no flag left, and every slot's thread is running its    *)
(* loop, or is to be replaced, or the slot has lost its KILL.              *)

Settled(s) == "BUSY" \notin flags[s] \/ "KILL" \in flags[s]

KillProgress ==
    /\ mpc \in {"kill", "signal", "rdflag", "setkill"} =>
         \A s \in Slots : s < mx => Settled(s)
    /\ mpc \in {"recreate", "create"} =>
         \A s \in Slots : Settled(s) /\ (s < mx => flags[s] = {})

Served(s) == Active(tid[s]) /\ wp[tid[s]] = s /\ tid[s] \notin sig

Replaceable ==
    \A s \in Slots :
        \/ Served(s) \/ "KILL" \in flags[s] \/ s \in lost
        \/ mpc \in {"rdflag", "setkill"} /\ mx = s

KillInv == KillProgress /\ Replaceable

LEMMA InitKill == Init => KillInv
  <1> SUFFICES ASSUME Init PROVE KillInv
    OBVIOUS
  <1>1. \A s \in Slots : tid[s] \in Threads /\ wp[tid[s]] = s /\ s # None
    BY PoolAssumption DEF Init, Slots
  <1>2. Replaceable
    BY <1>1 DEF Init, Replaceable, Served, Active
  <1>. QED
    BY <1>2 DEF Init, KillInv, KillProgress

LEMMA WorkerKill ==
    ASSUME TypeInv, OwnInv, KillInv, NEW t \in Threads, Worker(t)
    PROVE  KillInv'
  <1>. USE DEF TypeInv, TypeOK, IndexOK, OwnInv, FlagWrites, KillInv, KillProgress,
               Replaceable, Served, Settled, Active, WorkerPC, Holding, At, slots, caller, Free
  <1>1. CASE Lock(t) \/ LockDone(t) \/ Unwind(t)
    BY <1>1 DEF Lock, LockDone, Unwind
  <1>2. CASE Sleep(t) \/ TakeItem(t) \/ Unlock(t)
    BY <1>2 DEF Sleep, TakeItem, Unlock
  <1>3. CASE Call(t) \/ Return(t) \/ SpuriousWakeup(t) \/ ReadFlags(t)
    BY <1>3 DEF Call, Return, SpuriousWakeup, ReadFlags
  <1>4. CASE WriteFlags(t)
    <2>1. wp[t] \in Slots /\ tmp[t] \subseteq flags[wp[t]]
      BY <1>4 DEF WriteFlags
    <2>2. /\ flags'[wp[t]] = tmp[t] \ {"BUSY"}
          /\ \A s \in Slots : s # wp[t] => flags'[s] = flags[s]
      BY <1>4, <2>1 DEF WriteFlags
    <2>3. /\ UNCHANGED <<tid, wp, sig, mpc, mx>>
          /\ \A s \in Slots : Served(s) => Served(s)'
          /\ lost \subseteq lost'
      BY <1>4 DEF WriteFlags
    <2>4. KillProgress'
      BY <2>1, <2>2, <2>3
    <2>5. "KILL" \in flags[wp[t]] => "KILL" \in flags'[wp[t]] \/ wp[t] \in lost'
      BY <1>4, <2>2 DEF WriteFlags
    <2>6. Replaceable'
      BY <2>2, <2>3, <2>5
    <2>. QED
      BY <2>4, <2>6
  <1>5. CASE Die(t)
    BY <1>5 DEF Die
  <1>. QED
    BY <1>1, <1>2, <1>3, <1>4, <1>5 DEF Worker, Locking, Stepping

LEMMA CallerKill ==
    ASSUME TypeInv, OwnInv, KillInv,
           Caller \/ (\E i \in Items : ExecCall(i)) \/ WaitCall \/ KillCall
    PROVE  KillInv'
  <1>. USE DEF TypeInv, TypeOK, IndexOK, OwnInv, Distinct, KillInv,
               KillProgress, Replaceable, Served, Settled, Active, WorkerPC, Holding,
               slots, workers, Goto
  <1>1. CASE ExecAssign
    BY <1>1 DEF ExecAssign, Signal
  <1>2. CASE SendSignal
    BY <1>2 DEF SendSignal
  <1>3. CASE ReadKill
    BY <1>3 DEF ReadKill
  <1>4. CASE WriteKill
    <2>1. mx \in Slots /\ "KILL" \in flags'[mx]
          /\ \A s \in Slots : s # mx => flags'[s] = flags[s]
      BY <1>4 DEF WriteKill
    <2>2. /\ mpc' = "kill" /\ mx' = mx + 1
          /\ UNCHANGED <<tid, lost, pc, wp, sig>>
      BY <1>4 DEF WriteKill
    <2>3. \A s \in Slots : s < mx + 1 => s < mx \/ s = mx
      BY <2>1, PoolAssumption DEF Slots
    <2>. QED
      BY <1>4, <2>1, <2>2, <2>3 DEF WriteKill
  <1>5. CASE RecreateTest
    <2>1. mx \in Slots /\ \A s \in Slots : s < mx + 1 => s < mx \/ s = mx
      BY <1>5, PoolAssumption DEF RecreateTest, Slots
    <2>. QED
      BY <1>5, <2>1 DEF RecreateTest, Flag
  <1>6. ASSUME NEW t \in Threads, Recreate(t) PROVE KillInv'
    <2>1. mx \in Slots /\ \A s \in Slots : s < mx + 1 => s < mx \/ s = mx
      BY <1>6, PoolAssumption DEF Recreate, Slots
    <2>2. /\ flags'[mx] = {} /\ \A s \in Slots : s # mx => flags'[s] = flags[s]
          /\ mpc' = "recreate" /\ mx' = mx + 1 /\ sig' = sig /\ t \notin sig
          /\ lost' = lost \ {mx}
      BY <1>6, <2>1 DEF Recreate
    <2>3. \A s \in Slots : s = mx => Served(s)'
      BY <1>6, <2>1, <2>2 DEF Recreate
    <2>4. \A s \in Slots : s # mx /\ Served(s) => Served(s)'
      BY <1>6, <2>1, <2>2 DEF Recreate
    <2>5. mpc = "create"
      BY <1>6 DEF Recreate
    <2>6. KillProgress'
      BY <2>1, <2>2, <2>5
    <2>. QED
      BY <2>1, <2>2, <2>3, <2>4, <2>5, <2>6
  <1>7. CASE KillScan
    <2>1. mx \in Slots /\ \A s \in Slots : s < mx + 1 => s < mx \/ s = mx
      BY <1>7, PoolAssumption DEF KillScan, Slots
    <2>. QED
      BY <1>7, <2>1 DEF KillScan
  <1>8. CASE KillEnd
    <2>1. \A s \in Slots : s < mx /\ ~(s < 1)
      BY <1>8, PoolAssumption DEF KillEnd, Slots
    <2>. QED
      BY <1>8, <2>1 DEF KillEnd
  <1>9. CASE ExecBusy \/ InWait \/ KillReturn
    BY <1>9 DEF ExecBusy, InWait, WaitScan, WaitReturn, WaitAgain, WaitTimeout, KillReturn
  <1>10. CASE (\E i \in Items : ExecCall(i)) \/ WaitCall \/ KillCall
    <2>1. \A s \in Slots : ~(s < 1)
      BY PoolAssumption DEF Slots
    <2>. QED
      BY <1>10, <2>1 DEF ExecCall, WaitCall, KillCall
  <1>. QED
    BY <1>1, <1>2, <1>3, <1>4, <1>5, <1>6, <1>7, <1>8, <1>9, <1>10 DEF Caller, InExec, InKill

\* When worker_killbusy returns, no slot has a flag and each that has not lost its KILL
\* has its thread.
LEMMA AfterKill ==
    ASSUME TypeInv, KillInv, KillReturn
    PROVE  \A s \in Slots : flags'[s] = {}
  <1>1. \A s \in Slots : s < mx
    BY PoolAssumption DEF KillReturn, Slots, TypeInv, TypeOK
  <1>. QED
    BY <1>1 DEF KillReturn, KillInv, KillProgress, slots

LEMMA KillInvariant == Spec => []KillInv
  <1>1. KillInv /\ UNCHANGED vars => KillInv'
    BY DEF KillInv, KillProgress, Replaceable, Served, Settled, Active, vars
  <1>2. TypeInv /\ OwnInv /\ KillInv /\ [Next]_vars => KillInv'
    BY WorkerKill, CallerKill, <1>1 DEF Next
  <1>. QED
    BY InitKill, <1>2, OwnInvariant, PoolTypeInvariant, PTL DEF Spec

-----------------------------------------------------------------------------
(* A pool whose signals have taken effect when worker_killbusy returns, or *)
(* one that sends none.  A thread that was replaced while it was still     *)
(* under way is one that the signal is on its way to, the only such one of *)
(* its slot, and the slot is not used before it is gone.                   *)

Killing == {"kill", "signal", "rdflag", "setkill", "recreate", "create"}

SignalsEnd == sig # {} => mpc \in Killing

Replaced ==
    /\ \A t \in Threads :
         Active(t) /\ tid[wp[t]] # t =>
             /\ t \in sig /\ tid[wp[t]] \notin sig /\ flags[wp[t]] = {}
             /\ mpc \in {"recreate", "create"} /\ wp[t] < mx
    /\ \A t, u \in Threads :
         Active(t) /\ Active(u) /\ wp[t] = wp[u] /\ tid[wp[t]] \notin {t, u} => t = u

\* A thread has an item only while it runs its function.
ItemInv == \A t \in Threads : item[t] # None => pc[t] = "run"

PromptInv == SignalsEnd /\ Replaced /\ ItemInv /\ BusyWhileWorking

LEMMA InitPrompt == Init => PromptInv
  <1> SUFFICES ASSUME Init PROVE PromptInv
    OBVIOUS
  <1>1. Replaced
    BY DEF Init, Replaced, Active
  <1>2. SignalsEnd /\ ItemInv /\ BusyWhileWorking
    BY DEF Init, SignalsEnd, ItemInv, BusyWhileWorking, Working
  <1>. QED
    BY <1>1, <1>2 DEF PromptInv

LEMMA WorkerPrompt ==
    ASSUME TypeInv, OwnInv, PromptInv, NEW t \in Threads, Worker(t)
    PROVE  PromptInv'
  <1>. USE DEF TypeInv, TypeOK, IndexOK, OwnInv, FlagWrites, PromptInv, SignalsEnd, Replaced,
               ItemInv, BusyWhileWorking, Working, Active, WorkerPC, Holding, At,
               slots, caller, Free
  <1>1. CASE Lock(t) \/ LockDone(t)
    BY <1>1 DEF Lock, LockDone
  <1>2. CASE Unwind(t)
    BY <1>2 DEF Unwind
  <1>3. CASE Sleep(t) \/ TakeItem(t) \/ Unlock(t)
    BY <1>3 DEF Sleep, TakeItem, Unlock
  <1>4. CASE Call(t) \/ Return(t) \/ SpuriousWakeup(t)
    BY <1>4 DEF Call, Return, SpuriousWakeup
  <1>5. CASE ReadFlags(t)
    BY <1>5 DEF ReadFlags
  <1>6. CASE WriteFlags(t)
    <2>1. /\ wp[t] \in Slots /\ tmp[t] \subseteq flags[wp[t]] /\ Active(t)
          /\ flags'[wp[t]] = tmp[t] \ {"BUSY"}
          /\ \A s \in Slots : s # wp[t] => flags'[s] = flags[s]
          /\ pc' = [pc EXCEPT ![t] = "unlock"]
          /\ UNCHANGED <<arg, tid, wp, item, sig, mpc, mx>>
      BY <1>6 DEF WriteFlags
    <2>2. SignalsEnd' /\ ItemInv'
      BY <1>6, <2>1 DEF WriteFlags
    <2>3. Replaced'
      BY <2>1
    <2>4. ASSUME NEW u \in Threads, u # t, Active(u), u \notin sig, pc[u] \in Working
          PROVE  wp[u] # wp[t]
      <3>1. tid[wp[u]] = u /\ "BUSY" \in flags[wp[u]]
        BY <2>4 DEF OneWorkerPerSlot
      <3>. QED
        BY <2>1, <2>4, <3>1
    <2>5. BusyWhileWorking'
      BY <2>1, <2>4
    <2>. QED
      BY <2>2, <2>3, <2>5
  <1>7. CASE Die(t)
    BY <1>7 DEF Die
  <1>. QED
    BY <1>1, <1>2, <1>3, <1>4, <1>5, <1>6, <1>7 DEF Worker, Locking, Stepping

LEMMA NotLess == \A s \in Slots : ~(s < s)
  BY PoolAssumption DEF Slots

LEMMA CallerPrompt ==
    ASSUME Prompt \/ sig = {}, TypeInv, OwnInv, PromptInv,
           Caller \/ (\E i \in Items : ExecCall(i)) \/ WaitCall \/ KillCall
    PROVE  PromptInv'
  <1>. USE DEF TypeInv, TypeOK, IndexOK, OwnInv, FlagWrites, PromptInv, SignalsEnd, Replaced,
               Killing, ItemInv, BusyWhileWorking, Working, Active, WorkerPC, Holding,
               slots, workers, Goto
  <1>1. CASE ExecAssign
    <2>1. /\ \A u \in Threads : pc'[u] = pc[u] \/ (pc[u] = "wait" /\ pc'[u] = "relock")
          /\ \A s \in Slots : s # mx => arg'[s] = arg[s] /\ flags'[s] = flags[s]
          /\ "BUSY" \notin flags[mx] /\ mx \in Slots
          /\ sig = {} /\ UNCHANGED <<tid, wp, item, sig>>
      BY <1>1 DEF ExecAssign, Signal
    <2>. QED
      BY <1>1, <2>1 DEF ExecAssign
  <1>2. CASE SendSignal
    BY <1>2 DEF SendSignal
  <1>3. CASE ReadKill
    BY <1>3 DEF ReadKill
  <1>4. CASE WriteKill
    <2>1. mx \in Slots /\ flags[mx] \subseteq mtmp
      BY <1>4 DEF WriteKill
    <2>2. /\ \A s \in Slots : flags[s] \subseteq flags'[s]
          /\ mpc' = "kill" /\ mpc = "setkill"
          /\ UNCHANGED <<arg, tid, pc, wp, item, tmp, sig>>
      BY <1>4, <2>1 DEF WriteKill
    <2>. QED
      BY <2>2
  <1>5. CASE RecreateTest
    <2>1. mx \in Slots /\ \A s \in Slots : s < mx => s < mx + 1
      BY <1>5, PoolAssumption DEF RecreateTest, Slots
    <2>2. /\ mpc = "recreate" /\ mpc' \in {"recreate", "create"} /\ mx' \in {mx, mx + 1}
          /\ UNCHANGED <<flags, arg, tid, pc, wp, item, sig>>
      BY <1>5 DEF RecreateTest
    <2>3. \A s \in Slots : s < mx => s < mx'
      BY <2>1, <2>2
    <2>4. Replaced'
      BY <2>2, <2>3
    <2>. QED
      BY <2>2, <2>4
  <1>6. ASSUME NEW t \in Threads, Recreate(t) PROVE PromptInv'
    <2>1. /\ mx \in Slots /\ Signalled(mx) /\ mpc = "create"
          /\ pc[t] = "dead" /\ \A s \in Slots : tid[s] # t
          /\ tid' = [tid EXCEPT ![mx] = t]
          /\ wp' = [wp EXCEPT ![t] = mx]
          /\ pc' = [pc EXCEPT ![t] = "lock"]
          /\ flags' = [flags EXCEPT ![mx] = {}]
          /\ mpc' = "recreate" /\ mx' = mx + 1
          /\ UNCHANGED <<arg, item, sig>>
      BY <1>6 DEF Recreate, Doomed
    <2>2. \A s \in Slots : (s < mx => s < mx + 1) /\ mx < mx + 1
      BY <2>1, PoolAssumption DEF Slots
    <2>3. ASSUME NEW u \in Threads, u # t, Active(u), wp[u] = mx  PROVE u \in sig
      BY <2>1, <2>3 DEF OneWorkerPerSlot, Signalled
    <2>4. Replaced'
      <3>1. ASSUME NEW u \in Threads, Active(u)', tid'[wp'[u]] # u
            PROVE  u \in sig /\ flags'[wp'[u]] = {} /\ wp'[u] < mx + 1
        <4>1. u # t /\ Active(u) /\ wp'[u] = wp[u] /\ wp[u] \in Slots
          BY <2>1, <3>1
        <4>2. CASE wp[u] = mx
          BY <2>1, <2>2, <2>3, <4>1, <4>2
        <4>3. CASE wp[u] # mx
          BY <2>1, <2>2, <3>1, <4>1, <4>3
        <4>. QED
          BY <4>2, <4>3
      <3>2. ASSUME NEW u \in Threads, Active(u)', tid'[wp'[u]] # u
            PROVE  tid'[wp'[u]] \notin sig
        <4>1. u # t /\ Active(u) /\ wp'[u] = wp[u] /\ wp[u] \in Slots
          BY <2>1, <3>2
        <4>2. t \notin sig
          BY <2>1 DEF Distinct
        <4>. QED
          BY <2>1, <3>2, <4>1, <4>2
      <3>3. ASSUME NEW u \in Threads, NEW v \in Threads, Active(u)', Active(v)',
                   wp'[u] = wp'[v], tid'[wp'[u]] \notin {u, v}
            PROVE  u = v
        <4>1. /\ u # t /\ Active(u) /\ wp'[u] = wp[u] /\ wp[u] \in Slots
              /\ v # t /\ Active(v) /\ wp'[v] = wp[v]
          BY <2>1, <3>3
        <4>2. CASE wp[u] = mx
          <5>1. wp[u] = mx /\ wp[v] = mx
            BY <3>3, <4>1, <4>2
          <5>2. tid[wp[u]] = u /\ tid[wp[v]] = v
            BY <2>1, <4>1, <5>1, NotLess
          <5>. QED
            BY <3>3, <4>1, <5>1, <5>2
        <4>3. CASE wp[u] # mx
          BY <2>1, <3>3, <4>1, <4>3
        <4>. QED
          BY <4>2, <4>3
      <3>. QED
        BY <2>1, <3>1, <3>2, <3>3
    <2>5. SignalsEnd' /\ ItemInv'
      BY <2>1
    <2>6. BusyWhileWorking'
      BY <2>1, <2>3
    <2>. QED
      BY <2>4, <2>5, <2>6
  <1>7. CASE KillReturn
    BY <1>7 DEF KillReturn
  <1>8. CASE ExecBusy \/ InWait \/ KillScan \/ KillEnd
    BY <1>8 DEF ExecBusy, InWait, WaitScan, WaitReturn, WaitAgain, WaitTimeout,
                KillScan, KillEnd
  <1>9. CASE (\E i \in Items : ExecCall(i)) \/ WaitCall \/ KillCall
    BY <1>9 DEF ExecCall, WaitCall, KillCall
  <1>. QED
    BY <1>1, <1>2, <1>3, <1>4, <1>5, <1>6, <1>7, <1>8, <1>9 DEF Caller, InExec, InKill

LEMMA PromptInvariant == Prompt => (Spec => []PromptInv)
  <1> SUFFICES ASSUME Prompt PROVE Spec => []PromptInv
    OBVIOUS
  <1>1. PromptInv /\ UNCHANGED vars => PromptInv'
    BY DEF PromptInv, SignalsEnd, Replaced, ItemInv, BusyWhileWorking, Active, vars
  <1>2. TypeInv /\ OwnInv /\ PromptInv /\ [Next]_vars => PromptInv'
    BY WorkerPrompt, CallerPrompt, <1>1 DEF Next
  <1>. QED
    BY InitPrompt, <1>2, PoolTypeInvariant, OwnInvariant, PTL DEF Spec

\* A slot is BUSY and keeps its item as long as a thread that was not signalled works
\* on it, if no thread outlives the worker_killbusy that signalled it.
THEOREM PoolBusyWhileWorking == Prompt => (Spec => []BusyWhileWorking)
  <1>1. PromptInv => BusyWhileWorking
    BY DEF PromptInv
  <1>. QED
    BY <1>1, PromptInvariant, PTL

-----------------------------------------------------------------------------
(* A thread that works has an item.                                        *)

ArgInv ==
    /\ mpc = "exec" => marg # None
    /\ \A s \in Slots : "BUSY" \in flags[s] => arg[s] # None
    /\ mpc = "setkill" /\ "BUSY" \in mtmp => arg[mx] # None
    /\ \A t \in Threads : pc[t] \in Working => arg[wp[t]] # None
    /\ \A t \in Threads : pc[t] = "run" => item[t] # None

LEMMA WorkerArg ==
    ASSUME TypeInv, ArgInv, NEW t \in Threads, Worker(t)
    PROVE  ArgInv'
  <1>. USE DEF TypeInv, TypeOK, IndexOK, ArgInv, Working, WorkerPC, Holding, At, slots, caller
  <1>1. CASE Lock(t) \/ LockDone(t) \/ Unwind(t)
    BY <1>1 DEF Lock, LockDone, Unwind
  <1>2. CASE Sleep(t) \/ TakeItem(t) \/ Unlock(t) \/ SpuriousWakeup(t) \/ ReadFlags(t)
    BY <1>2 DEF Sleep, TakeItem, Unlock, SpuriousWakeup, ReadFlags
  <1>3. CASE Call(t) \/ Return(t) \/ Die(t)
    BY <1>3 DEF Call, Return, Die
  <1>4. CASE WriteFlags(t)
    BY <1>4 DEF WriteFlags
  <1>. QED
    BY <1>1, <1>2, <1>3, <1>4 DEF Worker, Locking, Stepping

LEMMA CallerArg ==
    ASSUME TypeInv, ArgInv,
           Caller \/ (\E i \in Items : ExecCall(i)) \/ WaitCall \/ KillCall
    PROVE  ArgInv'
  <1>. USE DEF TypeInv, TypeOK, IndexOK, ArgInv, Working, WorkerPC, Holding, slots, workers, Goto
  <1>1. CASE ExecAssign
    BY <1>1 DEF ExecAssign, Signal
  <1>2. CASE SendSignal \/ ReadKill \/ WriteKill
    BY <1>2 DEF SendSignal, ReadKill, WriteKill
  <1>3. CASE \E t \in Threads : Recreate(t)
    BY <1>3 DEF Recreate
  <1>4. CASE \E i \in Items : ExecCall(i)
    BY <1>4, PoolAssumption DEF ExecCall
  <1>5. CASE ExecBusy \/ InWait \/ KillScan \/ KillEnd \/ RecreateTest \/ KillReturn
             \/ WaitCall \/ KillCall
    BY <1>5 DEF ExecBusy, InWait, WaitScan, WaitReturn, WaitAgain, WaitTimeout, KillScan,
                KillEnd, RecreateTest, KillReturn, WaitCall, KillCall
  <1>. QED
    BY <1>1, <1>2, <1>3, <1>4, <1>5 DEF Caller, InExec, InKill

LEMMA ArgInvariant == Spec => []ArgInv
  <1>1. Init => ArgInv
    BY DEF Init, ArgInv, Working
  <1>2. ArgInv /\ UNCHANGED vars => ArgInv'
    BY DEF ArgInv, vars
  <1>3. TypeInv /\ ArgInv /\ [Next]_vars => ArgInv'
    BY WorkerArg, CallerArg, <1>2 DEF Next
  <1>. QED
    BY <1>1, <1>3, PoolTypeInvariant, PTL DEF Spec

=============================================================================
