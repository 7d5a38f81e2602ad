----------------------------- MODULE WorkerPool -----------------------------
(***************************************************************************)
(* The pool of worker threads of worker.c, used by one calling thread (the *)
(* daemon's main thread).  Every slot has a mutex, a condition variable, a *)
(* word of flags and the work item; a thread takes the item when BUSY is   *)
(* set and clears BUSY when the item's function returns.  The caller hands *)
(* items out (worker_exec), polls until no slot is busy or a time limit    *)
(* has passed (worker_wait), and kills and re-creates the threads that are *)
(* still busy (worker_killbusy).                                           *)
(*                                                                         *)
(* A step is what no other thread can interleave with: everything the      *)
(* caller does between locking and unlocking a slot is one step (guarded   *)
(* by the mutex being free), but a worker's critical sections are several, *)
(* since the signal that kills it can arrive inside them, and both sides'  *)
(* read-modify-writes of the flags are two, since worker_killbusy sets     *)
(* KILL without the lock.                                                  *)
(*                                                                         *)
(* FLAG_DONE is set only by worker_finish, which nothing calls: a worker's *)
(* loop ends only by the signal.                                           *)
(***************************************************************************)
EXTENDS Naturals

CONSTANTS
    NSlots,     \* pool->count
    Items,      \* the work items handed to worker_exec
    Threads,    \* identities of threads (a bound: those alive or owning a lock at once)
    None,       \* no thread, no item
    Prompt,     \* TRUE: a signal has taken effect when worker_killbusy returns
    Timely      \* TRUE: the items return before worker_wait's time limit

Slots == 1..NSlots

ASSUME PoolAssumption ==
    /\ NSlots \in Nat \ {0}
    /\ None \notin Items \cup Threads \cup Slots
    /\ Prompt \in BOOLEAN
    /\ Timely \in BOOLEAN

VARIABLES
    flags,      \* slot: subset of {"BUSY", "KILL"}
    lock,       \* slot: the worker that holds the slot's mutex, or None
    arg,        \* slot: the work item (func and arg)
    tid,        \* slot: the thread last created for it
    pc,         \* thread: where it is in worker()
    wp,         \* thread: the slot it was created for
    item,       \* thread: the item whose function it is executing
    tmp,        \* thread: the flags it read at "flags &= ~FLAG_BUSY"
    sig,        \* the threads with a SIGINT sent to them and not yet handled
    lost,       \* slots whose KILL a worker's store of its flags has taken away (history)
    mpc,        \* where the caller is in this module ("caller": outside of it)
    mx,         \* the caller's slot index x
    marg,       \* the argument of worker_exec
    mtmp        \* worker_wait: some slot was busy; worker_killbusy: flags read

workers == <<pc, wp, item, tmp, sig>>
slots   == <<flags, lock, arg, tid, lost>>
caller  == <<mpc, mx, marg, mtmp>>
vars    == <<flags, lock, arg, tid, lost, pc, wp, item, tmp, sig, mpc, mx, marg, mtmp>>

Flag == {"BUSY", "KILL"}

\* The places of worker() at which the thread holds its slot's mutex.
Holding == {"check", "read", "write", "unlock"}

WorkerPC == Holding \cup {"lock", "wait", "relock", "call", "run", "done", "unwind", "dead"}

TypeOK ==
    /\ flags \in [Slots -> SUBSET Flag]
    /\ lock \in [Slots -> Threads \cup {None}]
    /\ arg \in [Slots -> Items \cup {None}]
    /\ tid \in [Slots -> Threads]
    /\ pc \in [Threads -> WorkerPC]
    /\ wp \in [Threads -> Slots \cup {None}]
    /\ \A t \in Threads : pc[t] # "dead" => wp[t] \in Slots
    /\ item \in [Threads -> Items \cup {None}]
    /\ tmp \in [Threads -> SUBSET Flag]
    /\ sig \in SUBSET Threads
    /\ lost \in SUBSET Slots
    /\ mpc \in {"caller", "exec", "wait", "kill", "signal", "rdflag", "setkill", "recreate", "create"}
    /\ mx \in 1..(NSlots + 1)
    /\ marg \in Items \cup {None}
    /\ mtmp \in SUBSET Flag

Free(s) == lock[s] = None

\* worker_create_pool: one thread per slot, flags clear, no item.
Init ==
    /\ flags = [s \in Slots |-> {}]
    /\ lock = [s \in Slots |-> None]
    /\ arg = [s \in Slots |-> None]
    /\ tid \in [Slots -> Threads]
    /\ \A r, s \in Slots : tid[r] = tid[s] => r = s
    /\ wp \in [Threads -> Slots \cup {None}]
    /\ \A s \in Slots, t \in Threads : wp[t] = s <=> tid[s] = t
    /\ pc = [t \in Threads |-> IF wp[t] = None THEN "dead" ELSE "lock"]
    /\ item = [t \in Threads |-> None]
    /\ tmp = [t \in Threads |-> {}]
    /\ sig = {} /\ lost = {}
    /\ mpc = "caller" /\ mx = 1 /\ marg = None /\ mtmp = {}

-----------------------------------------------------------------------------
(* worker(): the thread's loop.                                            *)

\* A signalled thread that has not run the handler yet still executes its program.
At(t, here, there) ==
    /\ pc[t] = here
    /\ pc' = [pc EXCEPT ![t] = there]

\* pthread_mutex_lock, at the top of the loop and on the way out of cond_wait.
Lock(t) ==
    /\ \E here \in {"lock", "relock"} : At(t, here, "check")
    /\ Free(wp[t])
    /\ lock' = [lock EXCEPT ![wp[t]] = t]
    /\ UNCHANGED <<flags, arg, tid, lost, wp, item, tmp, sig, caller>>

Sleep(t) ==
    /\ At(t, "check", "wait")
    /\ "BUSY" \notin flags[wp[t]]
    /\ lock' = [lock EXCEPT ![wp[t]] = None]
    /\ UNCHANGED <<flags, arg, tid, lost, wp, item, tmp, sig, caller>>

\* A condition variable may wake a waiter that nobody signalled.
SpuriousWakeup(t) ==
    /\ At(t, "wait", "relock")
    /\ UNCHANGED <<slots, wp, item, tmp, sig, caller>>

\* Mutant: BUSY is cleared when the item is taken.
TakeItemAndClear(t) ==
    /\ At(t, "check", "call")
    /\ "BUSY" \in flags[wp[t]]
    /\ lock' = [lock EXCEPT ![wp[t]] = None]
    /\ flags' = [flags EXCEPT ![wp[t]] = @ \ {"BUSY"}]
    /\ UNCHANGED <<arg, tid, lost, wp, item, tmp, sig, caller>>

TakeItem(t) ==
    /\ At(t, "check", "call")
    /\ "BUSY" \in flags[wp[t]]
    /\ lock' = [lock EXCEPT ![wp[t]] = None]
    /\ UNCHANGED <<flags, arg, tid, lost, wp, item, tmp, sig, caller>>

\* wp->func(wp->arg): the slot is read after it was unlocked.
Call(t) ==
    /\ At(t, "call", "run")
    /\ item' = [item EXCEPT ![t] = arg[wp[t]]]
    /\ UNCHANGED <<slots, wp, tmp, sig, caller>>

Return(t) ==
    /\ At(t, "run", "done")
    /\ item' = [item EXCEPT ![t] = None]
    /\ UNCHANGED <<slots, wp, tmp, sig, caller>>

\* Mutant: BUSY is cleared without the lock.
LockDoneNot(t) ==
    /\ At(t, "done", "read")
    /\ UNCHANGED <<slots, wp, item, tmp, sig, caller>>

LockDone(t) ==
    /\ At(t, "done", "read")
    /\ Free(wp[t])
    /\ lock' = [lock EXCEPT ![wp[t]] = t]
    /\ UNCHANGED <<flags, arg, tid, lost, wp, item, tmp, sig, caller>>

\* flags &= ~FLAG_BUSY: the load and the store.
ReadFlags(t) ==
    /\ At(t, "read", "write")
    /\ tmp' = [tmp EXCEPT ![t] = flags[wp[t]]]
    /\ UNCHANGED <<slots, wp, item, sig, caller>>

WriteFlags(t) ==
    /\ At(t, "write", "unlock")
    /\ flags' = [flags EXCEPT ![wp[t]] = tmp[t] \ {"BUSY"}]
    /\ lost' = IF "KILL" \in flags[wp[t]] \ tmp[t] THEN lost \cup {wp[t]} ELSE lost
    /\ tmp' = [tmp EXCEPT ![t] = {}]
    /\ UNCHANGED <<lock, arg, tid, wp, item, sig, caller>>

Unlock(t) ==
    /\ At(t, "unlock", "lock")
    /\ lock' = [lock EXCEPT ![wp[t]] = None]
    /\ UNCHANGED <<flags, arg, tid, lost, wp, item, tmp, sig, caller>>

\* _doterm calls pthread_exit wherever the thread is.  A mutex it holds stays
\* locked; inside pthread_cond_wait the C library's cleanup may take the mutex
\* back first ("unwind"), and so end the thread with it locked too.
Die(t) ==
    /\ t \in sig
    /\ sig' = sig \ {t}
    /\ \/ /\ pc' = [pc EXCEPT ![t] = "dead"]
          /\ wp' = [wp EXCEPT ![t] = None]
       \/ /\ pc[t] \in {"wait", "relock"}
          /\ pc' = [pc EXCEPT ![t] = "unwind"]
          /\ wp' = wp
    /\ item' = [item EXCEPT ![t] = None]
    /\ tmp' = [tmp EXCEPT ![t] = {}]
    /\ UNCHANGED <<slots, caller>>

Unwind(t) ==
    /\ pc[t] = "unwind"
    /\ Free(wp[t])
    /\ pc' = [pc EXCEPT ![t] = "dead"]
    /\ wp' = [wp EXCEPT ![t] = None]
    /\ lock' = [lock EXCEPT ![wp[t]] = t]
    /\ UNCHANGED <<flags, arg, tid, lost, item, tmp, sig, caller>>

Locking(t) == Lock(t) \/ LockDone(t) \/ Unwind(t)

Stepping(t) ==
    \/ Sleep(t) \/ TakeItem(t) \/ Call(t)
    \/ ReadFlags(t) \/ WriteFlags(t) \/ Unlock(t) \/ Die(t)

Worker(t) == Locking(t) \/ Stepping(t) \/ Return(t) \/ SpuriousWakeup(t)

-----------------------------------------------------------------------------
(* The caller's side.  Next(x) is the loop's x++.                          *)

Goto(there, x) == mpc' = there /\ mx' = x

\* worker_exec(pool, func, i)
ExecCall(i) ==
    /\ mpc = "caller"
    /\ Goto("exec", 1)
    /\ marg' = i
    /\ UNCHANGED <<slots, workers, mtmp>>

\* A busy slot is passed over; after the last one the scan starts again.
ExecBusy ==
    /\ mpc = "exec" /\ Free(mx) /\ "BUSY" \in flags[mx]
    /\ Goto("exec", IF mx < NSlots THEN mx + 1 ELSE 1)
    /\ UNCHANGED <<slots, workers, marg, mtmp>>

\* Mutant: the signal is forgotten.
SignalForgotten(s) == pc' = pc

\* pthread_cond_signal wakes one of the threads that wait, if any does.
Signal(s) ==
    LET waiting == {t \in Threads : wp[t] = s /\ pc[t] = "wait"}
    IN  IF waiting = {} THEN pc' = pc
                        ELSE \E t \in waiting : pc' = [pc EXCEPT ![t] = "relock"]

ExecAssign ==
    /\ mpc = "exec" /\ Free(mx) /\ "BUSY" \notin flags[mx]
    /\ arg' = [arg EXCEPT ![mx] = marg]
    /\ flags' = [flags EXCEPT ![mx] = @ \cup {"BUSY"}]
    /\ Signal(mx)
    /\ Goto("caller", 1)
    /\ marg' = None
    /\ UNCHANGED <<lock, tid, lost, wp, item, tmp, sig, mtmp>>

\* worker_wait(pool, timeout): one pass over the slots after another.
WaitCall ==
    /\ mpc = "caller"
    /\ Goto("wait", 1)
    /\ mtmp' = {}
    /\ UNCHANGED <<slots, workers, marg>>

WaitScan ==
    /\ mpc = "wait" /\ mx <= NSlots /\ Free(mx)
    /\ Goto("wait", mx + 1)
    /\ mtmp' = mtmp \cup (flags[mx] \cap {"BUSY"})
    /\ UNCHANGED <<slots, workers, marg>>

\* Mutant: one pass over the slots is enough.
WaitReturnAtOnce ==
    /\ mpc = "wait" /\ mx > NSlots
    /\ Goto("caller", 1)
    /\ UNCHANGED <<slots, workers, marg, mtmp>>

WaitReturn ==
    /\ mpc = "wait" /\ mx > NSlots
    /\ mtmp = {}
    /\ Goto("caller", 1)
    /\ UNCHANGED <<slots, workers, marg, mtmp>>

WaitAgain ==
    /\ mpc = "wait" /\ mx > NSlots
    /\ mtmp # {}
    /\ Goto("wait", 1)
    /\ mtmp' = {}
    /\ UNCHANGED <<slots, workers, marg>>

WaitTimeout ==
    /\ ~Timely
    /\ mpc = "wait" /\ mx > NSlots
    /\ mtmp # {}
    /\ Goto("caller", 1)
    /\ mtmp' = {}
    /\ UNCHANGED <<slots, workers, marg>>

\* worker_killbusy(pool): signal the busy slots ...
KillCall ==
    /\ mpc = "caller"
    /\ Goto("kill", 1)
    /\ UNCHANGED <<slots, workers, marg, mtmp>>

KillScan ==
    /\ mpc = "kill" /\ mx <= NSlots /\ Free(mx)
    /\ IF "BUSY" \in flags[mx] THEN Goto("signal", mx) ELSE Goto("kill", mx + 1)
    /\ UNCHANGED <<slots, workers, marg, mtmp>>

\* Mutant: the signal is not sent.
SendSignalNot ==
    /\ mpc = "signal"
    /\ Goto("rdflag", mx)
    /\ UNCHANGED <<slots, workers, marg, mtmp>>

\* pthread_kill of a thread that has ended does nothing.
SendSignal ==
    /\ mpc = "signal"
    /\ sig' = IF pc[tid[mx]] \in {"dead", "unwind"} THEN sig ELSE sig \cup {tid[mx]}
    /\ Goto("rdflag", mx)
    /\ UNCHANGED <<slots, pc, wp, item, tmp, marg, mtmp>>

\* flags |= FLAG_KILL, the load and the store, without the lock.  The thread may be
\* anywhere meanwhile: its own store of the flags may come between, or after, the two.
ReadKill ==
    /\ mpc = "rdflag"
    /\ mtmp' = flags[mx]
    /\ Goto("setkill", mx)
    /\ UNCHANGED <<slots, workers, marg>>

\* Mutant: KILL is not set.
WriteKillNot ==
    /\ mpc = "setkill"
    /\ mtmp' = {}
    /\ Goto("kill", mx + 1)
    /\ UNCHANGED <<slots, workers, marg>>

WriteKill ==
    /\ mpc = "setkill"
    /\ flags' = [flags EXCEPT ![mx] = mtmp \cup {"KILL"}]
    /\ mtmp' = {}
    /\ Goto("kill", mx + 1)
    /\ UNCHANGED <<lock, arg, tid, lost, workers, marg>>

\* ... then re-create the slots that have KILL set, which is read unlocked.
KillEnd ==
    /\ mpc = "kill" /\ mx > NSlots
    /\ Goto("recreate", 1)
    /\ UNCHANGED <<slots, workers, marg, mtmp>>

RecreateTest ==
    /\ mpc = "recreate" /\ mx <= NSlots
    /\ IF "KILL" \in flags[mx] THEN Goto("create", mx) ELSE Goto("recreate", mx + 1)
    /\ UNCHANGED <<slots, workers, marg, mtmp>>

\* Mutant: the new thread is not told its slot.
RecreateWithoutSlot(t) ==
    /\ mpc = "create" /\ Free(mx)
    /\ pc[t] = "dead" /\ \A s \in Slots : lock[s] # t /\ tid[s] # t
    /\ tid' = [tid EXCEPT ![mx] = t]
    /\ pc' = [pc EXCEPT ![t] = "lock"]
    /\ flags' = [flags EXCEPT ![mx] = {}]
    /\ Goto("recreate", mx + 1)
    /\ lost' = lost \ {mx}
    /\ UNCHANGED <<lock, arg, wp, item, tmp, sig, marg, mtmp>>

\* Mutant: the flags stay set.
RecreateKeepsFlags(t) ==
    /\ mpc = "create" /\ Free(mx)
    /\ pc[t] = "dead" /\ \A s \in Slots : lock[s] # t /\ tid[s] # t
    /\ tid' = [tid EXCEPT ![mx] = t]
    /\ wp' = [wp EXCEPT ![t] = mx]
    /\ pc' = [pc EXCEPT ![t] = "lock"]
    /\ Goto("recreate", mx + 1)
    /\ lost' = lost \ {mx}
    /\ UNCHANGED <<flags, lock, arg, item, tmp, sig, marg, mtmp>>

\* A new thread, whatever has become of the old one, and the flags cleared.
Recreate(t) ==
    /\ mpc = "create" /\ Free(mx)
    /\ pc[t] = "dead" /\ \A s \in Slots : lock[s] # t /\ tid[s] # t
    /\ tid' = [tid EXCEPT ![mx] = t]
    /\ wp' = [wp EXCEPT ![t] = mx]
    /\ pc' = [pc EXCEPT ![t] = "lock"]
    /\ flags' = [flags EXCEPT ![mx] = {}]
    /\ Goto("recreate", mx + 1)
    /\ lost' = lost \ {mx}
    /\ UNCHANGED <<lock, arg, item, tmp, sig, marg, mtmp>>

\* Prompt is what is assumed of the time a signal takes: a thread that it was sent to
\* executes nothing of its program any more when worker_killbusy has returned.
KillReturn ==
    /\ mpc = "recreate" /\ mx > NSlots
    /\ Prompt => sig = {}
    /\ Goto("caller", 1)
    /\ UNCHANGED <<slots, workers, marg, mtmp>>

InExec == ExecBusy \/ ExecAssign
InWait == WaitScan \/ WaitReturn \/ WaitAgain \/ WaitTimeout
InKill ==
    \/ KillScan \/ SendSignal \/ ReadKill \/ WriteKill
    \/ KillEnd \/ RecreateTest \/ KillReturn
    \/ \E t \in Threads : Recreate(t)

Caller == InExec \/ InWait \/ InKill

-----------------------------------------------------------------------------
(* The pool on its own: a caller that may call its functions in any order. *)

Next ==
    \/ \E t \in Threads : Worker(t)
    \/ Caller
    \/ \E i \in Items : ExecCall(i)
    \/ WaitCall
    \/ KillCall

Spec == Init /\ [][Next]_vars

-----------------------------------------------------------------------------
(* Properties.                                                             *)

\* A thread that executes its program.
Active(t) == pc[t] \notin {"dead", "unwind"}

\* The places between taking an item and clearing BUSY.
Working == {"call", "run", "done", "read", "write"}

\* The slot's mutex does its work: two threads of a slot (the one signalled and
\* the one created in its place) are never both between its lock and unlock.
SlotMutex ==
    \A t, u \in Threads :
        t # u /\ pc[t] \in Holding /\ pc[u] \in Holding => wp[t] # wp[u]

\* A mutex that a killed thread left locked stays locked for ever: nothing in
\* worker.c recovers it, and whoever asks for that slot next is stuck.
AbandonedForever ==
    [][\A s \in Slots, t \in Threads :
         lock[s] = t /\ pc[t] = "dead" => lock'[s] = t]_vars

\* Whoever works for a slot without having been sent the signal is the thread in its
\* tid: worker_killbusy re-creates a slot without joining the thread it has signalled,
\* but never the slot of a thread that it has not, whatever becomes of KILL and BUSY
\* when both sides write the flags at once (worker.c:169, 286).
OneWorkerPerSlot == \A t \in Threads : Active(t) /\ t \notin sig => tid[wp[t]] = t

\* While a thread that was not signalled works on an item its slot is BUSY and holds
\* that item, so the caller neither takes the item for done nor gives the slot another
\* one; a signalled thread that is still under way when its slot has been re-created
\* does not clear the flag of its successor.  (Of a pool in which no thread outlives
\* the worker_killbusy that signalled it: Prompt.)
BusyWhileWorking ==
    \A t \in Threads :
        Active(t) /\ t \notin sig /\ pc[t] \in Working =>
            /\ "BUSY" \in flags[wp[t]]
            /\ item[t] # None => item[t] = arg[wp[t]]

=============================================================================
