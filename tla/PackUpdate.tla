----------------------------- MODULE PackUpdate -----------------------------
(***************************************************************************)
(* pack_update_all (pack.c): the control loop's round of pack updates, run *)
(* by the worker pool.  For every pack it clears UPDATED and hands         *)
(* pack_update to the pool; it waits, kills what is late, and closes every *)
(* pack.  pack_update opens the pack's session, reads, closes, and marks   *)
(* the pack UPDATED when the read succeeded.                               *)
(*                                                                         *)
(* The session is the pack driver's handle.  Opening may fail, reading may *)
(* fail or (unless Timely) never return.  conf->packs is the list of the   *)
(* packs 1..NPacks; the control loop does not touch a pack until the round *)
(* has ended ("scan"), when it looks at the packs marked UPDATED.          *)
(* A session is open here while the driver notes it as open; what a failed *)
(* or a killed open leaves behind in the transport is BmsSession's.        *)
(***************************************************************************)
EXTENDS WorkerPool

CONSTANT NPacks

ASSUME PacksAssumption == NPacks \in Nat \ {0} /\ Items = 1..NPacks

Packs == 1..NPacks

VARIABLES
    step,       \* where the control loop is in pack_update_all
    pp,         \* the pack its list cursor is at
    body,       \* thread: where it is in pack_update
    result,     \* thread: what the read returned
    opened,     \* packs whose session is open
    updated,    \* packs marked MYBMM_PACK_STATE_UPDATED
    outcome     \* pack: the best its updates of this round came to (history)

loop    == <<step, pp>>
packs   == <<opened, updated, outcome>>
allvars == <<vars, step, pp, body, result, opened, updated, outcome>>

Body == {"none", "open", "read", "close", "mark"}

PacksTypeOK ==
    /\ TypeOK
    /\ step \in {"scan", "clear", "submit", "wait", "kill", "close"}
    /\ pp \in 1..(NPacks + 1)
    /\ body \in [Threads -> Body]
    /\ result \in [Threads -> BOOLEAN]
    /\ opened \in SUBSET Packs
    /\ updated \in SUBSET Packs
    /\ outcome \in [Packs -> {"none", "running", "read", "failed"}]

PacksInit ==
    /\ Init
    /\ step = "scan" /\ pp = 1
    /\ body = [t \in Threads |-> "none"]
    /\ result = [t \in Threads |-> FALSE]
    /\ opened = {} /\ updated = {}
    /\ outcome = [p \in Packs |-> "none"]

-----------------------------------------------------------------------------
(* pack_update(pp), on a worker thread.                                    *)

In(t, here, there) ==
    /\ body[t] = here
    /\ body' = [body EXCEPT ![t] = there]

\* What has been read once stays read.
Note(p, o) == outcome' = IF outcome[p] = "read" THEN outcome ELSE [outcome EXCEPT ![p] = o]

\* The pool calls pack_update.
Begin(t) ==
    /\ Call(t)
    /\ body' = [body EXCEPT ![t] = "open"]
    /\ Note(item'[t], "running")
    /\ UNCHANGED <<loop, result, opened, updated>>

\* A session that is open already is used as it is.
Open(t) ==
    /\ In(t, "open", "read")
    /\ opened' = opened \cup {item[t]}
    /\ UNCHANGED <<vars, loop, result, updated, outcome>>

OpenError(t) ==
    /\ In(t, "open", "none")
    /\ Return(t)
    /\ Note(item[t], "failed")
    /\ UNCHANGED <<loop, result, opened, updated>>

Read(t) ==
    /\ In(t, "read", "close")
    /\ \E ok \in BOOLEAN :
         /\ result' = [result EXCEPT ![t] = ok]
         /\ Note(item[t], IF ok THEN "read" ELSE "failed")
    /\ UNCHANGED <<vars, loop, opened, updated>>

Close(t) ==
    /\ In(t, "close", "mark")
    /\ opened' = opened \ {item[t]}
    /\ UNCHANGED <<vars, loop, result, updated, outcome>>

Mark(t) ==
    /\ In(t, "mark", "none")
    /\ updated' = IF result[t] THEN updated \cup {item[t]} ELSE updated
    /\ result' = [result EXCEPT ![t] = FALSE]
    /\ Return(t)
    /\ UNCHANGED <<loop, opened, outcome>>

\* The kill takes the thread wherever it is; its session stays as it is.
Killed(t) ==
    /\ Die(t)
    /\ body' = [body EXCEPT ![t] = "none"]
    /\ result' = [result EXCEPT ![t] = FALSE]
    /\ UNCHANGED <<loop, packs>>

Locks(t) == Locking(t) /\ UNCHANGED <<loop, body, result, packs>>

Spurious(t) == SpuriousWakeup(t) /\ UNCHANGED <<loop, body, result, packs>>

PoolStep(t) ==
    /\ Sleep(t) \/ TakeItem(t) \/ ReadFlags(t) \/ WriteFlags(t) \/ Unlock(t)
    /\ UNCHANGED <<loop, body, result, packs>>

Updating(t) == Begin(t) \/ Open(t) \/ OpenError(t) \/ Close(t) \/ Mark(t)

-----------------------------------------------------------------------------
(* pack_update_all, on the main thread.                                    *)

Loop(here, there, p) == step = here /\ step' = there /\ pp' = p

\* The list's first pack.
EnterRound ==
    /\ mpc = "caller"
    /\ Loop("scan", "clear", 1)
    /\ UNCHANGED <<vars, body, result, packs>>

\* Mutant: UPDATED is not cleared.
ClearUpdatedNot ==
    /\ mpc = "caller" /\ pp <= NPacks
    /\ Loop("clear", "submit", pp)
    /\ outcome' = [outcome EXCEPT ![pp] = "none"]
    /\ UNCHANGED <<vars, body, result, opened, updated>>

ClearUpdated ==
    /\ mpc = "caller" /\ pp <= NPacks
    /\ Loop("clear", "submit", pp)
    /\ updated' = updated \ {pp}
    /\ outcome' = [outcome EXCEPT ![pp] = "none"]
    /\ UNCHANGED <<vars, body, result, opened>>

SubmitUpdate ==
    /\ ExecCall(pp)
    /\ Loop("submit", "clear", pp + 1)
    /\ UNCHANGED <<body, result, packs>>

WaitForUpdates ==
    /\ pp > NPacks
    /\ WaitCall
    /\ Loop("clear", "wait", 1)
    /\ UNCHANGED <<body, result, packs>>

\* Mutant: nobody is killed.
KillLateNot ==
    /\ mpc = "caller"
    /\ Loop("wait", "kill", 1)
    /\ UNCHANGED <<vars, body, result, packs>>

KillLate ==
    /\ KillCall
    /\ Loop("wait", "kill", 1)
    /\ UNCHANGED <<body, result, packs>>

KillDone ==
    /\ mpc = "caller"
    /\ Loop("kill", "close", 1)
    /\ UNCHANGED <<vars, body, result, packs>>

\* Mutant: the session is left open.
ClosePackNot ==
    /\ pp <= NPacks
    /\ Loop("close", "close", pp + 1)
    /\ UNCHANGED <<vars, body, result, packs>>

\* Mutant: the loop goes one pack too far.
ClosePackOneMore ==
    /\ pp <= NPacks + 1
    /\ Loop("close", "close", pp + 1)
    /\ opened' = opened \ {pp}
    /\ UNCHANGED <<vars, body, result, updated, outcome>>

ClosePack ==
    /\ pp <= NPacks
    /\ Loop("close", "close", pp + 1)
    /\ opened' = opened \ {pp}
    /\ UNCHANGED <<vars, body, result, updated, outcome>>

LeaveRound ==
    /\ pp > NPacks
    /\ Loop("close", "scan", 1)
    /\ UNCHANGED <<vars, body, result, packs>>

InPool == Caller /\ UNCHANGED <<loop, body, result, packs>>

Main ==
    \/ EnterRound \/ ClearUpdated \/ SubmitUpdate
    \/ WaitForUpdates \/ KillLate \/ KillDone \/ ClosePack \/ LeaveRound
    \/ InPool

PacksNext ==
    \/ Main
    \/ \E t \in Threads :
         Locks(t) \/ Spurious(t) \/ PoolStep(t) \/ Updating(t) \/ Read(t) \/ Killed(t)

(***************************************************************************)
(* Fairness.  A thread that can run does run in the end; one that wants a  *)
(* mutex gets it if the mutex is free again and again (the main thread     *)
(* sleeps 100 us between its polls, a worker between two items waits); the *)
(* time limit passes, and a signal that was sent is handled; only a read   *)
(* that is not Timely may never return.                                    *)
(***************************************************************************)
Fairness ==
    /\ SF_allvars(Main)
    /\ SF_allvars(WaitTimeout /\ UNCHANGED <<loop, body, result, packs>>)
    /\ \A t \in Threads :
         /\ SF_allvars(Locks(t))
         /\ WF_allvars(PoolStep(t) \/ Updating(t))
         /\ WF_allvars(Killed(t))
         /\ Timely => WF_allvars(Read(t))

PacksSpec == PacksInit /\ [][PacksNext]_allvars /\ Fairness

-----------------------------------------------------------------------------
(* Properties.  Those of the state between rounds are of a pool whose      *)
(* signals have taken effect when worker_killbusy returns (Prompt).        *)

\* When the round is over nobody is inside pack_update, so the control loop's
\* unlocked walk over the packs' cells meets no writer (Prompt).
QuiescentBetweenRounds ==
    step = "scan" => \A t \in Threads : Active(t) => item[t] = None

\* "Make sure all closed (in case update was killed)": no pack's session, as its
\* driver notes it, outlives the round (Prompt).
ClosedBetweenRounds == step = "scan" => opened = {}

\* A pack reported to the control loop was read in this round: no mark is left
\* over from an earlier round, or set for a failed or a killed read (Prompt).
FreshBetweenRounds ==
    step = "scan" => \A p \in updated : outcome[p] = "read"

\* After worker_killbusy every slot can serve the next round: its flags are clear, and
\* its thread is running its loop unless the thread's own store of the flags took away
\* the KILL that was to have the slot re-created (worker.c:169 against 286; then the
\* slot has its dead thread until the next round kills it again).
PoolReadyAfterKill ==
    step \in {"close", "scan"} =>
        \A s \in Slots : flags[s] = {} /\ (Active(tid[s]) \/ s \in lost)

\* A pack is updated at most once a round: an item is not taken by two threads (one
\* created for the slot of another), and taken again only by a thread that the signal
\* is already on its way to: "flags |= FLAG_KILL" can store the BUSY back that the
\* thread has just cleared (worker.c:286 against 169).  The thread is gone when
\* worker_killbusy returns (Prompt).
UpdatedOncePerRound ==
    [][\A t \in Threads, p \in Packs :
         item[t] = None /\ item'[t] = p => outcome[p] = "none" \/ t \in sig]_allvars

\* When every item returns in time, none is lost: each pack handed to the pool
\* has been opened and read, or found to be out of reach, when the wait ends.
NoUpdateLost ==
    step \in {"kill", "close"} =>
        \A p \in Packs : outcome[p] \in {"read", "failed"}

\* The control loop comes back to its decisions again and again.
RoundsRecur == []<>(step = "scan")

\* "Re-create any slot that was killed" (worker.c:293): the slot of a thread that was
\* sent the signal gets another thread, if not in this round then in a later one.
KilledSlotIsRecreated ==
    \A t \in Threads : t \in sig ~> \A s \in Slots : tid[s] # t

\* A thread that is updating its slot's pack, or that finds it there to be taken.
Serving(t) ==
    \/ pc[t] \in {"call", "run"}
    \/ pc[t] \in {"lock", "check", "wait", "relock"} /\ "BUSY" \in flags[wp[t]]

\* The packs handed to a thread that is going to update them or is doing it.
Underway == {arg[wp[t]] : t \in {u \in Threads : Serving(u)}}

\* The packs whose mark the round has cleared.
Cleared ==
    {p \in Packs :
        \/ step \in {"clear", "submit"} /\ p < pp
        \/ step = "submit" /\ p = pp
        \/ step \in {"wait", "kill", "close"}}

Round == INSTANCE UpdateRound WITH
    inside  <- step # "scan",
    running <- Underway,
    open    <- opened,
    cleared <- Cleared

\* pack_update_all implements its promise to the control loop, in a pool whose signals
\* have taken effect when worker_killbusy returns (Prompt).
ImplementsRound == Round!Spec

=============================================================================
