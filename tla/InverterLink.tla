---------------------------- MODULE InverterLink ----------------------------
(***************************************************************************)
(* The link to the inverter: inverter_read and inverter_write              *)
(* (inverter.c), called once a pass by the control loop, against the       *)
(* thread of si.c that receives CAN frames all the time, over one handle   *)
(* of can.c.                                                               *)
(*                                                                         *)
(* The thread puts the data of a frame into the message of its id, then    *)
(* sets the id's bit; si_read waits for the bits of the ids it wants.  No  *)
(* lock is shared.  The thread clears the bits when it finds the session   *)
(* closed, or when can_read returns an error.                              *)
(*                                                                         *)
(* The data of a frame is its age: received in this pass ("new") or before *)
(* ("old"); "none" is what no frame brought.                               *)
(***************************************************************************)
EXTENDS Naturals

CONSTANTS
    NNeeded,    \* ids without which si_read fails (0x300, 0x304, 0x305)
    NWanted,    \* all the ids it asks for (and 0x308, 0x30a)
    Retries     \* of si_get_local_can_data

ASSUME LinkAssumption ==
    /\ NNeeded \in Nat \ {0} /\ NWanted \in Nat /\ NNeeded <= NWanted
    /\ Retries \in Nat \ {0}

\* In the order in which si_read asks for them.
Ids == 1..NWanted

\* An id outside of 0x300..0x30a, or one that nobody asks for.
Other == 0

Age == {"none", "old", "new"}

VARIABLES
    fd,         \* can.c: the handle has a descriptor
    open,       \* si.c: s->open
    bitmap,     \* the ids whose bit is set
    messages,   \* id: its message
    tpc,        \* where si_thread is
    frame,      \* the frame on its stack
    mpc,        \* where the control loop is
    job,        \* in inverter_read or inverter_write
    id,         \* si_read: the id it asks for ...
    tries,      \* ... and how often it still looks
    ok,         \* what the driver's read returned
    updated,    \* MYBMM_INVERTER_STATE_UPDATED
    noticed,    \* the thread has looked since the session was closed (history)
    stale,      \* si_read took a value that is not of this pass (history)
    muted       \* the thread had not looked when this pass began, or a failed
                \* read has been stored in it (history)

session  == <<fd, open>>
mailbox  == <<bitmap, messages>>
receiver == <<tpc, frame>>
reader   == <<mpc, job, id, tries, ok, updated>>
history  == <<noticed, stale, muted>>
vars     == <<fd, open, bitmap, messages, tpc, frame,
              mpc, job, id, tries, ok, updated, noticed, stale, muted>>

LinkTypeOK ==
    /\ fd \in BOOLEAN /\ open \in BOOLEAN
    /\ bitmap \in SUBSET Ids
    /\ messages \in [Ids -> Age]
    /\ tpc \in {"test", "asleep", "enter", "calling", "reading", "store", "bit"}
    /\ frame \in [id : Ids \cup {Other}, data : Age]
    /\ mpc \in {"idle", "open", "opened", "get", "write", "close", "closed", "packs"}
    /\ job \in {"read", "write"}
    /\ id \in Ids
    /\ tries \in 0..Retries
    /\ ok \in BOOLEAN /\ updated \in BOOLEAN
    /\ noticed \in BOOLEAN /\ stale \in BOOLEAN /\ muted \in BOOLEAN

\* si_new, which starts the thread.
Init ==
    /\ fd = FALSE /\ open = FALSE
    /\ bitmap = {} /\ messages = [i \in Ids |-> "none"]
    /\ tpc = "test" /\ frame = [id |-> Other, data |-> "none"]
    /\ mpc = "idle" /\ job = "read" /\ id = 1 /\ tries = Retries
    /\ ok = FALSE /\ updated = FALSE
    /\ noticed = TRUE /\ stale = FALSE /\ muted = FALSE

-----------------------------------------------------------------------------
(* si_thread.                                                              *)

At(here, there) == tpc = here /\ tpc' = there

\* Mutant: the bits stay set.
TestClosedKeeps ==
    /\ At("test", "asleep")
    /\ ~open
    /\ noticed' = TRUE
    /\ UNCHANGED <<session, mailbox, frame, reader, stale, muted>>

TestClosed ==
    /\ At("test", "asleep")
    /\ ~open
    /\ bitmap' = {} /\ noticed' = TRUE
    /\ UNCHANGED <<session, messages, frame, reader, stale, muted>>

TestOpen ==
    /\ At("test", "enter")
    /\ open
    /\ UNCHANGED <<session, mailbox, frame, reader, history>>

Wake ==
    /\ At("asleep", "test")
    /\ UNCHANGED <<session, mailbox, frame, reader, history>>

\* can_read without a descriptor is the one error that reaches the thread.
ReadNothing ==
    /\ At("enter", "asleep")
    /\ ~fd
    /\ bitmap' = {}
    /\ UNCHANGED <<session, messages, frame, reader, history>>

ReadBegin ==
    /\ At("enter", "calling")
    /\ fd
    /\ UNCHANGED <<session, mailbox, frame, reader, history>>

\* read() blocks; the socket has no time limit.
ReadBlocks ==
    /\ At("calling", "reading")
    /\ fd
    /\ UNCHANGED <<session, mailbox, frame, reader, history>>

\* A blocked read gets its frame even if the descriptor has been closed.
Receive ==
    /\ At("reading", "store")
    /\ \E i \in Ids \cup {Other} : frame' = [id |-> i, data |-> "new"]
    /\ UNCHANGED <<session, mailbox, reader, history>>

\* read() fails: on a descriptor closed meanwhile, or with the bus down.  What
\* can_read returns is the length of its frame all the same, and that frame was
\* never written: any id with data that came from nowhere, or the last frame,
\* still on the stack.
ReceiveError ==
    /\ \/ At("calling", "store") /\ ~fd
       \/ At("reading", "store")
    /\ \/ \E i \in Ids \cup {Other} : frame' = [id |-> i, data |-> "none"]
       \/ frame' = frame
    /\ muted' = TRUE
    /\ UNCHANGED <<session, mailbox, reader, noticed, stale>>

Ignore ==
    /\ At("store", "test")
    /\ frame.id = Other
    /\ UNCHANGED <<session, mailbox, frame, reader, history>>

Store ==
    /\ At("store", "bit")
    /\ frame.id # Other
    /\ messages' = [messages EXCEPT ![frame.id] = frame.data]
    /\ UNCHANGED <<session, bitmap, frame, reader, history>>

SetBit ==
    /\ At("bit", "test")
    /\ bitmap' = bitmap \cup {frame.id}
    /\ UNCHANGED <<session, messages, frame, reader, history>>

Thread ==
    \/ TestClosed \/ TestOpen \/ Wake \/ ReadNothing \/ ReadBegin \/ ReadBlocks
    \/ Receive \/ ReceiveError \/ Ignore \/ Store \/ SetBit

-----------------------------------------------------------------------------
(* The control loop's side.                                                *)

Goto(here, there) == mpc = here /\ mpc' = there

Aged(a) == IF a = "new" THEN "old" ELSE a

\* A new pass: inverter_read.  main sleeps only for what is left of the interval,
\* so the thread, which looks every second, may be anywhere.
StartRead ==
    /\ Goto("idle", "open")
    /\ job' = "read" /\ updated' = FALSE
    /\ messages' = [i \in Ids |-> Aged(messages[i])]
    /\ frame' = [frame EXCEPT !.data = Aged(@)]
    /\ stale' = FALSE
    /\ muted' = ~noticed
    /\ UNCHANGED <<session, bitmap, tpc, id, tries, ok, noticed>>

\* After the packs: inverter_write, if the inverter has reported.
StartWrite ==
    /\ Goto("packs", "open")
    /\ updated
    /\ job' = "write"
    /\ UNCHANGED <<session, mailbox, receiver, id, tries, ok, updated, history>>

NoWrite ==
    /\ Goto("packs", "idle")
    /\ ~updated
    /\ UNCHANGED <<session, mailbox, receiver, job, id, tries, ok, updated, history>>

Return == IF job = "read" THEN "packs" ELSE "idle"

\* can_open: a handle that has a descriptor is open already.
OpenError ==
    /\ Goto("open", Return)
    /\ ~fd
    /\ UNCHANGED <<session, mailbox, receiver, job, id, tries, ok, updated, history>>

OpenDescriptor ==
    /\ Goto("open", "opened")
    /\ fd' = TRUE
    /\ UNCHANGED <<open, mailbox, receiver, job, id, tries, ok, updated, history>>

\* si_open: s->open = 1
MarkOpen ==
    /\ Goto("opened", IF job = "read" THEN "get" ELSE "write")
    /\ open' = TRUE
    /\ id' = 1 /\ tries' = Retries
    /\ UNCHANGED <<fd, mailbox, receiver, job, ok, updated, history>>

\* On to the next id, or out of si_read with success.
NextId ==
    IF id < NWanted
    THEN mpc' = mpc /\ id' = id + 1 /\ tries' = Retries /\ ok' = ok
    ELSE mpc' = "close" /\ id' = id /\ tries' = tries /\ ok' = TRUE

\* Mutant: the tries are not counted.
GetMissingForEver ==
    /\ mpc = "get" /\ tries > 0
    /\ id \notin bitmap
    /\ UNCHANGED <<session, mailbox, receiver, mpc, job, id, tries, ok, updated, history>>

GetMissing ==
    /\ mpc = "get" /\ tries > 0
    /\ id \notin bitmap
    /\ tries' = tries - 1
    /\ UNCHANGED <<session, mailbox, receiver, mpc, job, id, ok, updated, history>>

\* Mutant: there is an id after the last one.
GetValueOneMore ==
    /\ mpc = "get" /\ tries > 0
    /\ id \in bitmap
    /\ stale' = (stale \/ (id <= NNeeded /\ messages[id] # "new"))
    /\ id' = id + 1 /\ tries' = Retries
    /\ UNCHANGED <<session, mailbox, receiver, mpc, job, ok, updated, noticed, muted>>

GetValue ==
    /\ mpc = "get" /\ tries > 0
    /\ id \in bitmap
    /\ stale' = (stale \/ (id <= NNeeded /\ messages[id] # "new"))
    /\ NextId
    /\ UNCHANGED <<session, mailbox, receiver, job, updated, noticed, muted>>

GetFails ==
    /\ mpc = "get" /\ tries = 0
    /\ id <= NNeeded
    /\ mpc' = "close" /\ ok' = FALSE
    /\ UNCHANGED <<session, mailbox, receiver, job, id, tries, updated, history>>

\* The results of the last two ids are not looked at.
GetFailsUnseen ==
    /\ mpc = "get" /\ tries = 0
    /\ id > NNeeded
    /\ NextId
    /\ UNCHANGED <<session, mailbox, receiver, job, updated, history>>

\* si_write returns 0 or 1; inverter_write looks for a negative value, so it
\* goes on to the close whatever has been sent.
Write ==
    /\ Goto("write", "close")
    /\ UNCHANGED <<session, mailbox, receiver, job, id, tries, ok, updated, history>>

\* si_close: the descriptor, then s->open = 0.
CloseDescriptor ==
    /\ Goto("close", "closed")
    /\ fd' = (fd /\ ~open)
    /\ UNCHANGED <<open, mailbox, receiver, job, id, tries, ok, updated, history>>

\* Mutant: the session still counts as open.
ClearOpenNot ==
    /\ Goto("closed", Return)
    /\ updated' = (updated \/ (job = "read" /\ ok))
    /\ UNCHANGED <<session, mailbox, receiver, job, id, tries, ok, history>>

ClearOpen ==
    /\ Goto("closed", Return)
    /\ open' = FALSE /\ noticed' = FALSE
    /\ updated' = (updated \/ (job = "read" /\ ok))
    /\ UNCHANGED <<fd, mailbox, receiver, job, id, tries, ok, stale, muted>>

InPass ==
    \/ StartWrite \/ NoWrite \/ OpenError \/ OpenDescriptor \/ MarkOpen
    \/ GetMissing \/ GetValue \/ GetFails \/ GetFailsUnseen
    \/ Write \/ CloseDescriptor \/ ClearOpen

Next == Thread \/ StartRead \/ InPass

\* The control loop runs; nothing is assumed of the thread or of the bus.
Spec == Init /\ [][Next]_vars /\ WF_vars(InPass)

-----------------------------------------------------------------------------
(* Properties.                                                             *)

\* No pass leaves the inverter's session open, whichever call fails.
ClosedOutside == mpc \in {"idle", "packs"} => ~fd /\ ~open

\* An inverter that is reported as UPDATED was heard in this pass.  There are two
\* exceptions: when the pass began the thread had not looked since the session was
\* closed (the bus was silent, or the pass followed at once); or can_read made up
\* a frame.
StaleOnlyIfMuted == updated /\ stale => muted

\* Whatever the thread and the bus do, the control loop gets out of inverter_read
\* and inverter_write.
InverterReturns == (mpc # "idle") ~> (mpc = "idle")

=============================================================================
