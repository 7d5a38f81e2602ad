------------------------------ MODULE PrehCells ------------------------------
(***************************************************************************)
(* The driver of Preh's BMS over a local CAN bus (preh.c): a thread puts   *)
(* the frames it hears into a mailbox, and preh_read looks there for the   *)
(* frames of one cell monitor (CMU) after the other: its state, its        *)
(* temperatures, and its cells, three in a frame.  A cell goes to the next *)
(* free place in the pack's cellvolt.                                      *)
(*                                                                         *)
(* The mailbox is that of si.c (InverterLink has its finer steps); here it *)
(* is the set of ids whose frame is there.                                 *)
(***************************************************************************)
EXTENDS Driver

CONSTANTS
    NCmu,       \* info->ncmu
    CmuCells,   \* cells that a monitor has
    NFrames,    \* frames with cells asked of each monitor
    PackCells,  \* pp->cells
    Looks       \* tries of preh_get_local_can_data

PerFrame == 3
Asks     == NFrames + 2
Ids      == 1..(NCmu * Asks)

ASSUME PrehAssumption ==
    /\ NCmu \in Nat \ {0} /\ CmuCells \in Nat \ {0} /\ NFrames \in Nat \ {0}
    /\ PackCells \in Nat \ {0} /\ Looks \in Nat \ {0}

VARIABLES
    bits,       \* info->bitmaps: the ids whose frame is in the mailbox
    cells,      \* the cells written to pp->cellvolt in this update, in order: each
                \* is its number among the cells of all monitors
    missed      \* a frame with cells was not there, or a cell was not marked as
                \* valid (history)

mailbox == <<bits, cells, missed>>

Local(here) == alive /\ pc = here /\ drv = "preh" /\ kind = "can"

-----------------------------------------------------------------------------
(* preh_thread.                                                            *)

\* A frame is received and its bit set.
Hear ==
    /\ alive /\ drv = "preh" /\ kind = "can" /\ conn = "up"
    /\ \E i \in Ids \ bits : bits' = bits \cup {i}
    /\ UNCHANGED <<handle, pc, user, result, history, driver, try, got, cells, missed>>

\* Not open, or the read fails: no bit is set any more.
Forget ==
    /\ alive /\ drv = "preh" /\ kind = "can"
    /\ bits # {}
    /\ bits' = {}
    /\ UNCHANGED <<handle, pc, user, result, history, driver, try, got, cells, missed>>

-----------------------------------------------------------------------------
(* preh_read, at the id with the number req.                               *)

Cmu   == (req - 1) \div Asks
What  == (req - 1) % Asks       \* 0: state, 1: temperatures, from 2: cells

\* To the id numbered i, or out of preh_read.
GoTo(i) ==
    IF i \in Ids
    THEN pc' = "look" /\ req' = i /\ try' = 1 /\ ok' = ok
    ELSE pc' = "close" /\ ok' = TRUE /\ UNCHANGED <<req, try>>

NextCmu == (Cmu + 1) * Asks + 1

Least(a, b) == IF a < b THEN a ELSE b

\* The cells that the monitor has in this frame: the first one's number, how many.
First == Cmu * CmuCells + PerFrame * (What - 2) + 1

\* Mutant: a place without a cell is read as one.
WiredAll == PerFrame

Wired ==
    IF CmuCells > PerFrame * (What - 2)
    THEN Least(PerFrame, CmuCells - PerFrame * (What - 2)) ELSE 0

\* Of the valid cells at the frame's beginning, how many are taken: the count of cells
\* is compared after each.
Taken(valid) == Least(valid, IF Len(cells) < PackCells THEN PackCells - Len(cells) ELSE 1)

\* A frame with an invalid cell is a monitor's last, and so is one that completes the
\* pack.
LastFrame(valid) == valid < PerFrame \/ Len(cells) + Taken(valid) >= PackCells

Wait ==
    /\ Local("look") /\ req \notin bits
    /\ try < Looks
    /\ try' = try + 1
    /\ UNCHANGED <<handle, pc, user, result, history, driver, got, mailbox>>

FoundOther ==
    /\ Local("look") /\ req \in bits
    /\ What < 2
    /\ GoTo(req + 1)
    /\ UNCHANGED <<handle, masked, alive, result, history, who, got, mailbox>>

\* The mark of a cell is the low half of its voltage's high byte, which is zero under
\* 256 mV and from 4.096 to 4.351 V: a cell that reads so ends the frame, like a place
\* without one.
TakeCells(valid) ==
    /\ Local("look") /\ req \in bits
    /\ What >= 2
    /\ cells' = cells \o [k \in 1..Taken(valid) |-> First + k - 1]
    /\ missed' = (missed \/ valid < Wired)
    /\ GoTo(IF LastFrame(valid) THEN NextCmu ELSE req + 1)
    /\ UNCHANGED <<handle, masked, alive, result, history, who, got, bits>>

FoundCells == \E valid \in 0..Wired : TakeCells(valid)

\* Without its state a monitor cannot be read ...
NoState ==
    /\ Local("look") /\ req \notin bits
    /\ try = Looks /\ What = 0
    /\ Return(FALSE)
    /\ UNCHANGED <<handle, masked, alive, result, history, who, got, mailbox>>

\* ... but other frames that are missing are passed over.
PassOver ==
    /\ Local("look") /\ req \notin bits
    /\ try = Looks /\ What > 0
    /\ missed' = (missed \/ What >= 2)
    /\ GoTo(IF What = Asks - 1 THEN NextCmu ELSE req + 1)
    /\ UNCHANGED <<handle, masked, alive, result, history, who, got, bits, cells>>

PrehSteps == Wait \/ FoundOther \/ FoundCells \/ NoState \/ PassOver

=============================================================================
