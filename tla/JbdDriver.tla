------------------------------ MODULE JbdDriver ------------------------------
(***************************************************************************)
(* The driver of JBD's BMS (jbd.c).  Over a byte stream it asks for HWINFO *)
(* and for CELLINFO (jbd_get_pack, jbd_rw), over a CAN bus for one frame   *)
(* after the other (jbd_can_get_pack, jbd_can_get).  A request is repeated *)
(* until an answer passes the check of its form.                           *)
(***************************************************************************)
EXTENDS Driver

CONSTANTS
    RwTries,    \* of jbd_rw
    CanTries    \* of jbd_can_get

ASSUME JbdAssumption == RwTries \in Nat \ {0} /\ CanTries \in Nat \ {0}

Jbd(k) == drv = "jbd" /\ kind \in k

Whole(b) ==
    /\ Len(b) = 2
    /\ b[1].part = 1 /\ b[2].part = 2
    /\ b[1].to = b[2].to /\ b[1].age = b[2].age

\* jbd_verify: the start byte, the length, the checksum and the stop byte are those
\* of one answer; the register is not looked at.
Verified(b) == Whole(b)

-----------------------------------------------------------------------------
(* jbd_rw.                                                                 *)

\* Whether the request could be written is not looked at.
RwWritten ==
    /\ At("written", "read")
    /\ Jbd(Streams)
    /\ UNCHANGED <<handle, user, result, history, driver, try, got>>

RwError ==
    /\ alive /\ pc = "judge" /\ Jbd(Streams)
    /\ res = "error"
    /\ Refuse
    /\ Judged
    /\ UNCHANGED <<handle, masked, alive, res, history, who>>

RwAccept ==
    /\ alive /\ pc = "judge" /\ Jbd(Streams)
    /\ res = "ok" /\ Verified(rbuf)
    /\ Accept
    /\ Judged
    /\ UNCHANGED <<handle, masked, alive, res, history, who>>

\* Mutant: the tries are not counted.
RwAgainForEver ==
    /\ alive /\ pc = "judge" /\ Jbd(Streams)
    /\ res = "ok" /\ ~Verified(rbuf)
    /\ pc' = "write"
    /\ Judged
    /\ UNCHANGED <<handle, user, res, history, driver, try, got>>

RwAgain ==
    /\ alive /\ pc = "judge" /\ Jbd(Streams)
    /\ res = "ok" /\ ~Verified(rbuf)
    /\ Again(RwTries)
    /\ Judged
    /\ UNCHANGED <<handle, masked, alive, res, history, who>>

-----------------------------------------------------------------------------
(* jbd_can_get.  Part 1 is a frame whose checksum is right, or zero; part 2 *)
(* is one whose checksum is wrong.  An uninitialized one may pass or not.  *)

CanWritten ==
    /\ At("written", "read")
    /\ Jbd({"can", "can_ip"})
    /\ res = "ok"
    /\ UNCHANGED <<handle, user, result, history, driver, try, got>>

\* A write or a read returns less than 0.
CanError ==
    /\ alive /\ pc \in {"written", "judge"} /\ Jbd({"can", "can_ip"})
    /\ res = "error"
    /\ Refuse
    /\ Judged
    /\ UNCHANGED <<handle, masked, alive, res, history, who>>

CanAccept ==
    /\ alive /\ pc = "judge" /\ Jbd({"can", "can_ip"})
    /\ res = "ok" /\ rbuf[1].part \in {0, 1}
    /\ hollow' = (hollow \/ rbuf[1] = Void)
    /\ Accept
    /\ Judged
    /\ UNCHANGED <<handle, masked, alive, res, crossed, who>>

CanAgain ==
    /\ alive /\ pc = "judge" /\ Jbd({"can", "can_ip"})
    /\ res = "ok" /\ rbuf[1].part \in {0, 2}
    /\ Again(CanTries)
    /\ Judged
    /\ UNCHANGED <<handle, masked, alive, res, history, who>>

JbdSteps ==
    \/ RwWritten \/ RwError \/ RwAccept \/ RwAgain
    \/ CanWritten \/ CanError \/ CanAccept \/ CanAgain

=============================================================================
