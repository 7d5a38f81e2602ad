------------------------------ MODULE RemoteCan ------------------------------
(***************************************************************************)
(* The drivers that read frames by their id from a CAN server (can_ip)     *)
(* instead of a mailbox: preh_get_remote_can_data of preh.c and            *)
(* si_get_remote_can_data of si.c, as preh_read and si_read call them.     *)
(* Request 1 stands for the ids they cannot do without, request 2 for      *)
(* those whose absence they pass over.                                     *)
(*                                                                         *)
(* They wait for a read that returns sizeof(struct can_frame), 16; but for *)
(* a given id can_ip_read returns a frame's data, 8 bytes at the most.     *)
(* Only the length of an uninitialized frame can be 16.                    *)
(***************************************************************************)
EXTENDS Driver

CONSTANT FrameTries     \* of both functions

ASSUME RemoteAssumption == FrameTries \in Nat \ {0}

Needed == 1

Remote(here) == alive /\ pc = here /\ Notes /\ kind = "can_ip"

\* Mutant: the size of the data is enough.
ComesWithData == res = "ok" /\ rbuf # <<>>

FullSize == res = "ok" /\ rbuf = <<Void>>

\* si_get_remote_can_data reports the frame of its last try as missing.
LastTryWasted == drv = "si" /\ try = FrameTries

FrameTaken ==
    /\ Remote("judge") /\ FullSize
    /\ ~LastTryWasted
    /\ hollow' = (hollow \/ rbuf = <<Void>>)
    /\ Accept
    /\ Judged
    /\ UNCHANGED <<handle, masked, alive, res, crossed, who>>

\* An uninitialized frame can have any length.
FrameAgain ==
    /\ Remote("judge") /\ res = "ok"
    /\ try < FrameTries
    /\ pc' = "read" /\ try' = try + 1
    /\ Judged
    /\ UNCHANGED <<handle, user, res, history, driver, got>>

\* An error ends the tries.
FrameMissing ==
    /\ Remote("judge")
    /\ res = "error" \/ try = FrameTries
    /\ got' = got
    /\ IF req = Needed THEN Return(FALSE) ELSE Proceed
    /\ Judged
    /\ UNCHANGED <<handle, masked, alive, res, history, who>>

RemoteSteps == FrameTaken \/ FrameAgain \/ FrameMissing

=============================================================================
