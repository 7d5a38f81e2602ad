------------------------------ MODULE JkDriver ------------------------------
(***************************************************************************)
(* The driver of JK's BMS (jk.c): jk_read asks for the device's info,      *)
(* which has to come first, and then for the cells (request 2).  It looks  *)
(* for a frame anywhere in what has arrived, and a frame is its signature  *)
(* with enough bytes after it: there is no checksum.                       *)
(***************************************************************************)
EXTENDS Driver

CONSTANT JkTries    \* of jk_read, for the info and for the cells

ASSUME JkAssumption == JkTries \in Nat \ {0}

Info  == 1
Volts == 2

Jk(here) == alive /\ pc = here /\ drv = "jk"

\* getdata: from each signature that something follows it skips a frame's length;
\* it stops at a frame with voltages.  The place of that frame, or 0 ...
VoltsAt(b) ==
    LET at[i \in 1..(Len(b) + 2)] ==
            IF i >= Len(b) THEN 0
            ELSE IF b[i].part # 1 THEN at[i + 1]
            ELSE IF b[i].to = Volts THEN i ELSE at[i + 2]
    IN at[1]

Frame(b) == SubSeq(b, VoltsAt(b), IF VoltsAt(b) < Len(b) THEN VoltsAt(b) + 1 ELSE Len(b))

\* ... and whether it has come past the info.
HasInfo(b) ==
    LET has[i \in 1..(Len(b) + 2)] ==
            IF i >= Len(b) THEN FALSE
            ELSE IF b[i].part # 1 THEN has[i + 1]
            ELSE IF b[i].to = Volts THEN FALSE ELSE TRUE
    IN has[1]

\* A request that cannot be written ends the read.
JkWritten ==
    /\ Jk("written") /\ res = "ok"
    /\ pc' = "read"
    /\ UNCHANGED <<handle, user, result, history, driver, try, got>>

JkWriteError ==
    /\ Jk("written") /\ res = "error"
    /\ Refuse
    /\ UNCHANGED <<handle, masked, alive, result, history, who>>

\* So does a read that fails, when it is for the info.
InfoError ==
    /\ Jk("judge") /\ req = Info /\ res = "error"
    /\ Refuse
    /\ Judged
    /\ UNCHANGED <<handle, masked, alive, res, history, who>>

\* The info has come, or is not waited for any longer: on to the cells.
InfoDone ==
    /\ Jk("judge") /\ req = Info /\ res = "ok"
    /\ HasInfo(rbuf) \/ try = JkTries
    /\ pc' = "write" /\ req' = Volts /\ try' = 1
    /\ Judged
    /\ UNCHANGED <<handle, masked, alive, res, history, driver, got>>

InfoAgain ==
    /\ Jk("judge") /\ req = Info /\ res = "ok"
    /\ ~HasInfo(rbuf) /\ try < JkTries
    /\ pc' = "write" /\ try' = try + 1
    /\ Judged
    /\ UNCHANGED <<handle, user, res, history, driver, got>>

\* The cells have come.  The read returns success if the tries have not run out,
\* and they have at the last one.
VoltsCome ==
    /\ Jk("judge") /\ req = Volts
    /\ VoltsAt(rbuf) # 0
    /\ got' = Append(got, Frame(rbuf))
    /\ Return(try < JkTries)
    /\ Judged
    /\ UNCHANGED <<handle, masked, alive, res, history, who>>

\* Read again without asking again, whatever the read returned.
VoltsWait ==
    /\ Jk("judge") /\ req = Volts
    /\ VoltsAt(rbuf) = 0 /\ try < JkTries
    /\ pc' = "read" /\ try' = try + 1
    /\ Judged
    /\ UNCHANGED <<handle, user, res, history, driver, got>>

VoltsNever ==
    /\ Jk("judge") /\ req = Volts
    /\ VoltsAt(rbuf) = 0 /\ try = JkTries
    /\ Refuse
    /\ Judged
    /\ UNCHANGED <<handle, masked, alive, res, history, who>>

JkSteps ==
    \/ JkWritten \/ JkWriteError \/ InfoError \/ InfoDone \/ InfoAgain
    \/ VoltsCome \/ VoltsWait \/ VoltsNever

=============================================================================
