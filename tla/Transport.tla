------------------------------ MODULE Transport ------------------------------
(***************************************************************************)
(* One handle of a transport module (ip.c, serial.c, bt.c, can.c,          *)
(* can_ip.c) and the calls that a driver makes on it: open, write, read,   *)
(* close.                                                                  *)
(*                                                                         *)
(* An answer of the far end is two pieces over a byte stream (ip, serial,  *)
(* bt), a piece being what arrives together, and one piece, a frame, over  *)
(* a CAN bus (can, can_ip).  A piece knows which request it answers, which *)
(* part of the answer it is, and whether the request was made in this      *)
(* update ("new") or in an earlier one ("old").                            *)
(*                                                                         *)
(* A delay is a piece that stays on the line while the program goes on.    *)
(***************************************************************************)
EXTENDS Integers, Sequences

CONSTANTS
    MaxLine,    \* pieces on the line at once (a bound; the next answer is lost)
    MaxData     \* pieces that s->data of bt.c takes

ASSUME TransportAssumption == MaxLine \in Nat \ {0} /\ MaxData \in Nat \ {0}

Streams == {"ip", "serial", "bt"}
Tcp     == {"ip", "can_ip"}
Kinds   == Streams \cup {"can", "can_ip"}

Requests == 1..2

\* The last element is what memory holds where nothing has arrived.
Piece == [to : Requests, part : 1..2, age : {"new", "old"}]
Void  == [to |-> 0, part |-> 0, age |-> "none"]

VARIABLES
    kind,       \* the transport
    conn,       \* "none"; "bare": the handle refers to something that is not
                \* connected; "up"
    peer,       \* TCP: "there"; "gone": it has closed; "reset": and has
                \* answered what was sent to it since
    line,       \* the pieces that have not been read
    data,       \* bt: s->data ...
    len,        \* ... and s->len
    note,       \* bt: where the callback has copied a piece that it has not
                \* counted yet; 0: it is not running
    pc,         \* where the thread that uses the handle is
    masked,     \* SIGPIPE is blocked in that thread
    alive,      \* the daemon has not been ended by a signal
    req,        \* the request under way
    res,        \* what the last call returned: "ok" or "error" (below 0, or not 0
                \* for an open)
    rbuf,       \* the pieces in the buffer of the last read
    crossed,    \* a request was made with an earlier answer outstanding (history)
    hollow      \* a CAN frame was used that was never received (history)

far     == <<peer, line>>
inbox   == <<data, len, note>>
user    == <<masked, alive, req>>
result  == <<res, rbuf>>
history == <<crossed, hollow>>
handle  == <<kind, conn, far, inbox>>

At(here, there) == alive /\ pc = here /\ pc' = there

Takes(k) == kind \in k

-----------------------------------------------------------------------------
(* Open.                                                                   *)

\* A handle with a descriptor counts as open; bt_open does not look.
OpenAlready ==
    /\ At("open", "opened")
    /\ conn # "none" /\ kind # "bt"
    /\ res' = "ok"
    /\ UNCHANGED <<handle, user, rbuf, history>>

OpenSucceeds ==
    /\ At("open", "opened")
    /\ conn = "none" \/ kind = "bt"
    /\ conn' = "up" /\ peer' = "there"
    /\ res' = "ok"
    /\ UNCHANGED <<kind, line, inbox, user, rbuf, history>>

\* No connection: ip, serial and can give their descriptor back, bt has none, and
\* can_ip keeps its own.
OpenFails ==
    /\ At("open", "opened")
    /\ conn = "none" \/ kind = "bt"
    /\ conn' = IF kind = "can_ip" THEN "bare" ELSE "none"
    /\ res' = "error"
    /\ UNCHANGED <<kind, far, inbox, user, rbuf, history>>

\* There is a connection but it cannot be used: bt gets no notifications,
\* disconnects, and keeps the handle to what it has disconnected; can_ip gets no
\* reply to CANSERVER_OPEN and keeps the connection.
SetupFails ==
    /\ At("open", "opened")
    /\ conn = "none" \/ kind = "bt"
    /\ \/ kind = "bt" /\ conn' = "bare" /\ peer' = peer
       \/ kind = "can_ip" /\ conn' = "up" /\ peer' = "there"
    /\ res' = "error"
    /\ UNCHANGED <<kind, line, inbox, user, rbuf, history>>

Open == OpenAlready \/ OpenSucceeds \/ OpenFails \/ SetupFails

-----------------------------------------------------------------------------
(* Write.                                                                  *)

\* A send has no one to go to: after a reset, or on a socket never connected.
Broken == Takes(Tcp) /\ (conn = "bare" \/ peer = "reset")

\* What a send to a peer that has closed does to the connection: its reset may
\* come at once, or not before the next call.
Provoked == IF peer = "there" THEN {"there"} ELSE {peer, "reset"}

\* The signal that the send raises ends the daemon unless its thread blocks it.
Pipe == Broken /\ ~masked

DiesOfPipe(here) ==
    /\ alive /\ pc = here /\ Pipe
    /\ alive' = FALSE
    /\ UNCHANGED <<handle, pc, masked, req, result, history>>

Part(r, p) == [to |-> r, part |-> p, age |-> "new"]

\* What may be on its way after request r: an answer, its first piece only (the
\* rest is lost), or nothing.
Answers(r) == {<<>>, <<Part(r, 1)>>, <<Part(r, 1), Part(r, 2)>>}

Outstanding == IF kind = "bt" THEN line # <<>> \/ note # 0 ELSE line # <<>>

\* Mutant: the pieces of an earlier answer stay in the buffer.
BtResetNot == len' = len

\* bt_write: s->len = 0
BtReset == len' = IF kind = "bt" THEN 0 ELSE len

WriteStream ==
    /\ At("write", "written")
    /\ Takes(Streams) /\ ~Broken
    /\ BtReset
    /\ \E a \in Answers(req) :
        /\ Len(line) + Len(a) <= MaxLine
        /\ peer # "there" => a = <<>>
        /\ line' = line \o a
    /\ peer' \in Provoked
    /\ res' = "ok"
    /\ crossed' = (crossed \/ Outstanding)
    /\ UNCHANGED <<kind, conn, data, note, user, rbuf, hollow>>

\* can_write sends a frame; can_ip_write asks the server to send it and waits for
\* the reply, which is empty when the server has closed the connection.
WriteFrame ==
    /\ At("write", "written")
    /\ Takes({"can", "can_ip"}) /\ ~Broken
    /\ peer' \in Provoked
    /\ res' = "ok"
    /\ UNCHANGED <<kind, conn, line, inbox, user, rbuf, history>>

\* The line is full for 5 seconds (ip), the device fails, or there is no reply
\* within a second (can_ip).
WriteFails ==
    /\ At("write", "written")
    /\ ~Pipe
    /\ BtReset
    /\ res' = "error"
    /\ crossed' = (crossed \/ Outstanding)
    /\ UNCHANGED <<kind, conn, far, data, note, user, rbuf, hollow>>

Write == WriteStream \/ WriteFrame \/ WriteFails \/ DiesOfPipe("write")

-----------------------------------------------------------------------------
(* Read.                                                                   *)

\* ip_read and serial_read take what has arrived when nothing more comes within
\* the second they have, or at the end of the stream.
ReadStream ==
    /\ At("read", "judge")
    /\ Takes({"ip", "serial"})
    /\ \E n \in 0..Len(line) :
        /\ rbuf' = SubSeq(line, 1, n)
        /\ line' = SubSeq(line, n + 1, Len(line))
    /\ res' = "ok"
    /\ UNCHANGED <<kind, conn, peer, inbox, user, history>>

\* An error also loses what was read before it.
ReadFails ==
    /\ At("read", "judge")
    /\ kind \in {"ip", "serial", "can_ip"}
    /\ ~(kind = "can_ip" /\ Pipe)
    /\ rbuf' = <<>>
    /\ \E n \in 0..Len(line) : line' = SubSeq(line, n + 1, Len(line))
    /\ res' = "error"
    /\ UNCHANGED <<kind, conn, peer, inbox, user, history>>

\* bt_read: nothing there, three times.
BtNothing ==
    /\ At("read", "judge")
    /\ kind = "bt" /\ len = 0
    /\ rbuf' = <<>> /\ res' = "ok"
    /\ UNCHANGED <<handle, user, history>>

\* bt_read returns what is there at once: it copies, and then sets s->len to 0.
BtTake ==
    /\ At("read", "clear")
    /\ kind = "bt" /\ len > 0
    /\ rbuf' = SubSeq(data, 1, len) /\ res' = "ok"
    /\ UNCHANGED <<handle, user, history>>

BtClear ==
    /\ At("clear", "judge")
    /\ len' = 0
    /\ UNCHANGED <<kind, conn, far, data, note, user, result, history>>

\* A frame with the id that was asked for.  can_read waits for it for ever;
\* can_ip_read asks the server for it.
ReadFrame ==
    /\ At("read", "judge")
    /\ kind = "can" \/ (kind = "can_ip" /\ ~Broken /\ peer = "there")
    /\ \E p \in 1..2 : rbuf' = <<Part(req, p)>>
    /\ res' = "ok"
    /\ UNCHANGED <<handle, user, history>>

\* A read() that fails (can), a reply without a frame or the end of the stream
\* (can_ip): the data and the length returned are those of a frame on the stack
\* that nothing was written to.
ReadHollow ==
    /\ At("read", "judge")
    /\ kind = "can" \/ (kind = "can_ip" /\ conn = "up" /\ ~Pipe)
    /\ rbuf' = <<Void>>
    /\ res' = "ok"
    /\ peer' \in Provoked
    /\ UNCHANGED <<kind, conn, line, inbox, user, history>>

Read ==
    \/ ReadStream \/ ReadFails \/ BtNothing \/ BtTake \/ BtClear
    \/ ReadFrame \/ ReadHollow
    \/ kind = "can_ip" /\ DiesOfPipe("read")

-----------------------------------------------------------------------------
(* Close.  The caller's pc is set by the action this is a part of.         *)

\* Mutant: what is under way survives the session.
DropKeeps == line' = line

\* A serial line is there whether it is open or not, though what arrives while it
\* is closed is lost; the others start anew.
Drop ==
    IF kind = "serial"
    THEN \E n \in 0..Len(line) : line' = SubSeq(line, n + 1, Len(line))
    ELSE line' = <<>>

Release ==
    /\ conn' = "none" /\ peer' = "there"
    /\ Drop
    /\ UNCHANGED <<kind, inbox>>

\* can_ip_close asks the server to close first.
AsksToClose == kind = "can_ip" /\ conn # "none"

=============================================================================
