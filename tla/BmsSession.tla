------------------------------ MODULE BmsSession ------------------------------
(***************************************************************************)
(* Updates over a transport handle, from the open to the close, round      *)
(* after round: pack_update in a worker thread and the closing loop of     *)
(* pack_update_all in the main thread (pack.c), or inverter_read in the    *)
(* main thread (inverter.c); with the far end answering late, in parts, or *)
(* not at all, the peer of a TCP session closing it, the callback of       *)
(* gattlib putting pieces into bt.c's buffer while it is read, and         *)
(* worker_killbusy killing the worker (a kill takes effect before the main *)
(* thread goes on; WorkerPool has the case where it does not).             *)
(***************************************************************************)
EXTENDS JbdDriver, JkDriver, RemoteCan, PrehCells

CONSTANT Setups     \* the pairs of a driver and a transport

VARIABLE updated    \* the UPDATED bit of the pack or inverter

vars == <<handle, pc, user, result, history, driver, try, got, mailbox, updated>>

SessionAssumption ==
    Setups \subseteq ({"jbd", "jk", "preh", "si"} \X Kinds)

ASSUME SessionAssumption

Init ==
    /\ \E s \in Setups : drv = s[1] /\ kind = s[2]
    /\ conn = "none" /\ peer = "there" /\ line = <<>>
    /\ data = [i \in 1..MaxData |-> Void] /\ len = 0 /\ note = 0
    /\ pc = "idle" /\ masked = (drv = "si") /\ alive = TRUE
    /\ req = 1 /\ res = "ok" /\ rbuf = <<>>
    /\ crossed = FALSE /\ hollow = FALSE
    /\ try = 1 /\ got = <<>> /\ ok = FALSE /\ open = FALSE /\ updated = FALSE
    /\ bits = {} /\ cells = <<>> /\ missed = FALSE

PCs == {"idle", "open", "opened", "write", "written", "read", "clear", "judge", "look",
        "close", "closing"}

SessionTypeOK ==
    /\ <<drv, kind>> \in Setups
    /\ conn \in {"none", "bare", "up"} /\ peer \in {"there", "gone", "reset"}
    /\ line \in Seq(Piece) /\ Len(line) <= MaxLine
    /\ data \in [1..MaxData -> Piece \cup {Void}]
    /\ len \in 0..MaxData /\ note \in 0..(MaxData + 1)
    /\ pc \in PCs /\ masked \in BOOLEAN /\ alive \in BOOLEAN
    /\ req \in Requests \cup Ids /\ res \in {"ok", "error"}
    /\ \A i \in DOMAIN rbuf : rbuf[i] \in Piece \cup {Void}
    /\ crossed \in BOOLEAN /\ hollow \in BOOLEAN
    /\ try \in Nat \ {0} /\ Len(got) <= NRequests
    /\ ok \in BOOLEAN /\ open \in BOOLEAN /\ updated \in BOOLEAN
    /\ bits \in SUBSET Ids /\ missed \in BOOLEAN
    /\ \A i \in DOMAIN cells : cells[i] \in 1..(NCmu * CmuCells)

-----------------------------------------------------------------------------
(* The rest of the world.                                                  *)

PeerCloses ==
    /\ alive /\ Takes(Tcp)
    /\ conn = "up" /\ peer = "there"
    /\ peer' = "gone"
    /\ UNCHANGED <<kind, conn, line, inbox, pc, user, result, history, driver, try, got, mailbox, updated>>

\* notification_cb copies a piece behind those it knows of ...
CbCopy ==
    /\ alive /\ kind = "bt" /\ conn = "up"
    /\ note = 0 /\ line # <<>>
    /\ note' = len + 1
    /\ data' = IF len < MaxData THEN [data EXCEPT ![len + 1] = Head(line)] ELSE data
    /\ line' = Tail(line)
    /\ UNCHANGED <<kind, conn, peer, len, pc, user, result, history, driver, try, got, mailbox, updated>>

\* Mutant: there is no check for an overrun.
CbAddOver ==
    /\ alive /\ note # 0
    /\ \E n \in {len, note - 1} : len' = n + 1
    /\ note' = 0
    /\ UNCHANGED <<kind, conn, far, data, pc, user, result, history, driver, try, got, mailbox, updated>>

\* ... and counts it: s->len, as it is now or as it was, and one.
CbAdd ==
    /\ alive /\ note # 0
    /\ \E n \in {len, note - 1} : len' = IF note <= MaxData THEN n + 1 ELSE n
    /\ note' = 0
    /\ UNCHANGED <<kind, conn, far, data, pc, user, result, history, driver, try, got, mailbox, updated>>

-----------------------------------------------------------------------------
(* An update.                                                              *)

Aged(p) == IF p = Void THEN p ELSE [p EXCEPT !.age = "old"]

\* pack_update_all clears the bit and hands the pack to a worker; inverter_read.
Start ==
    /\ At("idle", "open")
    /\ updated' = FALSE
    /\ line' = [i \in DOMAIN line |-> Aged(line[i])]
    /\ data' = [i \in DOMAIN data |-> Aged(data[i])]
    /\ got' = <<>> /\ ok' = FALSE
    /\ cells' = <<>> /\ missed' = FALSE
    /\ crossed' = FALSE /\ hollow' = FALSE
    /\ UNCHANGED <<kind, conn, peer, len, note, user, result, who, try, bits>>

\* preh_open and si_open note that the transport is open; the drivers of jbd.c and
\* jk.c leave that to the transport.  The read begins with its first request.
Opened ==
    /\ At("opened", Begin)
    /\ res = "ok"
    /\ open' = Notes
    /\ req' = 1 /\ try' = 1
    /\ UNCHANGED <<handle, masked, alive, result, history, drv, ok, got, mailbox, updated>>

Pack == drv # "si"

\* Neither pack_update nor inverter_read closes what could not be opened.
NotOpened ==
    /\ At("opened", IF Pack THEN "closing" ELSE "idle")
    /\ res = "error"
    /\ UNCHANGED <<handle, user, result, history, driver, try, got, mailbox, updated>>

\* preh_close and si_close do nothing unless they have noted an open transport.
CloseDriver ==
    /\ open' = FALSE
    /\ IF Notes => open THEN Release ELSE UNCHANGED handle

\* The close of pack_update or inverter_read, and the bit.
Close ==
    /\ At("close", IF Pack THEN "closing" ELSE "idle")
    /\ ~(AsksToClose /\ Pipe)
    /\ CloseDriver
    /\ updated' = ok
    /\ UNCHANGED <<user, result, history, drv, ok, try, got, mailbox>>

\* The driver's locals, and what was recorded of this update, matter no more.
Forgotten ==
    /\ req' = 1 /\ try' = 1
    /\ rbuf' = <<>> /\ got' = <<>>
    /\ cells' = <<>> /\ missed' = FALSE

\* Mutant: the loop closes the packs that were updated only.
CloseAllUpdated ==
    /\ At("closing", "idle")
    /\ IF updated THEN CloseDriver ELSE UNCHANGED <<handle, open>>
    /\ Forgotten
    /\ UNCHANGED <<masked, alive, res, history, drv, ok, bits, updated>>

\* pack_update_all closes every pack, in the main thread.
CloseAll ==
    /\ At("closing", "idle")
    /\ CloseDriver
    /\ Forgotten
    /\ UNCHANGED <<masked, alive, res, history, drv, ok, bits, updated>>

\* What a kill can leave of an open that was under way: a descriptor that is not
\* connected, or connected and not set up.  bt has its handle only at the end.
Halfway ==
    IF pc = "open" /\ conn = "none" /\ kind \in {"ip", "can", "can_ip"}
    THEN {"none", "bare", "up"} ELSE {conn}

\* worker_killbusy; the thread that takes the worker's place is a child of the
\* main thread, and has its signal mask.
Kill ==
    /\ alive /\ Pack /\ pc \notin {"idle", "closing"}
    /\ pc' = "closing"
    /\ masked' = TRUE
    /\ conn' \in Halfway
    /\ UNCHANGED <<kind, far, inbox, alive, req, result, history, driver, try, got, mailbox, updated>>

\* No more steps after the signal.
Ended == ~alive /\ UNCHANGED vars

\* What the program does, without its environment.
Program ==
    \/ (Open \/ Write \/ Read) /\ UNCHANGED <<driver, try, got, mailbox, updated>>
    \/ (JbdSteps \/ JkSteps \/ RemoteSteps) /\ UNCHANGED <<mailbox, updated>>
    \/ PrehSteps /\ UNCHANGED updated
    \/ Opened \/ NotOpened \/ Close \/ CloseAll
    \/ AsksToClose /\ DiesOfPipe("close") /\ UNCHANGED <<driver, try, got, mailbox, updated>>

Next ==
    \/ PeerCloses \/ CbCopy \/ CbAdd
    \/ (Hear \/ Forget) /\ UNCHANGED updated
    \/ Start \/ Program \/ Kill \/ Ended

Spec == Init /\ [][Next]_vars /\ WF_vars(Program)

-----------------------------------------------------------------------------
(* Properties.                                                             *)

\* No connection outlives the update it was made for, however that ends: by an
\* error, by a kill at any step, by a peer that goes away.  (preh_close and si_close
\* leave a transport alone whose open has failed, or was killed before info->open
\* was set, so theirs may stay.)
NoSessionKept ==
    pc = "idle" => ~open /\ (conn # "none" => Notes)

\* jbd.c: the answer to request i is taken for it.
AnswersItsRequest(i) == got[i][1].to = i

\* An update that sets UPDATED has taken, for each request of jbd.c, the answer to that
\* request, and in jk.c the voltages of one frame, whole; except when a request was
\* written while an earlier answer was still to come: jbd.c compares nothing in an
\* answer with the request (jbd.c:55), jk.c has no checksum, so that nothing but the
\* order of arrival keeps two apart, and the callback of bt.c may still be at an
\* earlier piece.  Over CAN a frame may also come from nowhere.
AnswersBelong ==
    updated /\ ~crossed /\ ~hollow =>
        /\ drv = "jbd" => \A i \in DOMAIN got : AnswersItsRequest(i)
        /\ drv = "jk" => \A i \in DOMAIN got : Whole(got[i])

\* No answer to an earlier update is taken for one to this, except on a serial line,
\* which is the same from one session to the next, or over bt when the callback was
\* at an earlier piece while bt_write reset the buffer.
AnswersAreNew ==
    updated /\ kind # "serial" /\ (kind = "bt" => ~crossed) /\ ~hollow =>
        \A i \in DOMAIN got : \A j \in DOMAIN got[i] : got[i][j].age = "new"

\* Over can_ip a Preh pack or the inverter is UPDATED by uninitialized frames only.
RemoteUpdatesAreMadeUp ==
    updated /\ Notes /\ kind = "can_ip" => hollow

\* The cells of one update are written in the order of the monitors, none twice; and
\* past the pack's count there is at most one for each monitor.
CellsAscend ==
    /\ \A i, j \in DOMAIN cells : i < j => cells[i] < cells[j]
    /\ Len(cells) < PackCells + NCmu

\* In a Preh pack that is UPDATED, cell i of its monitors is in cellvolt[i], for every
\* i; except when a frame was missing or a cell read as invalid, which moves the cells
\* after it to other places and leaves the last places as they were (preh.c:251,257).
EveryCell ==
    pc = "closing" /\ updated /\ drv = "preh" /\ kind = "can" /\ ~missed =>
        \A i \in 1..PackCells : i \in DOMAIN cells /\ cells[i] = i

\* preh_read's walk over the monitors, which may lack frames and cells, and have more
\* cells than the pack, leaves none out, out of order or out of the array.
CellsInPlace == CellsAscend /\ EveryCell

\* main.c:169, "Ignore SIGPIPE": no write to a connection that its peer has closed
\* ends the daemon.
BrokenPipeIsIgnored == alive

\* Every update comes to an end, whatever the far end does or does not answer;
\* except jbd.c's over a CAN bus, whose reads have no time limit: worker_killbusy ends
\* those.
UpdateReturns == pc # "idle" /\ (kind = "can" => drv = "preh") ~> pc = "idle" \/ ~alive

=============================================================================
