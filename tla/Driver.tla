------------------------------- MODULE Driver -------------------------------
(***************************************************************************)
(* What the drivers of the BMSs and of the inverter have in common: a read *)
(* is a sequence of requests over one transport handle, each made a number *)
(* of times until there is an answer that the driver accepts.              *)
(***************************************************************************)
EXTENDS Transport

VARIABLES
    drv,        \* the driver: "jbd", "jk", "preh", "si"
    try,        \* which try of the request this is
    got,        \* the answers that were accepted, in the order of the requests
    ok,         \* what the driver's read returns: 0 or not
    open        \* preh: info->open; si: s->open

who    == <<drv, open>>
driver == <<who, ok>>

NRequests == 2

\* preh.c and si.c note in their own session that the transport is open.
Notes == drv \in {"preh", "si"}

\* They do not write for a frame: over can_ip, can_ip_read itself asks the server;
\* over can they look into a mailbox.
Begin == IF ~Notes THEN "write" ELSE IF kind = "can" THEN "look" ELSE "read"

\* The buffer is a local variable, and is not looked at again.
Judged == rbuf' = <<>>

\* The driver's read returns.
Return(success) ==
    /\ pc' = "close" /\ ok' = success
    /\ UNCHANGED <<req, try>>

\* The answer to this request is taken; there is another request, or none.
Proceed ==
    IF req < NRequests
    THEN pc' = Begin /\ req' = req + 1 /\ try' = 1 /\ ok' = ok
    ELSE pc' = "close" /\ ok' = TRUE /\ UNCHANGED <<req, try>>

Accept ==
    /\ got' = Append(got, rbuf)
    /\ Proceed

Again(limit) ==
    /\ got' = got
    /\ IF try < limit
       THEN pc' = Begin /\ try' = try + 1 /\ UNCHANGED <<req, ok>>
       ELSE Return(FALSE)

Refuse == got' = got /\ Return(FALSE)

=============================================================================
