----------------------------- MODULE MCBmsSession -----------------------------
(* Every driver over the transports it is used with. *)
EXTENDS BmsSession

MCSetups ==
    ({"jbd"} \X Kinds) \cup ({"jk"} \X {"bt", "ip"}) \cup ({"preh", "si"} \X {"can_ip"})
    \cup {<<"preh", "can">>}
=============================================================================
