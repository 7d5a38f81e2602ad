---------------------------- MODULE UpdateRound ----------------------------
(***************************************************************************)
(* What pack_update_all (pack.c) promises the control loop, whatever the   *)
(* threads do: between two calls nobody is updating a pack, no session to  *)
(* a pack is open and the UPDATED marks do not move; a pack is marked only *)
(* by an update of its own that was started after its mark was cleared.    *)
(***************************************************************************)
CONSTANT Packs

VARIABLES
    inside,     \* the control loop is inside pack_update_all
    running,    \* packs whose update is under way
    open,       \* packs with an open session
    updated,    \* packs marked UPDATED
    cleared     \* packs whose mark has been cleared in this call

vars == <<inside, running, open, updated, cleared>>

Init == inside = FALSE /\ running = {} /\ open = {} /\ updated = {} /\ cleared = {}

Enter == ~inside /\ inside' = TRUE /\ UNCHANGED <<running, open, updated, cleared>>

Clear(p) ==
    /\ inside /\ p \notin running
    /\ updated' = updated \ {p} /\ cleared' = cleared \cup {p}
    /\ UNCHANGED <<inside, running, open>>

Start(p) ==
    /\ inside /\ p \notin running /\ p \in cleared
    /\ running' = running \cup {p}
    /\ UNCHANGED <<inside, open, updated, cleared>>

OpenSession(p) ==
    /\ p \in running
    /\ open' = open \cup {p}
    /\ UNCHANGED <<inside, running, updated, cleared>>

CloseSession(p) ==
    /\ inside
    /\ open' = open \ {p}
    /\ UNCHANGED <<inside, running, updated, cleared>>

\* The update succeeded, and ends with the mark.
Mark(p) ==
    /\ p \in running
    /\ running' = running \ {p}
    /\ updated' = updated \cup {p}
    /\ UNCHANGED <<inside, open, cleared>>

\* The update failed, or was abandoned.
Stop(p) ==
    /\ p \in running
    /\ running' = running \ {p}
    /\ UNCHANGED <<inside, open, updated, cleared>>

\* Every mark has been cleared meanwhile, so that none is left from an earlier call.
Leave ==
    /\ inside /\ running = {} /\ open = {} /\ cleared = Packs
    /\ inside' = FALSE /\ cleared' = {}
    /\ UNCHANGED <<running, open, updated>>

Next ==
    \/ Enter \/ Leave
    \/ \E p \in Packs : \/ Clear(p) \/ Start(p) \/ Mark(p) \/ Stop(p)
                        \/ OpenSession(p) \/ CloseSession(p)

Spec == Init /\ [][Next]_vars

=============================================================================
