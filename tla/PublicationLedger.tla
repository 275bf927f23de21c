-------------------------- MODULE PublicationLedger --------------------------
(***************************************************************************)
(* What publication promises, without requests, locks or failures: an item *)
(* becomes official only once it is in the projection, official items stay *)
(* official and projected, and the item made official last is the only     *)
(* current one.                                                            *)
(***************************************************************************)
CONSTANT Items

VARIABLES
    projected,   \* items users can find in the projection
    official,    \* items that are part of the official record
    current      \* the watermark readers are given

ledgerVars == <<projected, official, current>>

Init == projected = {} /\ official = {} /\ current = {}

Project(i) ==
    /\ projected' = projected \cup {i}
    /\ UNCHANGED <<official, current>>

Publish(i) ==
    /\ i \in projected \ official
    /\ official' = official \cup {i}
    /\ current' = {i}
    /\ UNCHANGED projected

Next == \E i \in Items : Project(i) \/ Publish(i)

Spec == Init /\ [][Next]_ledgerVars
=============================================================================
