--------------------------- MODULE FencedInventory ---------------------------
(***************************************************************************)
(* What the protection lists of the server promise, seen from outside: a   *)
(* space protected by name neither appears nor goes, and the protected     *)
(* networks and addresses of a space never change, singly or together. The *)
(* one exception is a space that is not itself protected: when it goes,    *)
(* everything in it is lost.                                               *)
(***************************************************************************)
CONSTANT Spaces

VARIABLES
    shielded,  \* the spaces protected by name
    present,   \* the spaces that exist
    held       \* held[s]: the protected rows in space s

vars == <<shielded, present, held>>

Init ==
    /\ shielded \in SUBSET Spaces
    /\ present \in SUBSET Spaces
    /\ held = [s \in Spaces |-> held[s]]

Appear(s) ==
    /\ s \notin shielded
    /\ present' = present \cup {s}
    /\ UNCHANGED <<shielded, held>>

Lose(s) ==
    /\ s \in present \ shielded
    /\ present' = present \ {s}
    /\ held' = [held EXCEPT ![s] = {}]
    /\ UNCHANGED shielded

Next == \E s \in Spaces : Appear(s) \/ Lose(s)

Spec == Init /\ [][Next]_vars
=============================================================================
