---------------------------- MODULE ApprovedOnce ----------------------------
(***************************************************************************)
(* What the opening side of the paper path promises: an order needs a      *)
(* permit, a permit is granted only on a payload the operator has approved *)
(* and lasts for one order at most, and no payload is ever ordered twice.  *)
(* The operator may change his mind at any time; a permit already granted  *)
(* may then still be used.                                                 *)
(***************************************************************************)
EXTENDS Naturals

CONSTANTS Payload, Holder

VARIABLES approved, permits, placed

absVars == <<approved, permits, placed>>

Init == /\ approved = {}
        /\ permits = {}
        /\ placed = [x \in Payload |-> 0]

\* The operator approves a payload, rejects it, or is asked again.
Decide == /\ \E x \in Payload : \/ approved' = approved \cup {x}
                                \/ approved' = approved \ {x}
          /\ UNCHANGED <<permits, placed>>

Grant(h, x) == /\ x \in approved
               /\ permits' = permits \cup {<<h, x>>}
               /\ UNCHANGED <<approved, placed>>

Place(h, x) == /\ <<h, x>> \in permits
               /\ placed[x] = 0
               /\ permits' = permits \ {<<h, x>>}
               /\ placed' = [placed EXCEPT ![x] = 1]
               /\ UNCHANGED approved

\* A permit lapses: the broker refused, or its holder stopped.
Lapse(h, x) == /\ permits' = permits \ {<<h, x>>}
               /\ UNCHANGED <<approved, placed>>

Next == \/ Decide
        \/ \E h \in Holder, x \in Payload :
             Grant(h, x) \/ Place(h, x) \/ Lapse(h, x)

Spec == Init /\ [][Next]_absVars

=============================================================================
