-------------------------- MODULE EndpointRegistry --------------------------
(***************************************************************************)
(* What create_endpoint promises of the endpoints table: endpoints are     *)
(* added one at a time, numbered without a gap, each with a key that no    *)
(* other endpoint has, and nothing that was added changes.                 *)
(***************************************************************************)
EXTENDS Naturals

CONSTANT Keys

VARIABLE registry  \* the pairs of a number and a key

Init == registry = {}

Numbers == {e.id : e \in registry}

Register(k) == /\ \A e \in registry : e.key # k
               /\ \E last \in Numbers \cup {0} :
                     /\ Numbers = 1..last
                     /\ registry' = registry \cup {[id |-> last + 1, key |-> k]}

Next == \E k \in Keys : Register(k)

Spec == Init /\ [][Next]_registry
=============================================================================
