---------------------------- MODULE MCEndpoints ----------------------------
(***************************************************************************)
(* Two attachments of one Pod (a sandbox that is being replaced), two      *)
(* addresses, two endpoint ids.  Links l1 and l3 share an interface index, *)
(* so nothing tells them apart.                                            *)
(***************************************************************************)
EXTENDS Endpoints, TLC

CONSTANTS a1, a2, l1, l2, l3, ip1, ip2, pod

MCIndexOf == [l \in Links |-> IF l = l2 THEN 2 ELSE 1]
MCOwnerOf == [a \in Attachments |-> pod]
Symmetry == Permutations({a1, a2}) \cup Permutations({ip1, ip2})
            \cup Permutations({l1, l3})
=============================================================================
