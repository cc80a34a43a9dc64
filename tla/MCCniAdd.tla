------------------------------ MODULE MCCniAdd ------------------------------
(***************************************************************************)
(* Two sandboxes of one Pod compete for one address of each family; the     *)
(* gateway is in the IPv4 pool.                                            *)
(***************************************************************************)
EXTENDS CniAdd, TLC

CONSTANTS a1, a2, pod

MCCapacity == [ipv6 |-> 1, ipv4 |-> 2]
MCExcluded == {<<"ipv4", 1>>}
MCOwnerOf == [a \in Attachments |-> pod]
Symmetry == Permutations({a1, a2})
=============================================================================
