--------------------------- MODULE MCDeleteQueue ---------------------------
(***************************************************************************)
(* One container with two interfaces: a DEL that names one of them and a   *)
(* DEL that names the container, with a foreign file in a queue of two.    *)
(***************************************************************************)
EXTENDS DeleteQueue, TLC

CONSTANTS eth0, eth1, one, all, foreign

MCCovers == [r \in Requests |-> IF r = one THEN {eth0} ELSE {eth0, eth1}]
=============================================================================
