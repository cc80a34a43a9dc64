------------------------------ MODULE CidrSet ------------------------------
(***************************************************************************)
(* The allocator of node prefixes out of a cluster's prefix                *)
(* (crates/flowsdn-ipam/src/cidrset.rs).  An address is a number of Width  *)
(* bits (32 or 128 in the code) of one family; a prefix is its first       *)
(* address and its number of bits.                                         *)
(***************************************************************************)
EXTENDS Integers, FiniteSets

CONSTANTS
    Width,         \* bits of an address
    Cluster,       \* the cluster's prefix
    NodeMask,      \* bits of a node's prefix
    MaxDiff        \* 24 (IPv4) or 16 (IPv6) in the code

VARIABLES
    used,          \* CidrSet::used: block index -> BOOLEAN
    next,          \* CidrSet::next
    held           \* ghost: the addresses taken with their block, not freed since
vars == <<used, next, held>>

Addresses == 0..(2^Width - 1)

\* Prefix::new: the address is masked.
Prefix(address, bits) ==
    [address |-> (address \div 2^(Width - bits)) * 2^(Width - bits), bits |-> bits]
Last(p) == p.address + 2^(Width - p.bits) - 1
Prefixes == {Prefix(address, bits) : address \in Addresses, bits \in 1..Width}

\* CidrSet::new.
Accepts(cluster, mask) ==
    /\ mask >= cluster.bits /\ mask <= Width
    /\ mask - cluster.bits <= MaxDiff
Count == 2^(NodeMask - Cluster.bits)
Blocks == 0..(Count - 1)

\* CidrSet::index, of an address inside the cluster.
Index(address) == (address - Cluster.address) \div 2^(Width - NodeMask)
InCluster(address) == Cluster.address <= address /\ address <= Last(Cluster)

\* CidrSet::block.
Block(i) == Prefix(Cluster.address + i * 2^(Width - NodeMask), NodeMask)

Least(a, b) == IF a < b THEN a ELSE b
Most(a, b) == IF a > b THEN a ELSE b

\* Mutant: only the block of the prefix's first address.
IntervalFirst(p) ==
    IF InCluster(p.address) THEN {Index(p.address)} ELSE {}

\* CidrSet::interval: the blocks a prefix meets, none when it is outside.
Interval(p) ==
    IF p.address > Last(Cluster) \/ Last(p) < Cluster.address THEN {}
    ELSE Index(Most(p.address, Cluster.address))..Index(Least(Last(p), Last(Cluster)))

IsAllocated(p) == Interval(p) # {} /\ \A i \in Interval(p) : used[i]

\* What a call takes or frees, in addresses: those of every block that shares
\* one with its prefix.
Span(p) == p.address..Last(p)
Touched(p) == UNION {Span(Block(i)) : i \in {i \in Blocks : Span(Block(i)) \cap Span(p) # {}}}

\* A prefix outside of the cluster is an error and changes nothing.
Occupy(p) ==
    /\ used' = [i \in Blocks |-> used[i] \/ i \in Interval(p)]
    /\ held' = held \cup Touched(p)
    /\ UNCHANGED next

\* CidrSet::release: any prefix, whoever took its blocks and for what.
Release(p) ==
    /\ used' = [i \in Blocks |-> used[i] /\ i \notin Interval(p)]
    /\ held' = held \ Touched(p)
    /\ UNCHANGED next

\* CidrSet::allocate_next: from next on, around the end.
Found == {k \in Blocks : ~used[(next + k) % Count]}
AllocateNext ==
    /\ Found # {}      \* else an error
    /\ LET i == (next + CHOOSE k \in Found : \A j \in Found : k <= j) % Count
       IN /\ used' = [used EXCEPT ![i] = TRUE]
          /\ next' = (i + 1) % Count
          /\ held' = held \cup Span(Block(i))

Init ==
    /\ Accepts(Cluster, NodeMask)
    /\ used = [i \in Blocks |-> FALSE]
    /\ next = 0 /\ held = {}

Next ==
    \/ AllocateNext
    \/ \E p \in Prefixes : Occupy(p) \/ Release(p)

Spec == Init /\ [][Next]_vars
----------------------------------------------------------------------------
\* Whatever prefixes are occupied and released, in any order, wider or
\* narrower than a block or reaching out of the cluster: a block is free, and
\* allocate_next may hand it out, exactly when none of its addresses was taken
\* since the last release that shares an address with it (interval, occupy,
\* release; part of a block is freed as the whole block), and is_allocated
\* answers for exactly the prefixes all of whose addresses are taken.
BlocksExact ==
    /\ \A i \in Blocks : IF used[i] THEN Span(Block(i)) \subseteq held
                         ELSE Span(Block(i)) \cap held = {}
    /\ \A p \in Prefixes : LET inside == Span(p) \cap Span(Cluster)
                           IN IsAllocated(p) <=> inside # {} /\ inside \subseteq held
============================================================================
