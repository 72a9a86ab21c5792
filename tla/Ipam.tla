-------------------------------- MODULE Ipam --------------------------------
(***************************************************************************)
(* Address selection of internal/controller/ipam.go.  An address is its    *)
(* family and its number in that family.  A pool is an inclusive range of  *)
(* one family (Network.Validate refuses any other); the target of a        *)
(* managed route is a prefix, here the range it spans.                     *)
(***************************************************************************)
EXTENDS Integers, Sequences, SequencesExt, FiniteSetsExt

CONSTANT MaxIPAMPoolScan   \* how many candidates one search may look at

ASSUME MaxIPAMPoolScanAssumption == MaxIPAMPoolScan \in Nat \ {0}

Families == {"v4", "v6"}
Addresses == [family : Families, number : Nat]

RangeContains(range, a) ==
    /\ range.family = a.family
    /\ range.start <= a.number /\ a.number <= range.end

Width(range) == range.end - range.start

AddressHasManagedRoute(routes, a) == \E route \in routes : RangeContains(route, a)

HasAddressFamily(addresses, family) == \E a \in addresses : a.family = family

\* The numbers of a pool in the order of candidate.Next().
PoolNumbers(pool) == [j \in 1..(pool.end - pool.start + 1) |-> pool.start + j - 1]

\* All candidates of one family, pool after pool.
Candidates(pools, family) ==
    FlattenSeq([p \in 1..Len(pools) |->
        IF pools[p].family = family THEN PoolNumbers(pools[p]) ELSE <<>>])

(***************************************************************************)
(* The first candidate that no member uses and that lies in a managed      *)
(* route, as a set of at most one address: empty when the pools, or the    *)
(* scan limit counted across the pools, are exhausted.                     *)
(***************************************************************************)
FirstAvailableAddress(network, used, family) ==
    LET candidates == Candidates(network.pools, family)
        candidate(scanned) == [family |-> family, number |-> candidates[scanned]]
        free == {scanned \in 1..MaxIPAMPoolScan :
                    /\ scanned <= Len(candidates)
                    /\ candidate(scanned) \notin used
                    /\ AddressHasManagedRoute(network.routes, candidate(scanned))}
    IN {candidate(first) : first \in {x \in free : \A y \in free : x <= y}}
=============================================================================
