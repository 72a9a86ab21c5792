---------------------------- MODULE MCReassembly ----------------------------
(***************************************************************************)
(* Datagrams of four bytes: packets of one, three and three datagrams (one *)
(* of the latter with a short last one) and one that is too long; strays   *)
(* that break every rule of the reassembler; fewer slots than keys.        *)
(***************************************************************************)
EXTENDS Reassembly

CONSTANTS e1, e2

SomePackets ==
    {[endpoint |-> e1, id |-> 1, length |-> 10], [endpoint |-> e2, id |-> 1, length |-> 8],
     [endpoint |-> e2, id |-> 3, length |-> 3], [endpoint |-> e2, id |-> 4, length |-> 11]}

StrayFragment(total, number, size) ==
    [kind |-> "fragment", endpoint |-> e1, id |-> 2, total |-> total, number |-> number,
     piece |-> Piece(None, 0, size)]

SomeStrays ==
    {StrayFragment(2, 1, 9), StrayFragment(3, 2, 1), StrayFragment(3, 0, 1),
     StrayFragment(3, 3, 1), StrayFragment(4, 3, 1),
     [kind |-> "head", endpoint |-> e1, id |-> 2, fragmented |-> TRUE,
      piece |-> Piece(None, 0, 5)],
     [kind |-> "malformed", endpoint |-> e1, id |-> 2]}
=============================================================================
