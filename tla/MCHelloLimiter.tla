--------------------------- MODULE MCHelloLimiter ---------------------------
(***************************************************************************)
(* Two prefixes that hash to different slots, two hosts of the first one   *)
(* and the invalid address, which shares slot 0 with a prefix.             *)
(***************************************************************************)
EXTENDS HelloLimiter

Host(prefix, host) == [valid |-> TRUE, prefix |-> prefix, host |-> host]

SomeAddresses ==
    {Host("p0", 1), Host("p0", 2), Host("p1", 1), [valid |-> FALSE, prefix |-> "p1", host |-> 0]}
SomeHash == [p \in {"p0", "p1"} |-> IF p = "p0" THEN 0 ELSE 1]
=============================================================================
