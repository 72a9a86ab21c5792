---------------------------- MODULE MCLegacyApi ----------------------------
(***************************************************************************)
(* Instances of LegacyApi for TLC: one network, one node, one legacy       *)
(* request and the other writers, whose steps stand for any write, those   *)
(* of further legacy requests included.  Two fields per row are enough to  *)
(* tell a field the patch names from one it does not.                      *)
(***************************************************************************)
EXTENDS LegacyApi

CONSTANTS n1, i1

Patch(fields, authorized) == [fields |-> fields, authorized |-> authorized]

OneNetworkPatch == {Patch([f \in {"name"} |-> "set"], {})}
SomeMemberPatches ==
    {Patch([f \in {"bridge"} |-> "on"], {TRUE}), Patch([f \in {"name"} |-> "set"], {FALSE}),
     Patch([f \in {} |-> {}], {})}

NoNetworks == [n \in {} |-> {}]
NoMembers == [k \in {} |-> {}]
=============================================================================
