---------------------------- MODULE Credentials -----------------------------
(***************************************************************************)
(* The credentials of a network configuration besides the certificate of   *)
(* membership: capabilities and tags (networkconfig/policy_credentials.go) *)
(* and the certificate of ownership (ownership.go).  A network defines     *)
(* capabilities, [rules |-> their number, default |-> BOOLEAN], and tags   *)
(* with a default value or none; a member lists the capabilities and the   *)
(* tag values of its own.                                                  *)
(***************************************************************************)
EXTENDS Integers, FiniteSets, Functions

CONSTANTS MaxIssuedCapabilities, MaxIssuedTags, MaxCapabilityRules, MaxOwnershipThings

ASSUME CredentialsAssumption ==
    /\ MaxIssuedCapabilities \in Nat /\ MaxIssuedTags \in Nat
    /\ MaxCapabilityRules \in Nat /\ MaxOwnershipThings \in Nat

\* Sorted, and cut after the first n.
Lowest(n, ids) == {i \in ids : Cardinality({j \in ids : j < i}) < n}

\* The IDs a member lists, defined or not, and the defaults of the network.
CapabilityIDs(network, member) ==
    member.capabilities \cup
        {c \in DOMAIN network.capabilities : network.capabilities[c].default}

\* Every capability the network defines.
AllCapabilities(network, member) == DOMAIN network.capabilities

\* The list is cut before the IDs without a definition are passed over.
IssuedCapabilities(network, member) ==
    Lowest(MaxIssuedCapabilities, CapabilityIDs(network, member)) \cap DOMAIN network.capabilities

\* issueCapability refuses a long list of rules, and with it the configuration.
CapabilitiesIssuable(network, member) ==
    \A c \in IssuedCapabilities(network, member) :
        network.capabilities[c].rules <= MaxCapabilityRules

\* The defaults, overwritten by the values of the member; a tag of the member needs
\* no definition.
TagValues(network, member) ==
    LET defaults == {t \in DOMAIN network.tags : network.tags[t] # {}} IN
    [t \in defaults \cup DOMAIN member.tags |->
        IF t \in DOMAIN member.tags THEN member.tags[t] ELSE CHOOSE v \in network.tags[t] : TRUE]

IssuedTags(network, member) ==
    LET values == TagValues(network, member) IN
    Restrict(values, Lowest(MaxIssuedTags, DOMAIN values))

\* NewCertificateOfOwnership, which a member without addresses does not get.
OwnershipIssuable(member) == Cardinality(member.ips) <= MaxOwnershipThings
=============================================================================
