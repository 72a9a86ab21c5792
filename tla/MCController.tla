---------------------------- MODULE MCController ----------------------------
(***************************************************************************)
(* Instances of Controller for TLC: one network, two nodes, two concurrent *)
(* requests.  The network has an IPv4 pool with as many addresses as there *)
(* are nodes, one of which lies outside the managed route.                 *)
(***************************************************************************)
EXTENDS Controller, TLC

CONSTANTS n1, i1, i2

Symmetry == Permutations(Workers)

Span(f, a, b) == [family |-> f, start |-> a, end |-> b]

\* The names hold every character the dictionary escapes.  The first has two lines,
\* of which the second looks like an entry.
TwoLines == <<LF, Char("I"), Equals, Char("x")>>
Specials == <<Backslash, Char("n"), NUL, CR, Backslash>>

Capability(default, rules) == [default |-> default, rules |-> rules]
NoTags == [t \in {} |-> 0]

Assigning ==
    [assign |-> {"v4"}, pools |-> <<Span("v6", 1, 1), Span("v4", 1, 3)>>,
     routes |-> {Span("v4", 2, 5), Span("v6", 0, 1)}, name |-> TwoLines,
     capabilities |-> (1 :> Capability(TRUE, 1) @@ 2 :> Capability(FALSE, 2)),
     tags |-> (1 :> {7} @@ 2 :> {})]
BothFamilies == [Assigning EXCEPT !.assign = {"v4", "v6"}]
Manual ==
    [assign |-> {}, pools |-> <<>>, routes |-> {Span("v4", 2, 5), Span("v4", 2, 3)},
     name |-> Specials,
     capabilities |-> (2 :> Capability(FALSE, 1) @@ 3 :> Capability(TRUE, 1)),
     tags |-> (1 :> {8} @@ 3 :> {9})]

TwoDocs == {Assigning, Manual}
TwoFamilies == {BothFamilies}

Update(roles, ips, capabilities, tags) ==
    [roles |-> roles, noAutoAssign |-> FALSE, ips |-> ips, capabilities |-> capabilities,
     tags |-> tags]

RoleUpdates == {Update({}, {}, {2}, 1 :> 5), Update({"bridge"}, {}, {1, 2, 4}, NoTags)}
Resets == {Update({}, {}, {}, NoTags)}

OneObserved == {<<n1, i2>>}

Stored(doc) == [n \in {n1} |-> [revision |-> 1, doc |-> doc]]
StoredManual == Stored(Manual)
StoredBothFamilies == Stored(BothFamilies)

\* A member that was registered (revision 1), perhaps updated, and authorized.
AuthorizedMember(roles, revision) ==
    [revision |-> revision,
     doc |-> [NewMember EXCEPT !.authorized = TRUE, !.roles = roles]]

NoMembers == [k \in {} |-> {}]
BothAuthorized == [k \in {n1} \X {i1, i2} |-> AuthorizedMember({}, 2)]
OneSpecialist ==
    [k \in {n1} \X {i1, i2} |->
        IF k[2] = i1 THEN AuthorizedMember({"bridge"}, 3) ELSE AuthorizedMember({}, 2)]
=============================================================================
