---------------------------- MODULE MCRevocation ----------------------------
(***************************************************************************)
(* An instance of Revocation for TLC: a network of two members.  One loses *)
(* its authorization and gets it back while two requests run at once; the  *)
(* other was deauthorized before and has only a session.                   *)
(***************************************************************************)
EXTENDS Revocation, MCController

OneAuthorized ==
    [k \in {n1} \X {i1, i2} |->
        IF k[2] = i1 THEN AuthorizedMember({}, 2)
        ELSE [revision |-> 4, doc |-> NewMember]]

\* What an agent reads in a dictionary is what went into it: for every revision, the
\* names of the instance, and lists that are empty or not, which is all the format
\* tells apart.
ASSUME DictionaryReadsBackHere ==
    \A revision \in 1..MaxUint, doc \in NetworkDocs \cup {Assigning, Manual} :
    \A capabilities, tags, specialists, routes, ips \in {{}, {0}} :
        ReadsBack(revision, doc.name, capabilities, tags, specialists, routes, ips)
=============================================================================
