---------------------------- MODULE MCTransport -----------------------------
(***************************************************************************)
(* Sessions: one upstream, and three agents that compete for two sessions. *)
(* Answers: two upstreams that can be reached at the same endpoint; one is *)
(* silent, the other answers its own HELLOs and those to the silent one.   *)
(* The upstreams and the first agent have a twin: another identity with    *)
(* the same node ID.  Packets come from either of two endpoints.           *)
(***************************************************************************)
EXTENDS Transport, TLC

CONSTANTS u, v, a, b, c, agentB, agentC

EveryIdentity == {"root", "rootTwin", "agentA", "agentATwin", agentB, agentC}
AnsweringIdentities == {"moon", "moonTwin"}
SomeNodes == [i \in EveryIdentity \cup AnsweringIdentities |->
                 CASE i = agentB -> b
                   [] i = agentC -> c
                   [] i \in {"root", "rootTwin"} -> u
                   [] i \in {"moon", "moonTwin"} -> v
                   [] OTHER -> a]

\* The second and the third agent are interchangeable, each with its node ID.
OtherAgents == {f \in Permutations({agentB, agentC, b, c}) :
                   \A i \in {agentB, agentC} :
                       f[i] \in {agentB, agentC} /\ SomeNodes[f[i]] = f[SomeNodes[i]]}

OneTarget == <<<<"root", "here">>>>
TwinTargets == <<<<"root", "here">>, <<"rootTwin", "there">>>>
SessionConfigurations == {OneTarget, TwinTargets}

TwoUpstreams == <<<<"root", "here">>, <<"moon", "here">>>>
AnswerConfigurations == {TwoUpstreams}
=============================================================================
