-------------------------- MODULE MCOutboundRunner --------------------------
(***************************************************************************)
(* Instances of OutboundRunner for TLC: who runs for which environment.    *)
(***************************************************************************)
EXTENDS OutboundRunner, TLC

CONSTANTS r1, r2, a1, a2, a3

\* One environment, two processes sharing its runner identity.
SharedRunnerOf == [t \in Tasks |-> r1]
SharedIdentity == [a \in Agents |-> r1]

\* Two environments, two processes for the one and one for the other.
MixedRunnerOf == [t \in Tasks |-> IF t = 1 THEN r1 ELSE r2]
MixedIdentity == [a \in Agents |-> IF a = a3 THEN r2 ELSE r1]

\* Processes of one identity are interchangeable.
AgentSymmetry == Permutations(Agents)

=============================================================================
