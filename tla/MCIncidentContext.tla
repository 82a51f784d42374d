-------------------------- MODULE MCIncidentContext --------------------------
(* Requests of one installation, of a stored token and of no repository. *)
EXTENDS IncidentContext

CONSTANTS a1, a2, a3, t1, m1, m2, m3, m4, shop, other, app

OneInstallation == [r \in Requests |-> app]
Places == [r \in Requests |-> IF r = m3 THEN other ELSE shop]
\* m4 is too far, and m3 is the nearest but not of the environment of the others.
Distances == [q \in Requests |-> [m \in Requests |->
               CASE m = m1 -> 1 [] m = m2 -> 2 [] m = m3 -> 0 [] OTHER -> 3]]

\* Three fetches share the cache.
Tokens == [requests |-> {a1, a2, a3}, fetchOnly |-> TRUE, time |-> 3, runs |-> 0, faults |-> 0]
\* Tokens are revoked, calls fail.
Revocation == [requests |-> {a1, a2}, fetchOnly |-> TRUE, time |-> 4, runs |-> 0, faults |-> 1]
\* A fetch by the app and one by a stored token, while runs start and end.
Repository == [requests |-> {a1, t1}, fetchOnly |-> TRUE, time |-> 1, runs |-> 3, faults |-> 1]
\* One request from its beginning to its end.
Incident == [requests |-> {t1, m1}, fetchOnly |-> FALSE, time |-> 0, runs |-> 2, faults |-> 2]
\* Incidents that recall each other.
Memories == [requests |-> {m1, m2, m3, m4}, fetchOnly |-> FALSE, time |-> 0, runs |-> 0,
             faults |-> 1]

AllScenarios == {Tokens, Revocation, Repository, Incident, Memories}
=============================================================================
