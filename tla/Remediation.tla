----------------------------- MODULE Remediation -----------------------------
(***************************************************************************)
(* What executing an action promises, whoever does it and whatever the     *)
(* connection: the host is asked once, never after a verdict; what the     *)
(* host makes of it, in one run or several, shows at any later time, or    *)
(* not at all; one verdict is given for good, and only a restart that took *)
(* place is judged.  A failed execution says nothing of the host.          *)
(***************************************************************************)

CONSTANT Actions    \* the executions of approved actions

VARIABLES
  host,      \* per action: "none", "outstanding", "applied" or "averted"
  verdict    \* per action: "none", "failed", "healthy" or "unhealthy"

vars == <<host, verdict>>

Init ==
  /\ host = [a \in Actions |-> "none"]
  /\ verdict = [a \in Actions |-> "none"]

Order(a) ==
  /\ host[a] = "none"
  /\ verdict[a] = "none"
  /\ host' = [host EXCEPT ![a] = "outstanding"]
  /\ UNCHANGED verdict

\* The host acts, or the order comes to nothing, verdict or not.  It may be carried out
\* again, and take place after a run that came to nothing.
Act(a) ==
  /\ host[a] \in {"outstanding", "averted"}
  /\ \E what \in {"applied", "averted"} : host' = [host EXCEPT ![a] = what]
  /\ UNCHANGED verdict

Fail(a) ==
  /\ verdict[a] = "none"
  /\ verdict' = [verdict EXCEPT ![a] = "failed"]
  /\ UNCHANGED host

Judge(a) ==
  /\ verdict[a] = "none"
  /\ host[a] = "applied"
  /\ \E what \in {"healthy", "unhealthy"} : verdict' = [verdict EXCEPT ![a] = what]
  /\ UNCHANGED host

Next == \E a \in Actions : Order(a) \/ Act(a) \/ Fail(a) \/ Judge(a)

Spec == Init /\ [][Next]_vars

=============================================================================
