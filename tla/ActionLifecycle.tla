--------------------------- MODULE ActionLifecycle --------------------------
(***************************************************************************)
(* One remediation action from its proposal to its audit: the stored row,  *)
(* the owners' concurrent Approve and Reject requests, the executor        *)
(* goroutine that each successful Approve starts, the target host, the     *)
(* audit trail and the incident the action belongs to.                     *)
(*                                                                         *)
(* A request is followed by one program counter through its handler and,   *)
(* for an approval, on through its executor.  Save always writes the whole *)
(* row from the writer's own copy of it, whatever is stored by then.       *)
(***************************************************************************)
EXTENDS Naturals

CONSTANTS
  Approvals,   \* Approve requests
  Rejections,  \* Reject requests
  ByOwners,    \* the requests whose principal has the owner role
  Nobody,      \* the decider of a row nobody has decided
  MaxFaults    \* bound: failed or unanswered database calls and crashes

Requests == Approvals \cup Rejections

ASSUME RequestsAssumption ==
  /\ Approvals \cap Rejections = {}
  /\ ByOwners \subseteq Requests
  /\ Nobody \notin Requests
ASSUME FaultsAssumption == MaxFaults \in Nat

VARIABLES
  proposal,    \* Propose: "none", "saved" or "done"
  row,         \* the stored action: its status and whose copy was saved last
  pc,          \* where a request, or its executor, is
  verdict,     \* an executor's outcome: "none", "failed", "healthy", "unhealthy"
  effect,      \* the restart on the host: "none", "outstanding", "applied", "averted"
  audit,       \* the audit events of the action
  incident,    \* "unlinked", "open" or "resolved"
  creator,     \* IncidentService.Create: "remembering" or "done"
  decided,     \* history: requests whose decision was committed
  overlapped,  \* history: two requests held the pending row at a time
  faults

vars == <<proposal, row, pc, verdict, effect, audit, incident, creator,
          decided, overlapped, faults>>

Statuses == {"absent", "pending_approval", "approved", "rejected", "executing",
             "verifying", "completed", "verification_failed", "failed"}
Places == {"idle", "loaded", "saved", "starting", "calling", "running", "hung", "erred",
           "succeeded", "verifying", "judged", "auditing", "resolving", "storing",
           "done", "refused", "lost"}
Event == [type : {"proposed", "approved", "rejected", "executed"},
          by : Requests \cup {Nobody}, success : BOOLEAN]

TypeOK ==
  /\ proposal \in {"none", "saved", "done"}
  /\ row \in [status : Statuses, by : Requests \cup {Nobody}]
  /\ pc \in [Requests -> Places]
  /\ verdict \in [Requests -> {"none", "failed", "healthy", "unhealthy"}]
  /\ effect \in [Requests -> {"none", "outstanding", "applied", "averted"}]
  /\ audit \subseteq Event
  /\ incident \in {"unlinked", "open", "resolved"}
  /\ creator \in {"remembering", "done"}
  /\ decided \subseteq Requests
  /\ overlapped \in BOOLEAN
  /\ faults \in 0 .. MaxFaults

Init ==
  /\ proposal = "none"
  /\ row = [status |-> "absent", by |-> Nobody]
  /\ pc = [q \in Requests |-> "idle"]
  /\ verdict = [q \in Requests |-> "none"]
  /\ effect = [q \in Requests |-> "none"]
  /\ audit = {}
  /\ \/ incident = "unlinked" /\ creator = "done"
     \/ incident = "open" /\ creator \in {"remembering", "done"}
  /\ decided = {}
  /\ overlapped = FALSE
  /\ faults = 0

Fault == faults < MaxFaults /\ faults' = faults + 1

\* The caller goes on whether or not the row could be saved.
SaveRow(q, status) ==
  \/ row' = [status |-> status, by |-> q] /\ UNCHANGED faults
  \/ Fault /\ UNCHANGED row

\* The caller goes on whether or not the event could be appended.
Append(type, q, success) ==
  \/ /\ audit' = audit \cup {[type |-> type, by |-> q, success |-> success]}
     /\ UNCHANGED faults
  \/ Fault /\ UNCHANGED audit

Goto(q, place) == pc' = [pc EXCEPT ![q] = place]

-----------------------------------------------------------------------------
(* Proposal *)

Propose ==
  /\ proposal = "none"
  /\ proposal' = "saved"
  /\ row' = [status |-> "pending_approval", by |-> Nobody]
  /\ UNCHANGED <<pc, verdict, effect, audit, incident, creator, decided, overlapped, faults>>

ProposeAudit ==
  /\ proposal = "saved"
  /\ proposal' = "done"
  /\ Append("proposed", Nobody, TRUE)
  /\ UNCHANGED <<row, pc, verdict, effect, incident, creator, decided, overlapped>>

-----------------------------------------------------------------------------
(* Approve and Reject: read the row, check it, save a copy, audit. *)

Decision(q) == IF q \in Approvals THEN "approved" ELSE "rejected"

\* Mutated Load: the status is not looked at.
Load_AnyStatus(q) ==
  /\ pc[q] = "idle"
  /\ IF q \in ByOwners /\ row.status # "absent"
     THEN /\ Goto(q, "loaded")
          /\ overlapped' = (overlapped \/ \E p \in Requests : pc[p] = "loaded")
     ELSE Goto(q, "refused") /\ UNCHANGED overlapped
  /\ UNCHANGED <<proposal, row, verdict, effect, audit, incident, creator, decided, faults>>

\* The handler admits owners only, and the service only a pending action.
Load(q) ==
  /\ pc[q] = "idle"
  /\ IF q \in ByOwners /\ row.status = "pending_approval"
     THEN /\ Goto(q, "loaded")
          /\ overlapped' = (overlapped \/ \E p \in Requests : pc[p] = "loaded")
     ELSE Goto(q, "refused") /\ UNCHANGED overlapped
  /\ UNCHANGED <<proposal, row, verdict, effect, audit, incident, creator, decided, faults>>

\* The decision is committed; the handler goes on unless the answer of the
\* database is lost to it.
SaveDecision(q) ==
  /\ pc[q] = "loaded"
  /\ row' = [status |-> Decision(q), by |-> q]
  /\ decided' = decided \cup {q}
  /\ \/ Goto(q, "saved") /\ UNCHANGED faults
     \/ Goto(q, "refused") /\ Fault
  /\ UNCHANGED <<proposal, verdict, effect, audit, incident, creator, overlapped>>

\* Mutated DecisionFails: a failed save is ignored like those of the executor.
DecisionFails_Ignored(q) ==
  /\ pc[q] = "loaded"
  /\ Fault
  /\ Goto(q, "saved")
  /\ UNCHANGED <<proposal, row, verdict, effect, audit, incident, creator, decided, overlapped>>

\* The environment cannot be read, or the decision cannot be saved.
DecisionFails(q) ==
  /\ pc[q] = "loaded"
  /\ Fault
  /\ Goto(q, "refused")
  /\ UNCHANGED <<proposal, row, verdict, effect, audit, incident, creator, decided, overlapped>>

\* The decision is audited and the request answered; an approval starts an
\* executor with the handler's copy of the row.
AuditDecision(q) ==
  /\ pc[q] = "saved"
  /\ Append(Decision(q), q, TRUE)
  /\ Goto(q, IF q \in Approvals THEN "starting" ELSE "done")
  /\ UNCHANGED <<proposal, row, verdict, effect, incident, creator, decided, overlapped>>

-----------------------------------------------------------------------------
(* executeApproved *)

StartExecution(q) ==
  /\ pc[q] = "starting"
  /\ SaveRow(q, "executing")
  /\ Goto(q, "calling")
  /\ UNCHANGED <<proposal, verdict, effect, audit, incident, creator, decided, overlapped>>

\* The tool is called for the target host, under a context that ends after two minutes.
CallTool(q) ==
  /\ pc[q] = "calling"
  /\ effect' = [effect EXCEPT ![q] = "outstanding"]
  /\ Goto(q, "running")
  /\ UNCHANGED <<proposal, row, verdict, audit, incident, creator, decided, overlapped, faults>>

\* The host restarts the target, or the call comes to nothing.  Neither has to
\* happen before the caller gives up on it, and a runner whose lease lapsed may carry
\* out what came to nothing.
HostActs(q) ==
  /\ effect[q] = "outstanding" \/ (effect[q] = "averted" /\ pc[q] # "hung")
  /\ effect' \in {[effect EXCEPT ![q] = "applied"], [effect EXCEPT ![q] = "averted"]}
  /\ UNCHANGED <<proposal, row, pc, verdict, audit, incident, creator, decided, overlapped, faults>>

\* Over SSH the host takes the connection and says nothing: the handshake and the
\* opening of a session look at no deadline and may wait forever.  The command,
\* the restart or its check, was not sent by then.
HostHangs(q) ==
  /\ \/ /\ pc[q] = "running" /\ effect[q] = "outstanding"
        /\ effect' = [effect EXCEPT ![q] = "averted"]
     \/ pc[q] = "verifying" /\ UNCHANGED effect
  /\ Goto(q, "hung")
  /\ UNCHANGED <<proposal, row, verdict, audit, incident, creator, decided, overlapped, faults>>

ToolSucceeds(q) ==
  /\ pc[q] = "running"
  /\ effect[q] = "applied"
  /\ Goto(q, "succeeded")
  /\ UNCHANGED <<proposal, row, verdict, effect, audit, incident, creator, decided, overlapped, faults>>

\* Mutated ToolFails: the executor goes on to verify what has failed.
ToolFails_GoesOn(q) ==
  /\ pc[q] = "running"
  /\ Goto(q, "succeeded")
  /\ verdict' = [verdict EXCEPT ![q] = "failed"]
  /\ UNCHANGED <<proposal, row, effect, audit, incident, creator, decided, overlapped, faults>>

\* An error, the two-minute limit among them, says nothing about the host.
ToolFails(q) ==
  /\ pc[q] = "running"
  /\ Goto(q, "erred")
  /\ verdict' = [verdict EXCEPT ![q] = "failed"]
  /\ UNCHANGED <<proposal, row, effect, audit, incident, creator, decided, overlapped, faults>>

\* Mutated RecordFailure: returns before the audit event.
RecordFailure_Unaudited(q) ==
  /\ pc[q] = "erred"
  /\ SaveRow(q, "failed")
  /\ Goto(q, "done")
  /\ UNCHANGED <<proposal, verdict, effect, audit, incident, creator, decided, overlapped>>

\* Mutated RecordFailure: only the audit trail learns of the failure.
RecordFailure_Unsaved(q) ==
  /\ pc[q] = "erred"
  /\ Goto(q, "auditing")
  /\ UNCHANGED <<proposal, row, verdict, effect, audit, incident, creator, decided, overlapped, faults>>

RecordFailure(q) ==
  /\ pc[q] = "erred"
  /\ SaveRow(q, "failed")
  /\ Goto(q, "auditing")
  /\ UNCHANGED <<proposal, verdict, effect, audit, incident, creator, decided, overlapped>>

\* Mutated BeginVerification: the row is saved as completed already.
BeginVerification_Completed(q) ==
  /\ pc[q] = "succeeded"
  /\ SaveRow(q, "completed")
  /\ Goto(q, "verifying")
  /\ UNCHANGED <<proposal, verdict, effect, audit, incident, creator, decided, overlapped>>

BeginVerification(q) ==
  /\ pc[q] = "succeeded"
  /\ SaveRow(q, "verifying")
  /\ Goto(q, "verifying")
  /\ UNCHANGED <<proposal, verdict, effect, audit, incident, creator, decided, overlapped>>

\* The target's state is read back; a failed reading counts as unhealthy.
Verify(q) ==
  /\ pc[q] = "verifying"
  /\ verdict' \in {[verdict EXCEPT ![q] = "healthy"], [verdict EXCEPT ![q] = "unhealthy"]}
  /\ Goto(q, "judged")
  /\ UNCHANGED <<proposal, row, effect, audit, incident, creator, decided, overlapped, faults>>

RecordVerdict(q) ==
  /\ pc[q] = "judged"
  /\ SaveRow(q, IF verdict[q] = "healthy" THEN "completed" ELSE "verification_failed")
  /\ Goto(q, "auditing")
  /\ UNCHANGED <<proposal, verdict, effect, audit, incident, creator, decided, overlapped>>

\* Mutated AuditExecution: the incident is taken up whatever the verdict was.
AuditExecution_AnyVerdict(q) ==
  /\ pc[q] = "auditing"
  /\ Append("executed", q, verdict[q] = "healthy")
  /\ Goto(q, IF incident # "unlinked" THEN "resolving" ELSE "done")
  /\ UNCHANGED <<proposal, row, verdict, effect, incident, creator, decided, overlapped>>

AuditExecution(q) ==
  /\ pc[q] = "auditing"
  /\ Append("executed", q, verdict[q] = "healthy")
  /\ Goto(q, IF verdict[q] = "healthy" /\ incident # "unlinked" THEN "resolving" ELSE "done")
  /\ UNCHANGED <<proposal, row, verdict, effect, incident, creator, decided, overlapped>>

LoadIncident(q) ==
  /\ pc[q] = "resolving"
  /\ \/ Goto(q, "storing") /\ UNCHANGED faults
     \/ Goto(q, "done") /\ Fault
  /\ UNCHANGED <<proposal, row, verdict, effect, audit, incident, creator, decided, overlapped>>

ResolveIncident(q) ==
  /\ pc[q] = "storing"
  /\ \/ incident' = "resolved" /\ UNCHANGED faults
     \/ Fault /\ UNCHANGED incident
  /\ Goto(q, "done")
  /\ UNCHANGED <<proposal, row, verdict, effect, audit, creator, decided, overlapped>>

-----------------------------------------------------------------------------
(* The incident's own creation, and crashes of the control plane *)

\* Create has saved the incident and waits for the incident memory.  If that
\* fails, Create saves its own copy, which is not resolved, once more.
CreateEnds ==
  /\ creator = "remembering"
  /\ creator' = "done"
  /\ incident' \in {incident, "open"}
  /\ UNCHANGED <<proposal, row, pc, verdict, effect, audit, decided, overlapped, faults>>

Ended(q) == pc[q] \in {"idle", "done", "refused", "lost"}

\* Handlers and executors die with the process; nothing resumes them.
Crash ==
  /\ Fault
  /\ pc' = [q \in Requests |-> IF Ended(q) THEN pc[q] ELSE "lost"]
  /\ proposal' = IF proposal = "saved" THEN "done" ELSE proposal
  /\ creator' = "done"
  /\ UNCHANGED <<row, verdict, effect, audit, incident, decided, overlapped>>

-----------------------------------------------------------------------------
Execute(q) ==
  \/ StartExecution(q) \/ CallTool(q) \/ ToolSucceeds(q) \/ ToolFails(q) \/ RecordFailure(q)
  \/ BeginVerification(q) \/ Verify(q) \/ RecordVerdict(q) \/ AuditExecution(q)
  \/ LoadIncident(q) \/ ResolveIncident(q)

Decide(q) == Load(q) \/ SaveDecision(q) \/ DecisionFails(q) \/ AuditDecision(q)

Next ==
  \/ Propose \/ ProposeAudit \/ CreateEnds \/ Crash
  \/ \E q \in Requests : Decide(q) \/ Execute(q) \/ HostActs(q) \/ HostHangs(q)

Spec == Init /\ [][Next]_vars

(* A handler or executor that has begun keeps going.  A tool call that looks at its
   context ends, at the latest with an error after two minutes; one that hangs before it
   does is HostHangs, which ends this executor's steps.  The host owes nothing. *)
Fairness ==
  \A q \in Requests :
    /\ WF_vars(SaveDecision(q) \/ DecisionFails(q) \/ AuditDecision(q))
    /\ WF_vars(Execute(q))

FairSpec == Spec /\ Fairness

-----------------------------------------------------------------------------
(* Properties *)

Final == {"rejected", "completed", "verification_failed", "failed"}
Rank(status) ==
  CASE status = "absent" -> 0
    [] status = "pending_approval" -> 1
    [] status = "approved" -> 2
    [] status = "executing" -> 3
    [] status = "verifying" -> 4
    [] OTHER -> 5

\* Nothing is ever asked of the target host without an approval by an owner
\* that is on record, and neither a failed save, a lost answer nor a crash at
\* any point of Approve gets around that.
MutationNeedsApproval ==
  \A q \in Requests :
    effect[q] # "none" => q \in Approvals \cap ByOwners \cap decided

\* The status check of Approve and Reject makes decisions exclusive as long as
\* no two requests hold the pending row at once: then at most one decision is
\* ever committed, so a rejected action never runs and none runs twice.
DecidedOnce ==
  ~ overlapped => \A p, q \in decided : p = q

\* The stored row tells the truth about the request that wrote it last, even
\* when executors and handlers overwrite each other's copies and some of their
\* saves fail: who decided it, and how far the tool got.
RowTellsOutcome ==
  LET q == row.by IN
  /\ row.status \notin {"absent", "pending_approval"} => q \in ByOwners \cap decided
  /\ row.status = "rejected" => q \in Rejections
  /\ row.status \in {"approved", "executing"} => q \in Approvals
  /\ row.status = "failed" => effect[q] # "none"
  /\ row.status \in {"verifying", "verification_failed", "completed"} => effect[q] = "applied"
  /\ row.status = "failed" => verdict[q] = "failed"
  /\ row.status = "verification_failed" => verdict[q] = "unhealthy"
  /\ row.status = "completed" => verdict[q] = "healthy"

\* An incident is resolved only on the word of an executor whose restart took
\* place and whose verification found the target healthy.
ResolvedNeedsHealthy ==
  incident = "resolved" =>
    \E q \in Approvals : verdict[q] = "healthy" /\ effect[q] = "applied"

\* What is stored of an execution, in the action's row and in its incident, never says
\* more than came of it, although both are overwritten by others and by stale copies.
RecordsTellOutcome == RowTellsOutcome /\ ResolvedNeedsHealthy

Audited(type, q) == \E e \in audit : e.type = type /\ e.by = q

\* With a database that answers and no crash, every decision that was answered
\* and every execution that came to its end has left its audit event, on the
\* early return of a failed tool call too.
AuditIsComplete ==
  faults = 0 =>
    \A q \in Requests : pc[q] = "done" =>
      /\ Audited(Decision(q), q)
      /\ q \in Approvals => Audited("executed", q)

\* The audit trail never claims more than happened: a decision that was not
\* committed, an execution that never started, or a success that no
\* verification found.
AuditIsTrue ==
  \A e \in audit :
    /\ e.type # "proposed" => e.by \in decided
    /\ e.type = "executed" => effect[e.by] # "none"
    /\ e.type = "executed" /\ e.success => verdict[e.by] = "healthy" /\ effect[e.by] = "applied"

\* "Proposals, approvals and execution results are persisted in the audit trail":
\* what happened is in it while the database answers, and nothing else ever is.
AuditTrail == AuditIsComplete /\ AuditIsTrue

\* Without overlapping decisions the row only moves forward and a final status
\* is never left, although no Save looks at what it overwrites.
StagesAdvance ==
  [][~ overlapped' => row' = row \/ Rank(row.status) < Rank(row'.status)]_vars

\* Unless a fault strikes or a host leaves its executor hanging, an action that was
\* approved or is being executed reaches a final status, over whatever other requests and
\* executors save.
ApprovedFinishes ==
  row.status \in {"approved", "executing", "verifying"} ~>
    row.status \in Final \/ faults > 0 \/ \E q \in Requests : pc[q] = "hung"

-----------------------------------------------------------------------------
(* A request is an execution of its own: that of a rejection is never begun. *)

Executor == INSTANCE Remediation WITH Actions <- Requests, host <- effect

\* Whatever requests race, whichever saves fail and wherever the control plane stops,
\* an executor asks the host once, before its verdict, which it gives at most once and
\* never on a restart that did not take place.
ImplementsRemediation == Executor!Spec

-----------------------------------------------------------------------------
(* The inductive invariant behind the safety properties. *)

Executing == {"starting", "calling", "running", "hung", "erred", "succeeded", "verifying",
              "judged", "auditing", "resolving", "storing"}

\* Only decided requests of owners get past their save, and only approvals
\* get on to an executor.
PlacesAreEarned ==
  /\ decided \subseteq ByOwners
  /\ \A q \in Requests :
       /\ pc[q] = "loaded" => q \in ByOwners
       /\ pc[q] \in Executing \cup {"saved", "done"} => q \in decided
       /\ pc[q] \in Executing => q \in Approvals

\* How far an executor is decides what is known of its tool call.
EffectsFollowPlaces ==
  \A q \in Requests :
    /\ pc[q] \in {"idle", "loaded", "saved", "starting", "calling"} => effect[q] = "none"
    /\ pc[q] \in Executing \ {"starting", "calling"} => effect[q] # "none"
    /\ pc[q] \in {"succeeded", "verifying", "judged"} => effect[q] = "applied"
    /\ verdict[q] \in {"healthy", "unhealthy"} => effect[q] = "applied"

VerdictsFollowPlaces ==
  \A q \in Requests :
    /\ pc[q] \in {"idle", "loaded", "saved", "starting", "calling", "running", "hung",
                  "succeeded", "verifying"} => verdict[q] = "none"
    /\ pc[q] = "erred" => verdict[q] = "failed"
    /\ pc[q] = "judged" => verdict[q] \in {"healthy", "unhealthy"}
    /\ pc[q] \in {"resolving", "storing"} => verdict[q] = "healthy"

\* The row an executor wrote last is not ahead of it.
RowIsBehind ==
  \A q \in Requests : row.by = q =>
    /\ pc[q] = "saved" => row.status = Decision(q)
    /\ pc[q] = "starting" => row.status = "approved"
    /\ pc[q] \in {"calling", "running", "erred", "succeeded"} =>
         row.status \in {"approved", "executing"}
    /\ pc[q] \in {"verifying", "judged"} =>
         row.status \in {"approved", "executing", "verifying"}

\* The row is pending exactly until the first decision is committed, and
\* without an overlap the request that holds it is alone with it.
PendingIsUndecided ==
  /\ proposal = "none" <=> row.status = "absent"
  /\ \A q \in Requests : pc[q] = "loaded" => proposal # "none"
  /\ row.status \in {"absent", "pending_approval"} <=> decided = {}
  /\ ~ overlapped =>
       \A q \in Requests : pc[q] = "loaded" =>
         decided = {} /\ \A p \in Requests : pc[p] = "loaded" => p = q

\* What the row, the handlers, the executors and the host agree on between any
\* two steps, however many of them are under way.
IInv ==
  /\ TypeOK
  /\ PlacesAreEarned
  /\ EffectsFollowPlaces
  /\ VerdictsFollowPlaces
  /\ RowIsBehind
  /\ PendingIsUndecided
  /\ MutationNeedsApproval
  /\ DecidedOnce
  /\ RowTellsOutcome
  /\ ResolvedNeedsHealthy
  /\ AuditIsTrue

-----------------------------------------------------------------------------
(* What the tests and the documentation say, and concurrency or a fault refutes. *)

\* "TestRejectedActionNeverExecutes...": once Reject has reported success, the
\* action is never executed.
RejectedNeverExecutes ==
  \A p \in Rejections, q \in Approvals : pc[p] = "done" => effect[q] # "applied"

\* "Proposals, approvals and execution results are persisted in the audit
\* trail": an execution that took effect and came to its end is on record.
ExecutionsAudited ==
  \A q \in Approvals : effect[q] = "applied" /\ pc[q] = "done" => Audited("executed", q)

=============================================================================
