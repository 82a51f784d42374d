----------------------- MODULE ActionLifecycle_proofs -----------------------
(***************************************************************************)
(* Proofs about ActionLifecycle, for any set of Approve and Reject         *)
(* requests, owners and members, and any number of faults.                 *)
(***************************************************************************)
EXTENDS ActionLifecycle, TLAPS

-----------------------------------------------------------------------------
(* Type correctness *)

LEMMA FaultType == ASSUME faults \in 0 .. MaxFaults, Fault \/ UNCHANGED faults
                   PROVE  faults' \in 0 .. MaxFaults
BY FaultsAssumption DEF Fault

LEMMA GotoType ==
  ASSUME TypeOK, NEW q \in Requests, NEW place \in Places, Goto(q, place)
  PROVE  pc' \in [Requests -> Places]
BY DEF TypeOK, Goto

LEMMA SaveRowType ==
  ASSUME TypeOK, NEW q \in Requests, NEW status \in Statuses, SaveRow(q, status)
  PROVE  /\ row' \in [status : Statuses, by : Requests \cup {Nobody}]
         /\ faults' \in 0 .. MaxFaults
BY FaultType DEF TypeOK, SaveRow

LEMMA AppendType ==
  ASSUME TypeOK, NEW q \in Requests \cup {Nobody}, NEW success \in BOOLEAN,
         NEW type \in {"proposed", "approved", "rejected", "executed"},
         Append(type, q, success)
  PROVE  audit' \subseteq Event /\ faults' \in 0 .. MaxFaults
<1>1. [type |-> type, by |-> q, success |-> success] \in Event
  BY DEF Event
<1>. QED BY <1>1, FaultType DEF TypeOK, Append

LEMMA InitType == Init => TypeOK
<1>. SUFFICES ASSUME Init PROVE TypeOK
  OBVIOUS
<1>1. row \in [status : Statuses, by : Requests \cup {Nobody}]
  BY DEF Init, Statuses
<1>2. /\ pc \in [Requests -> Places]
      /\ verdict \in [Requests -> {"none", "failed", "healthy", "unhealthy"}]
      /\ effect \in [Requests -> {"none", "outstanding", "applied", "averted"}]
  BY DEF Init, Places
<1>3. incident \in {"unlinked", "open", "resolved"} /\ creator \in {"remembering", "done"}
  BY DEF Init
<1>4. overlapped \in BOOLEAN /\ audit \subseteq Event /\ decided \subseteq Requests
  BY Zenon DEF Init
<1>5. faults \in 0 .. MaxFaults /\ proposal \in {"none", "saved", "done"}
  BY FaultsAssumption DEF Init
<1>. QED BY <1>1, <1>2, <1>3, <1>4, <1>5 DEF TypeOK

LEMMA NextType == ASSUME TypeOK, [Next]_vars PROVE TypeOK'
<1>1. CASE Propose
  BY <1>1 DEF TypeOK, Propose, Statuses
<1>2. CASE ProposeAudit
  BY <1>2, AppendType DEF TypeOK, ProposeAudit
<1>3. CASE CreateEnds
  BY <1>3 DEF TypeOK, CreateEnds
<1>4. CASE Crash
  BY <1>4, FaultType DEF TypeOK, Crash, Places
<1>5. ASSUME NEW q \in Requests, Decide(q) PROVE TypeOK'
  <2>1. CASE Load(q)
    BY <2>1, GotoType DEF TypeOK, Load, Places
  <2>2. CASE SaveDecision(q)
    BY <2>2, GotoType, FaultType DEF TypeOK, SaveDecision, Decision, Statuses, Places
  <2>3. CASE DecisionFails(q)
    BY <2>3, GotoType, FaultType DEF TypeOK, DecisionFails, Places
  <2>4. CASE AuditDecision(q)
    <3>1. Decision(q) \in {"approved", "rejected"}
      BY DEF Decision
    <3>2. (IF q \in Approvals THEN "starting" ELSE "done") \in Places
      BY DEF Places
    <3>. QED BY <2>4, <3>1, <3>2, GotoType, AppendType DEF TypeOK, AuditDecision
  <2>. QED BY <1>5, <2>1, <2>2, <2>3, <2>4 DEF Decide
<1>6. ASSUME NEW q \in Requests, Execute(q) PROVE TypeOK'
  <2>1. CASE StartExecution(q)
    BY <2>1, GotoType, SaveRowType DEF TypeOK, StartExecution, Places, Statuses
  <2>11. CASE CallTool(q)
    BY <2>11, GotoType DEF TypeOK, CallTool, Places
  <2>2. CASE ToolSucceeds(q)
    BY <2>2, GotoType DEF TypeOK, ToolSucceeds, Places
  <2>3. CASE ToolFails(q)
    BY <2>3, GotoType DEF TypeOK, ToolFails, Places
  <2>4. CASE RecordFailure(q)
    BY <2>4, GotoType, SaveRowType DEF TypeOK, RecordFailure, Places, Statuses
  <2>5. CASE BeginVerification(q)
    BY <2>5, GotoType, SaveRowType DEF TypeOK, BeginVerification, Places, Statuses
  <2>6. CASE Verify(q)
    BY <2>6, GotoType DEF TypeOK, Verify, Places
  <2>7. CASE RecordVerdict(q)
    <3>1. (IF verdict[q] = "healthy" THEN "completed" ELSE "verification_failed") \in Statuses
      BY DEF Statuses
    <3>. QED BY <2>7, <3>1, GotoType, SaveRowType DEF TypeOK, RecordVerdict, Places
  <2>8. CASE AuditExecution(q)
    <3>1. (IF verdict[q] = "healthy" /\ incident # "unlinked" THEN "resolving" ELSE "done")
            \in Places
      BY DEF Places
    <3>. QED BY <2>8, <3>1, GotoType, AppendType DEF TypeOK, AuditExecution
  <2>9. CASE LoadIncident(q)
    BY <2>9, GotoType, FaultType DEF TypeOK, LoadIncident, Places
  <2>10. CASE ResolveIncident(q)
    BY <2>10, GotoType, FaultType DEF TypeOK, ResolveIncident, Places
  <2>. QED
    BY <1>6, <2>1, <2>2, <2>3, <2>4, <2>5, <2>6, <2>7, <2>8, <2>9, <2>10, <2>11 DEF Execute
<1>7. ASSUME NEW q \in Requests, HostActs(q) PROVE TypeOK'
  BY <1>7 DEF TypeOK, HostActs
<1>9. ASSUME NEW q \in Requests, HostHangs(q) PROVE TypeOK'
  <2>1. effect' \in [Requests -> {"none", "outstanding", "applied", "averted"}]
    BY <1>9 DEF TypeOK, HostHangs
  <2>2. pc' \in [Requests -> Places]
    BY <1>9, GotoType DEF HostHangs, Places
  <2>. QED BY <1>9, <2>1, <2>2 DEF TypeOK, HostHangs
<1>8. CASE UNCHANGED vars
  BY <1>8 DEF TypeOK, vars
<1>. QED BY <1>1, <1>2, <1>3, <1>4, <1>5, <1>6, <1>7, <1>8, <1>9 DEF Next

\* Every variable keeps its type.
THEOREM TypeCorrect == Spec => []TypeOK
BY InitType, NextType, PTL DEF Spec

-----------------------------------------------------------------------------
(* Where a request is, what became of its tool call, and its verdict *)

Linked == PlacesAreEarned /\ EffectsFollowPlaces /\ VerdictsFollowPlaces

\* A step of the requests that leaves the host and the verdicts alone.
LEMMA QuietPlaces ==
  ASSUME TypeOK, Linked, NEW q \in Requests, NEW place \in Places, Goto(q, place),
         UNCHANGED <<effect, verdict, decided>>,
         place = "loaded" => q \in ByOwners,
         place \in Executing \cup {"saved", "done"} => q \in decided,
         place \in Executing => q \in Approvals,
         place \in {"idle", "loaded", "saved", "starting", "calling"} => effect[q] = "none",
         place \in Executing \ {"starting", "calling"} => effect[q] # "none",
         place \in {"succeeded", "verifying", "judged"} => effect[q] = "applied",
         place \in {"idle", "loaded", "saved", "starting", "calling", "running", "hung",
                   "succeeded", "verifying"} => verdict[q] = "none",
         place = "erred" => verdict[q] = "failed",
         place = "judged" => verdict[q] \in {"healthy", "unhealthy"},
         place \in {"resolving", "storing"} => verdict[q] = "healthy"
  PROVE  Linked'
<1>1. /\ pc'[q] = place
      /\ \A p \in Requests : p # q => pc'[p] = pc[p]
  BY DEF TypeOK, Goto
<1>2. PlacesAreEarned'
  BY <1>1 DEF Linked, PlacesAreEarned
<1>3. EffectsFollowPlaces'
  BY <1>1 DEF Linked, EffectsFollowPlaces
<1>4. VerdictsFollowPlaces'
  BY <1>1 DEF Linked, VerdictsFollowPlaces
<1>. QED BY <1>2, <1>3, <1>4 DEF Linked

LEMMA NextLinked == ASSUME TypeOK, Linked, [Next]_vars PROVE Linked'
<1>. USE DEF Linked, PlacesAreEarned, EffectsFollowPlaces, VerdictsFollowPlaces, Executing
<1>1. CASE Propose \/ ProposeAudit \/ CreateEnds \/ UNCHANGED vars
  BY <1>1 DEF Propose, ProposeAudit, CreateEnds, vars
<1>2. CASE Crash
  BY <1>2 DEF TypeOK, Crash, Ended
<1>3. ASSUME NEW q \in Requests, Decide(q) PROVE Linked'
  <2>1. CASE Load(q)
    BY <1>3, <2>1, QuietPlaces DEF Load, Places
  <2>2. CASE SaveDecision(q)
    BY <2>2 DEF TypeOK, SaveDecision, Goto
  <2>3. CASE DecisionFails(q)
    BY <2>3, QuietPlaces DEF DecisionFails, Places
  <2>4. CASE AuditDecision(q)
    BY <2>4, QuietPlaces DEF AuditDecision, Places
  <2>. QED BY <1>3, <2>1, <2>2, <2>3, <2>4 DEF Decide
<1>4. ASSUME NEW q \in Requests, Execute(q) PROVE Linked'
  <2>1. CASE StartExecution(q)
    BY <2>1, QuietPlaces DEF StartExecution, Places
  <2>11. CASE CallTool(q)
    BY <2>11 DEF TypeOK, CallTool, Goto
  <2>2. CASE ToolSucceeds(q)
    BY <2>2, QuietPlaces DEF ToolSucceeds, Places
  <2>3. CASE ToolFails(q)
    BY <2>3 DEF TypeOK, ToolFails, Goto
  <2>4. CASE RecordFailure(q)
    BY <2>4, QuietPlaces DEF RecordFailure, Places
  <2>5. CASE BeginVerification(q)
    BY <2>5, QuietPlaces DEF BeginVerification, Places
  <2>6. CASE Verify(q)
    BY <2>6 DEF TypeOK, Verify, Goto
  <2>7. CASE RecordVerdict(q)
    BY <2>7, QuietPlaces DEF RecordVerdict, Places
  <2>8. CASE AuditExecution(q)
    BY <2>8, QuietPlaces DEF AuditExecution, Places
  <2>9. CASE LoadIncident(q)
    BY <2>9, QuietPlaces DEF LoadIncident, Places
  <2>10. CASE ResolveIncident(q)
    BY <2>10, QuietPlaces DEF ResolveIncident, Places
  <2>. QED
    BY <1>4, <2>1, <2>2, <2>3, <2>4, <2>5, <2>6, <2>7, <2>8, <2>9, <2>10, <2>11 DEF Execute
<1>5. ASSUME NEW q \in Requests, HostActs(q) PROVE Linked'
  BY <1>5 DEF TypeOK, HostActs
<1>6. ASSUME NEW q \in Requests, HostHangs(q) PROVE Linked'
  BY <1>6 DEF TypeOK, HostHangs, Goto
<1>. QED BY <1>1, <1>2, <1>3, <1>4, <1>5, <1>6 DEF Next

-----------------------------------------------------------------------------
(* The stored row *)

RowIsTrue == RowTellsOutcome /\ RowIsBehind

\* A step that leaves the row alone keeps it true if nothing known of a tool
\* call is taken back and its request gets no further than the row allows.
LEMMA QuietRow ==
  ASSUME TypeOK, RowIsTrue, decided \subseteq decided',
         UNCHANGED row,
         \A q \in Requests :
           /\ effect[q] # "none" => effect'[q] # "none"
           /\ effect[q] = "applied" => effect'[q] = "applied"
           /\ verdict[q] # "none" => verdict'[q] = verdict[q]
           /\ row.by = q /\ pc'[q] = "saved" => row.status = Decision(q)
           /\ row.by = q /\ pc'[q] = "starting" => row.status = "approved"
           /\ row.by = q /\ pc'[q] \in {"calling", "running", "erred", "succeeded"} =>
                row.status \in {"approved", "executing"}
           /\ row.by = q /\ pc'[q] \in {"verifying", "judged"} =>
                row.status \in {"approved", "executing", "verifying"}
  PROVE  RowIsTrue'
<1>1. RowIsBehind'
  BY DEF RowIsBehind, Decision
<1>2. RowTellsOutcome'
  <2>1. CASE row.status \in {"absent", "pending_approval"}
    BY <2>1 DEF RowTellsOutcome
  <2>2. CASE row.status \notin {"absent", "pending_approval"}
    <3>1. row.by \in Requests /\ row.by \in ByOwners \cap decided
      BY <2>2, RequestsAssumption DEF RowIsTrue, RowTellsOutcome
    <3>. QED BY <2>2, <3>1 DEF RowIsTrue, RowTellsOutcome
  <2>. QED BY <2>1, <2>2
<1>. QED BY <1>1, <1>2 DEF RowIsTrue

LEMMA NextRowIsTrue == ASSUME TypeOK, Linked, RowIsTrue, PendingIsUndecided, [Next]_vars
                       PROVE  RowIsTrue'
<1>1. CASE Propose
  BY <1>1, RequestsAssumption DEF Propose, RowIsTrue, RowTellsOutcome, RowIsBehind
<1>2. CASE ProposeAudit \/ CreateEnds \/ UNCHANGED vars
  BY <1>2 DEF ProposeAudit, CreateEnds, vars, RowIsTrue, RowTellsOutcome, RowIsBehind
<1>3. CASE Crash
  BY <1>3, QuietRow DEF Crash, Ended, RowIsTrue, RowIsBehind, TypeOK
<1>4. ASSUME NEW q \in Requests, Decide(q) PROVE RowIsTrue'
  <2>1. CASE Load(q)
    BY <2>1, QuietRow DEF Load, Goto, RowIsTrue, RowIsBehind, TypeOK
  <2>2. CASE SaveDecision(q)
    <3>1. row' = [status |-> Decision(q), by |-> q] /\ pc'[q] \in {"saved", "refused"}
      BY <2>2 DEF SaveDecision, Goto, TypeOK
    <3>2. q \in ByOwners \cap decided'
      BY <2>2 DEF SaveDecision, Linked, PlacesAreEarned
    <3>3. \/ q \in Approvals /\ Decision(q) = "approved"
          \/ q \in Rejections /\ Decision(q) = "rejected"
      BY DEF Decision, Requests
    <3>. QED BY <3>1, <3>2, <3>3 DEF RowIsTrue, RowTellsOutcome, RowIsBehind
  <2>3. CASE DecisionFails(q)
    BY <2>3, QuietRow DEF DecisionFails, Goto, RowIsTrue, RowIsBehind, TypeOK
  <2>4. CASE AuditDecision(q)
    <3>1. row.by = q /\ q \in Approvals => row.status = "approved"
      BY <2>4 DEF AuditDecision, RowIsTrue, RowIsBehind, Decision
    <3>. QED BY <2>4, <3>1, QuietRow DEF AuditDecision, Goto, RowIsTrue, RowIsBehind, TypeOK
  <2>. QED BY <1>4, <2>1, <2>2, <2>3, <2>4 DEF Decide
<1>5. ASSUME NEW q \in Requests, Execute(q) PROVE RowIsTrue'
  <2>. USE DEF Linked, PlacesAreEarned, EffectsFollowPlaces, VerdictsFollowPlaces,
               Executing, Goto, TypeOK
  <2>1. CASE StartExecution(q)
    <3>1. row.by = q => row.status = "approved"
      BY <2>1 DEF StartExecution, RowIsTrue, RowIsBehind
    <3>2. CASE UNCHANGED row
      BY <2>1, <3>1, <3>2, QuietRow DEF StartExecution, RowIsTrue, RowIsBehind
    <3>3. CASE row' = [status |-> "executing", by |-> q]
      BY <2>1, <3>3 DEF StartExecution, RowIsTrue, RowTellsOutcome, RowIsBehind
    <3>. QED BY <2>1, <3>2, <3>3 DEF StartExecution, SaveRow
  <2>11. CASE CallTool(q)
    BY <2>11, QuietRow DEF CallTool, RowIsTrue, RowIsBehind
  <2>2. CASE ToolSucceeds(q)
    BY <2>2, QuietRow DEF ToolSucceeds, RowIsTrue, RowIsBehind
  <2>3. CASE ToolFails(q)
    BY <2>3, QuietRow DEF ToolFails, RowIsTrue, RowIsBehind
  <2>4. CASE RecordFailure(q)
    BY <2>4 DEF RecordFailure, SaveRow, RowIsTrue, RowTellsOutcome, RowIsBehind
  <2>5. CASE BeginVerification(q)
    BY <2>5 DEF BeginVerification, SaveRow, RowIsTrue, RowTellsOutcome, RowIsBehind
  <2>6. CASE Verify(q)
    BY <2>6, QuietRow DEF Verify, RowIsTrue, RowIsBehind
  <2>7. CASE RecordVerdict(q)
    BY <2>7 DEF RecordVerdict, SaveRow, RowIsTrue, RowTellsOutcome, RowIsBehind
  <2>8. CASE AuditExecution(q)
    BY <2>8, QuietRow DEF AuditExecution, RowIsTrue, RowIsBehind
  <2>9. CASE LoadIncident(q)
    BY <2>9, QuietRow DEF LoadIncident, RowIsTrue, RowIsBehind
  <2>10. CASE ResolveIncident(q)
    BY <2>10, QuietRow DEF ResolveIncident, RowIsTrue, RowIsBehind
  <2>. QED
    BY <1>5, <2>1, <2>2, <2>3, <2>4, <2>5, <2>6, <2>7, <2>8, <2>9, <2>10, <2>11 DEF Execute
<1>6. ASSUME NEW q \in Requests, HostActs(q) PROVE RowIsTrue'
  BY <1>6, QuietRow DEF HostActs, RowIsTrue, RowIsBehind, TypeOK
<1>7. ASSUME NEW q \in Requests, HostHangs(q) PROVE RowIsTrue'
  BY <1>7, QuietRow DEF HostHangs, Goto, RowIsTrue, RowIsBehind, TypeOK
<1>. QED BY <1>1, <1>2, <1>3, <1>4, <1>5, <1>6, <1>7 DEF Next

-----------------------------------------------------------------------------
(* Decisions *)

\* While the row is pending nothing is decided, and without an overlap at most
\* one request holds it.
LEMMA NextDecisions ==
  ASSUME TypeOK, Linked, RowIsTrue, PendingIsUndecided, DecidedOnce, [Next]_vars
  PROVE  PendingIsUndecided' /\ DecidedOnce'
<1>. USE DEF PendingIsUndecided, DecidedOnce
<1>1. CASE Propose
  BY <1>1 DEF Propose
<1>2. CASE ProposeAudit
  BY <1>2 DEF ProposeAudit
<1>3. CASE Crash
  BY <1>3 DEF Crash, Ended, TypeOK
<1>4. ASSUME NEW q \in Requests, Load(q) PROVE PendingIsUndecided' /\ DecidedOnce'
  <2>1. CASE Goto(q, "loaded") /\ row.status = "pending_approval"
    <3>1. ~ overlapped' => ~ overlapped /\ \A p \in Requests : pc[p] # "loaded"
      <4>1. pc' # [pc EXCEPT ![q] = "refused"]
        BY <2>1 DEF Goto, TypeOK
      <4>. QED BY <1>4, <4>1, Zenon DEF Load, Goto
    <3>2. decided = {} /\ UNCHANGED <<proposal, row, decided>>
      BY <1>4, <2>1 DEF Load
    <3>3. \A p \in Requests : pc'[p] = IF p = q THEN "loaded" ELSE pc[p]
      BY <2>1 DEF Goto, TypeOK
    <3>. QED BY <2>1, <3>1, <3>2, <3>3
  <2>2. CASE Goto(q, "refused") /\ UNCHANGED overlapped
    BY <1>4, <2>2 DEF Load, Goto, TypeOK
  <2>. QED BY <1>4, <2>1, <2>2 DEF Load
<1>5. ASSUME NEW q \in Requests, SaveDecision(q) PROVE PendingIsUndecided' /\ DecidedOnce'
  <2>1. /\ row'.status \in {"approved", "rejected"}
        /\ decided' = decided \cup {q}
        /\ UNCHANGED <<proposal, overlapped>>
        /\ \A p \in Requests : pc'[p] = "loaded" => pc[p] = "loaded" /\ p # q
    BY <1>5 DEF SaveDecision, Decision, Goto, TypeOK
  <2>2. proposal # "none"
    BY <1>5 DEF SaveDecision
  <2>. QED BY <1>5, <2>1, <2>2 DEF SaveDecision
<1>6. ASSUME NEW q \in Requests,
             DecisionFails(q) \/ AuditDecision(q) \/ CallTool(q) \/ HostHangs(q)
               \/ ToolSucceeds(q) \/ ToolFails(q) \/ Verify(q) \/ AuditExecution(q)
               \/ LoadIncident(q) \/ ResolveIncident(q)
      PROVE  PendingIsUndecided' /\ DecidedOnce'
  <2>1. UNCHANGED <<proposal, row, decided, overlapped>>
    BY <1>6
    DEF DecisionFails, AuditDecision, CallTool, HostHangs, ToolSucceeds, ToolFails, Verify,
        AuditExecution, LoadIncident, ResolveIncident
  <2>2. \A p \in Requests : pc'[p] = "loaded" => pc[p] = "loaded"
    BY <1>6
    DEF DecisionFails, AuditDecision, CallTool, HostHangs, ToolSucceeds, ToolFails, Verify,
        AuditExecution, LoadIncident, ResolveIncident, Goto, TypeOK
  <2>. QED BY <2>1, <2>2
<1>7. ASSUME NEW q \in Requests,
             StartExecution(q) \/ RecordFailure(q) \/ BeginVerification(q) \/ RecordVerdict(q)
      PROVE  PendingIsUndecided' /\ DecidedOnce'
  <2>1. decided # {} /\ UNCHANGED <<proposal, decided, overlapped>>
    BY <1>7
    DEF StartExecution, RecordFailure, BeginVerification, RecordVerdict,
        Linked, PlacesAreEarned, Executing
  <2>2. \A p \in Requests : pc'[p] = "loaded" => pc[p] = "loaded"
    BY <1>7
    DEF StartExecution, RecordFailure, BeginVerification, RecordVerdict, Goto, TypeOK
  <2>3. row' = row \/ row'.status \notin {"absent", "pending_approval"}
    BY <1>7
    DEF StartExecution, RecordFailure, BeginVerification, RecordVerdict, SaveRow
  <2>. QED BY <2>1, <2>2, <2>3
<1>8. CASE CreateEnds \/ (\E q \in Requests : HostActs(q)) \/ UNCHANGED vars
  BY <1>8 DEF CreateEnds, HostActs, vars
<1>. QED
  BY <1>1, <1>2, <1>3, <1>4, <1>5, <1>6, <1>7, <1>8 DEF Next, Decide, Execute

-----------------------------------------------------------------------------
(* What is known stays known *)

Grows ==
  /\ decided \subseteq decided'
  /\ \A q \in Requests :
       /\ effect[q] # "none" => effect'[q] # "none"
       /\ effect[q] = "applied" => effect'[q] = "applied"
       /\ verdict[q] # "none" => verdict'[q] = verdict[q]

LEMMA NextGrows == ASSUME TypeOK, Linked, [Next]_vars PROVE Grows
<1>1. CASE UNCHANGED <<decided, effect, verdict>>
  BY <1>1 DEF Grows
<1>2. ASSUME NEW q \in Requests, CallTool(q) \/ HostActs(q) \/ HostHangs(q) PROVE Grows
  BY <1>2 DEF CallTool, HostActs, HostHangs, Grows, TypeOK, Linked, EffectsFollowPlaces
<1>3. ASSUME NEW q \in Requests, ToolFails(q) \/ Verify(q) PROVE Grows
  BY <1>3 DEF ToolFails, Verify, Grows, TypeOK, Linked, VerdictsFollowPlaces
<1>4. ASSUME NEW q \in Requests, SaveDecision(q) PROVE Grows
  BY <1>4 DEF SaveDecision, Grows
<1>. QED
  BY <1>1, <1>2, <1>3, <1>4
  DEF Next, vars, Propose, ProposeAudit, CreateEnds, Crash, Decide, Load, DecisionFails,
      AuditDecision, Execute, StartExecution, ToolSucceeds, RecordFailure, BeginVerification,
      RecordVerdict, AuditExecution, LoadIncident, ResolveIncident

LEMMA NextMutation ==
  ASSUME TypeOK, Linked, MutationNeedsApproval, [Next]_vars
  PROVE  MutationNeedsApproval'
<1>1. CASE UNCHANGED effect
  BY <1>1, NextGrows DEF MutationNeedsApproval, Grows
<1>2. ASSUME NEW q \in Requests, CallTool(q) PROVE MutationNeedsApproval'
  BY <1>2
  DEF CallTool, MutationNeedsApproval, TypeOK, Linked, PlacesAreEarned, Executing
<1>3. ASSUME NEW q \in Requests, HostActs(q) \/ HostHangs(q) PROVE MutationNeedsApproval'
  BY <1>3 DEF HostActs, HostHangs, MutationNeedsApproval, TypeOK
<1>. QED
  BY <1>1, <1>2, <1>3
  DEF Next, vars, Propose, ProposeAudit, CreateEnds, Crash, Decide, Load, SaveDecision,
      DecisionFails, AuditDecision, Execute, StartExecution, ToolSucceeds, ToolFails,
      RecordFailure, BeginVerification, Verify, RecordVerdict, AuditExecution, LoadIncident,
      ResolveIncident

LEMMA NextResolved ==
  ASSUME TypeOK, Linked, ResolvedNeedsHealthy, [Next]_vars
  PROVE  ResolvedNeedsHealthy'
<1>1. CASE incident' = "resolved" => incident = "resolved"
  BY <1>1, NextGrows, RequestsAssumption DEF ResolvedNeedsHealthy, Grows, Requests
<1>2. ASSUME NEW q \in Requests, ResolveIncident(q) PROVE ResolvedNeedsHealthy'
  BY <1>2
  DEF ResolveIncident, ResolvedNeedsHealthy, Linked, PlacesAreEarned, EffectsFollowPlaces,
      VerdictsFollowPlaces, Executing
<1>. QED
  BY <1>1, <1>2
  DEF Next, vars, Propose, ProposeAudit, CreateEnds, Crash, Decide, Load, SaveDecision,
      DecisionFails, AuditDecision, Execute, StartExecution, CallTool, HostHangs,
      ToolSucceeds, ToolFails, RecordFailure, BeginVerification, Verify, RecordVerdict,
      AuditExecution, LoadIncident, HostActs

\* An event appended by a step is true of the state it is appended in.
LEMMA AppendIsTrue ==
  ASSUME TypeOK, AuditIsTrue, Grows, NEW q \in Requests, NEW success \in BOOLEAN,
         NEW type \in {"approved", "rejected", "executed"},
         Append(type, q, success), q \in decided,
         type = "executed" => effect[q] # "none",
         success /\ type = "executed" => verdict[q] = "healthy" /\ effect[q] = "applied"
  PROVE  AuditIsTrue'
<1>1. ASSUME NEW e \in audit', e \notin audit PROVE e = [type |-> type, by |-> q, success |-> success]
  BY <1>1 DEF Append
<1>2. \A e \in audit : e.type # "proposed" => e.by \in Requests
  BY DEF AuditIsTrue, TypeOK
<1>. QED BY <1>1, <1>2 DEF AuditIsTrue, Grows

LEMMA NextAudit ==
  ASSUME TypeOK, Linked, AuditIsTrue, [Next]_vars
  PROVE  AuditIsTrue'
<1>. USE NextGrows
<1>1. CASE UNCHANGED audit
  <2>1. \A e \in audit : e.type # "proposed" => e.by \in Requests
    BY DEF AuditIsTrue, TypeOK
  <2>. QED BY <1>1, <2>1 DEF AuditIsTrue, Grows
<1>2. CASE ProposeAudit
  BY <1>2 DEF ProposeAudit, Append, AuditIsTrue
<1>3. ASSUME NEW q \in Requests, AuditDecision(q) PROVE AuditIsTrue'
  BY <1>3, AppendIsTrue DEF AuditDecision, Decision, Linked, PlacesAreEarned
<1>4. ASSUME NEW q \in Requests, AuditExecution(q) PROVE AuditIsTrue'
  <2>1. q \in decided /\ effect[q] # "none"
    BY <1>4 DEF AuditExecution, Linked, PlacesAreEarned, EffectsFollowPlaces, Executing
  <2>2. verdict[q] = "healthy" => effect[q] = "applied"
    BY DEF Linked, EffectsFollowPlaces
  <2>. QED BY <1>4, <2>1, <2>2, AppendIsTrue DEF AuditExecution
<1>. QED
  BY <1>1, <1>2, <1>3, <1>4
  DEF Next, vars, Propose, CreateEnds, Crash, Decide, Load, SaveDecision, DecisionFails,
      Execute, StartExecution, CallTool, HostHangs, ToolSucceeds, ToolFails, RecordFailure,
      BeginVerification, Verify, RecordVerdict, LoadIncident, ResolveIncident, HostActs

-----------------------------------------------------------------------------
(* The theorems *)

LEMMA InitIInv == Init => IInv
<1>. SUFFICES ASSUME Init PROVE IInv
  OBVIOUS
<1>1. TypeOK
  BY InitType
<1>2. PlacesAreEarned /\ EffectsFollowPlaces /\ VerdictsFollowPlaces
  BY DEF Init, PlacesAreEarned, EffectsFollowPlaces, VerdictsFollowPlaces, Executing
<1>3. RowIsBehind /\ RowTellsOutcome
  BY RequestsAssumption DEF Init, RowIsBehind, RowTellsOutcome
<1>4. PendingIsUndecided /\ DecidedOnce /\ MutationNeedsApproval
  BY DEF Init, PendingIsUndecided, DecidedOnce, MutationNeedsApproval
<1>5. ResolvedNeedsHealthy /\ AuditIsTrue
  BY DEF Init, ResolvedNeedsHealthy, AuditIsTrue
<1>. QED BY <1>1, <1>2, <1>3, <1>4, <1>5 DEF IInv

LEMMA NextIInv == ASSUME IInv, [Next]_vars PROVE IInv'
<1>. USE DEF IInv
<1>1. TypeOK'
  BY NextType
<1>2. Linked /\ Linked'
  BY NextLinked DEF Linked
<1>3. RowIsTrue'
  BY <1>2, NextRowIsTrue DEF RowIsTrue
<1>4. PendingIsUndecided' /\ DecidedOnce'
  BY <1>2, NextDecisions DEF RowIsTrue
<1>5. MutationNeedsApproval' /\ ResolvedNeedsHealthy' /\ AuditIsTrue'
  BY <1>2, NextMutation, NextResolved, NextAudit
<1>. QED BY <1>1, <1>2, <1>3, <1>4, <1>5 DEF Linked, RowIsTrue

\* The inductive invariant holds for any requests and any faults.
THEOREM Invariance == Spec => []IInv
BY InitIInv, NextIInv, PTL DEF Spec

\* Nothing is asked of a host without an owner's approval on record, whatever
\* number of requests race and wherever the control plane crashes.
THEOREM Approved == Spec => []MutationNeedsApproval
<1>1. IInv => MutationNeedsApproval
  BY DEF IInv
<1>. QED BY <1>1, Invariance, PTL

\* Without overlapping handlers at most one decision is ever committed.
THEOREM OneDecision == Spec => []DecidedOnce
<1>1. IInv => DecidedOnce
  BY DEF IInv
<1>. QED BY <1>1, Invariance, PTL

\* The stored row is true of the request that wrote it last, for any number of
\* executors overwriting it.
THEOREM TrueRow == Spec => []RowTellsOutcome
<1>1. IInv => RowTellsOutcome
  BY DEF IInv
<1>. QED BY <1>1, Invariance, PTL

\* An incident is resolved only after a healthy verification.
THEOREM Healthy == Spec => []ResolvedNeedsHealthy
<1>1. IInv => ResolvedNeedsHealthy
  BY DEF IInv
<1>. QED BY <1>1, Invariance, PTL

\* Neither the row nor the incident says more of an execution than came of it.
THEOREM RecordsTrue == Spec => []RecordsTellOutcome
BY TrueRow, Healthy, PTL DEF RecordsTellOutcome

\* The audit trail claims nothing that did not happen.
THEOREM TrueAudit == Spec => []AuditIsTrue
<1>1. IInv => AuditIsTrue
  BY DEF IInv
<1>. QED BY <1>1, Invariance, PTL

\* Without a fault every place is reached with the events before it in the trail.
PlacesAudited ==
  faults = 0 =>
    \A q \in Requests :
      /\ pc[q] \in Executing \cup {"done"} => Audited(Decision(q), q)
      /\ pc[q] \in {"resolving", "storing", "done"} /\ q \in Approvals => Audited("executed", q)

LEMMA NextAudited == ASSUME IInv, PlacesAudited, [Next]_vars PROVE PlacesAudited'
<1>. SUFFICES ASSUME faults' = 0 PROVE PlacesAudited'
  BY DEF PlacesAudited
<1>. USE DEF PlacesAudited
<1>1. faults \in Nat /\ ~Fault /\ pc \in [Requests -> Places]
  BY FaultsAssumption DEF IInv, TypeOK, Fault
<1>2. \A type, q : Audited(type, q) /\ audit \subseteq audit' => Audited(type, q)'
  BY DEF Audited
<1>3. \A type, q, success : Append(type, q, success) =>
        audit \subseteq audit' /\ Audited(type, q)' /\ faults' = faults
  <2>. SUFFICES ASSUME NEW type, NEW q, NEW success, Append(type, q, success)
                PROVE  audit \subseteq audit' /\ Audited(type, q)' /\ faults' = faults
    OBVIOUS
  <2> DEFINE event == [type |-> type, by |-> q, success |-> success]
  <2>1. audit' = audit \cup {event} /\ faults' = faults
    BY <1>1 DEF Append
  <2>2. event \in audit' /\ event.type = type /\ event.by = q
    BY <2>1
  <2>. QED BY <2>1, <2>2 DEF Audited
<1>4. CASE Propose \/ CreateEnds \/ UNCHANGED vars
  BY <1>2, <1>4 DEF Propose, CreateEnds, vars
<1>5. CASE ProposeAudit
  BY <1>2, <1>3, <1>5 DEF ProposeAudit
<1>6. CASE Crash
  BY <1>1, <1>6 DEF Crash
<1>7. ASSUME NEW q \in Requests, NEW place \in Places, Goto(q, place), faults = 0,
             audit \subseteq audit',
             place \in Executing \cup {"done"} => Audited(Decision(q), q)',
             place \in {"resolving", "storing", "done"} /\ q \in Approvals =>
               Audited("executed", q)'
      PROVE  PlacesAudited'
  <2>1. pc'[q] = place /\ \A p \in Requests : p # q => pc'[p] = pc[p]
    BY <1>1, <1>7 DEF Goto
  <2>2. \A p \in Requests : Decision(p)' = Decision(p)
    BY DEF Decision
  <2>. QED BY <1>2, <1>7, <2>1, <2>2
<1>8. ASSUME NEW q \in Requests, NEW place \in Places, Goto(q, place), UNCHANGED audit,
             place \in Executing => pc[q] \in Executing,
             place = "done" => pc[q] \in {"resolving", "storing"},
             place = "storing" => pc[q] = "resolving", place # "resolving",
             faults = 0
      PROVE  PlacesAudited'
  BY <1>2, <1>7, <1>8 DEF Executing
<1>9. faults' = faults => faults = 0
  OBVIOUS
<1>10. ASSUME NEW q \in Requests, Decide(q) PROVE PlacesAudited'
  <2>1. CASE Load(q)
    BY <1>8, <2>1 DEF Load, Places, Executing
  <2>2. CASE SaveDecision(q)
    BY <1>1, <1>8, <2>2 DEF SaveDecision, Places, Executing
  <2>3. CASE DecisionFails(q)
    BY <1>1, <2>3 DEF DecisionFails
  <2>4. CASE AuditDecision(q)
    BY <1>3, <1>7, <2>4 DEF AuditDecision, Places, Executing
  <2>. QED BY <1>10, <2>1, <2>2, <2>3, <2>4 DEF Decide
<1>11. ASSUME NEW q \in Requests, Execute(q) PROVE PlacesAudited'
  <2>0. \A status : SaveRow(q, status) => faults = 0
    BY <1>1 DEF SaveRow
  <2>1. CASE StartExecution(q)
    BY <1>8, <2>0, <2>1 DEF StartExecution, Places, Executing
  <2>2. CASE CallTool(q) \/ ToolSucceeds(q) \/ ToolFails(q) \/ Verify(q)
    BY <1>8, <2>2 DEF CallTool, ToolSucceeds, ToolFails, Verify, Places, Executing
  <2>3. CASE RecordFailure(q) \/ BeginVerification(q) \/ RecordVerdict(q)
    BY <1>8, <2>0, <2>3 DEF RecordFailure, BeginVerification, RecordVerdict, Places, Executing
  <2>4. CASE AuditExecution(q)
    <3>1. /\ audit \subseteq audit' /\ Audited("executed", q)' /\ faults = 0
          /\ Audited(Decision(q), q)
      BY <1>3, <2>4 DEF AuditExecution, Executing
    <3>2. Decision(q)' = Decision(q)
      BY DEF Decision
    <3>. QED BY <1>2, <1>7, <2>4, <3>1, <3>2 DEF AuditExecution, Places
  <2>5. CASE LoadIncident(q)
    BY <1>1, <1>8, <2>5 DEF LoadIncident, Places, Executing
  <2>6. CASE ResolveIncident(q)
    BY <1>1, <1>8, <2>6 DEF ResolveIncident, Places, Executing
  <2>. QED BY <1>11, <2>1, <2>2, <2>3, <2>4, <2>5, <2>6 DEF Execute
<1>12. ASSUME NEW q \in Requests, HostActs(q) PROVE PlacesAudited'
  BY <1>2, <1>12 DEF HostActs
<1>13. ASSUME NEW q \in Requests, HostHangs(q) PROVE PlacesAudited'
  BY <1>8, <1>13 DEF HostHangs, Places, Executing
<1>. QED BY <1>4, <1>5, <1>6, <1>10, <1>11, <1>12, <1>13 DEF Next

\* While nothing has failed, whatever was decided and executed is in the audit trail.
THEOREM CompleteAudit == Spec => []AuditIsComplete
<1>1. Init => PlacesAudited
  BY DEF Init, PlacesAudited, Executing
<1>2. IInv /\ PlacesAudited /\ [Next]_vars => PlacesAudited'
  BY NextAudited
<1>3. PlacesAudited => AuditIsComplete
  BY DEF PlacesAudited, AuditIsComplete
<1>. QED BY <1>1, <1>2, <1>3, Invariance, PTL DEF Spec

-----------------------------------------------------------------------------
(* The row only moves forward *)

LEMMA NextOverlap == ASSUME TypeOK, [Next]_vars, ~ overlapped' PROVE ~ overlapped
<1>1. CASE UNCHANGED overlapped
  BY <1>1
<1>2. ASSUME NEW q \in Requests, Load(q) PROVE ~ overlapped
  BY <1>2, Zenon DEF Load
<1>. QED
  BY <1>1, <1>2
  DEF Next, vars, Propose, ProposeAudit, CreateEnds, Crash, Decide, SaveDecision,
      DecisionFails, AuditDecision, Execute, StartExecution, CallTool, HostHangs,
      ToolSucceeds, ToolFails, RecordFailure, BeginVerification, Verify, RecordVerdict,
      AuditExecution, LoadIncident, ResolveIncident, HostActs

\* Without an overlap the only executor there is finds its own row, not ahead
\* of it.
LEMMA OwnRow ==
  ASSUME IInv, ~ overlapped, NEW q \in Requests, q \in decided,
         pc[q] \in {"starting", "erred", "succeeded", "judged"}
  PROVE  /\ row.by = q
         /\ pc[q] = "starting" => row.status = "approved"
         /\ pc[q] \in {"erred", "succeeded"} => row.status \in {"approved", "executing"}
         /\ pc[q] = "judged" => row.status \in {"approved", "executing", "verifying"}
<1>1. row.status \notin {"absent", "pending_approval"}
  BY DEF IInv, PendingIsUndecided
<1>2. row.by = q
  BY <1>1 DEF IInv, DecidedOnce, RowTellsOutcome
<1>. QED BY <1>2 DEF IInv, RowIsBehind

LEMMA NextAdvances ==
  ASSUME IInv, [Next]_vars, ~ overlapped'
  PROVE  row' = row \/ Rank(row.status) < Rank(row'.status)
<1>. USE DEF Rank
<1>0. ~ overlapped
  BY NextOverlap DEF IInv
<1>1. ASSUME Propose PROVE Rank(row.status) < Rank(row'.status)
  BY <1>1 DEF Propose, IInv, PendingIsUndecided
<1>2. ASSUME NEW q \in Requests, SaveDecision(q) PROVE Rank(row.status) < Rank(row'.status)
  <2>1. row.status \in {"absent", "pending_approval"}
    BY <1>0, <1>2 DEF SaveDecision, IInv, PendingIsUndecided
  <2>2. row'.status \in {"approved", "rejected"}
    BY <1>2 DEF SaveDecision, Decision
  <2>. QED BY <2>1, <2>2
<1>3. ASSUME NEW q \in Requests,
             StartExecution(q) \/ RecordFailure(q) \/ BeginVerification(q) \/ RecordVerdict(q)
      PROVE  row' = row \/ Rank(row.status) < Rank(row'.status)
  <2>1. q \in decided
    BY <1>3
    DEF StartExecution, RecordFailure, BeginVerification, RecordVerdict, IInv,
        PlacesAreEarned, Executing
  <2>2. CASE StartExecution(q)
    BY <1>0, <2>1, <2>2, OwnRow DEF StartExecution, SaveRow
  <2>3. CASE RecordFailure(q)
    BY <1>0, <2>1, <2>3, OwnRow DEF RecordFailure, SaveRow
  <2>4. CASE BeginVerification(q)
    BY <1>0, <2>1, <2>4, OwnRow DEF BeginVerification, SaveRow
  <2>5. CASE RecordVerdict(q)
    BY <1>0, <2>1, <2>5, OwnRow DEF RecordVerdict, SaveRow
  <2>. QED BY <1>3, <2>2, <2>3, <2>4, <2>5
<1>. QED
  BY <1>1, <1>2, <1>3
  DEF Next, vars, ProposeAudit, CreateEnds, Crash, Decide, Load, DecisionFails, AuditDecision,
      Execute, CallTool, ToolSucceeds, ToolFails, Verify, AuditExecution, LoadIncident,
      ResolveIncident, HostActs, HostHangs

\* The trail is complete as long as the database answers, and true in any case.
THEOREM AuditHolds == Spec => []AuditTrail
BY CompleteAudit, TrueAudit, PTL DEF AuditTrail

\* Without overlapping decisions no save of a handler or an executor takes the
\* row back to an earlier stage, and none changes a final status.
THEOREM Advance == Spec => StagesAdvance
<1>1. IInv /\ [Next]_vars
      => [~ overlapped' => row' = row \/ Rank(row.status) < Rank(row'.status)]_vars
  BY NextAdvances
<1>. QED BY <1>1, Invariance, PTL DEF Spec, StagesAdvance

-----------------------------------------------------------------------------
(* The executors implement Remediation *)

LEMMA InitRefines == Init => Executor!Init
BY DEF Init, Executor!Init

\* Every step of an executor or of the host is a step of Remediation or is
\* invisible there.
LEMMA NextRefines ==
  ASSUME IInv, [Next]_vars
  PROVE  [Executor!Next]_(Executor!vars)
<1>. USE DEF IInv
<1>1. ASSUME NEW q \in Requests, CallTool(q) PROVE Executor!Order(q)
  BY <1>1 DEF CallTool, Executor!Order, EffectsFollowPlaces, VerdictsFollowPlaces
<1>2. ASSUME NEW q \in Requests, HostActs(q) PROVE Executor!Act(q)
  BY <1>2 DEF HostActs, Executor!Act
<1>3. ASSUME NEW q \in Requests, ToolFails(q) PROVE Executor!Fail(q)
  BY <1>3 DEF ToolFails, Executor!Fail, VerdictsFollowPlaces
<1>4. ASSUME NEW q \in Requests, Verify(q) PROVE Executor!Judge(q)
  BY <1>4 DEF Verify, Executor!Judge, EffectsFollowPlaces, VerdictsFollowPlaces
<1>6. ASSUME NEW q \in Requests, HostHangs(q), effect' # effect PROVE Executor!Act(q)
  BY <1>6 DEF HostHangs, Executor!Act
<1>7. ASSUME NEW q \in Requests, HostHangs(q) PROVE UNCHANGED verdict
  BY <1>7 DEF HostHangs
<1>5. CASE UNCHANGED <<effect, verdict>>
  BY <1>5 DEF Executor!vars
<1>. QED
  BY <1>1, <1>2, <1>3, <1>4, <1>5, <1>6, <1>7
  DEF Executor!Next, Next, vars, Propose, ProposeAudit, CreateEnds, Crash, Decide, Load,
      SaveDecision, DecisionFails, AuditDecision, Execute, StartExecution, ToolSucceeds,
      RecordFailure, BeginVerification, RecordVerdict, AuditExecution, LoadIncident,
      ResolveIncident

\* Any number of executors, racing and failing, keep the promise of Remediation: the host
\* is asked once per approval, before a verdict that is final.
THEOREM ExecutorsImplementRemediation == Spec => ImplementsRemediation
BY InitRefines, NextRefines, Invariance, PTL DEF Spec, ImplementsRemediation, Executor!Spec

=============================================================================
