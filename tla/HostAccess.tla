----------------------------- MODULE HostAccess -----------------------------
(***************************************************************************)
(* How the control plane gets to know its hosts.  An owner creates an      *)
(* environment, whose host is discovered before it is saved, or enrolls a  *)
(* runner, which then polls and reports what it finds; each is a series of *)
(* writes to separate tables without a transaction.  EnvironmentService,   *)
(* RunnerControlService, ProjectService and CredentialService, over the    *)
(* clients of ConnectionClients.                                           *)
(***************************************************************************)
EXTENDS ConnectionClients, Sequences

CONSTANTS
  Enrollments,         \* requests that enroll a runner
  Projects, ProjectOf, \* the project a request names
  BadURL,              \* requests whose health URL is not valid
  Polls, RunnerOf,     \* a poll and the enrollment of its runner
  Fields, Report,      \* the fields a poll's report has
  Groups               \* bound: who may be active together

Discoveries == {j \in Jobs : Task[j] = "discover"}
Requests == Discoveries \cup Enrollments
ASSUME RequestsAssumption ==
  /\ Enrollments \cap Jobs = {} /\ BadURL \subseteq Requests
  /\ ProjectOf \in [Requests -> Projects]
  /\ \A j \in Discoveries : Via[j] # "outbound"
ASSUME PollsAssumption ==
  /\ RunnerOf \in [Polls -> Enrollments] /\ Report \in [Polls -> SUBSET Fields]
  /\ None \notin Polls
ASSUME GroupsAssumption == Groups \subseteq SUBSET (Jobs \cup Enrollments \cup Polls)

VARIABLES
  active,
  projects, credentials, environments, runners,  \* tables, a row named by its request
  fields,    \* the report each field of an environment's row is from
  stage,     \* how far a request has come
  poll,      \* how far a poll has come
  copy,      \* the fields of the row it read
  readAt,    \* how many reports were saved by then
  saves      \* the reports in the order they were saved

tables == <<projects, credentials, environments, runners>>
pollVars == <<fields, poll, copy, readAt, saves>>
vars == <<active, jobVars, faults, tables, stage, pollVars>>

Blank == [f \in Fields |-> None]
Stages == {"new", "credential", "discovery", "save", "register", "answered", "refused",
           "failed"}

TypeOK ==
  /\ JobsTypeOK
  /\ active \in Groups
  /\ projects \subseteq Projects
  /\ credentials \subseteq Requests /\ environments \subseteq Requests
  /\ runners \subseteq Enrollments
  /\ fields \in [Enrollments -> [Fields -> Polls \cup {None}]]
  /\ stage \in [Requests -> Stages]
  /\ poll \in [Polls -> {"none", "read", "saved", "refused", "failed"}]
  /\ copy \in [Polls -> [Fields -> Polls \cup {None}]]
  /\ readAt \in [Polls -> Nat]
  /\ saves \in Seq(Polls)

Init ==
  /\ JobsInit
  /\ active \in Groups
  /\ projects = {} /\ credentials = {} /\ environments = {} /\ runners = {}
  /\ fields = [r \in Enrollments |-> Blank]
  /\ stage = [r \in Requests |-> "new"]
  /\ poll = [p \in Polls |-> "none"]
  /\ copy = [p \in Polls |-> Blank]
  /\ readAt = [p \in Polls |-> 0]
  /\ saves = <<>>

Goto(r, s) == stage' = [stage EXCEPT ![r] = s]

-----------------------------------------------------------------------------
(* Projects, environments and enrollments. *)

CreateProject(p) ==
  /\ p \notin projects
  /\ projects' = projects \cup {p}
  /\ UNCHANGED <<active, jobVars, faults, credentials, environments, runners, stage,
                 pollVars>>

\* The checks before the first write.  An enrollment checks its URL later.
Submit(r) ==
  /\ stage[r] = "new"
  /\ Goto(r, IF ProjectOf[r] \notin projects \/ r \in BadURL \ Enrollments THEN "refused"
             ELSE IF r \in Enrollments \/ Via[r] = "ssh" THEN "credential"
             ELSE "discovery")
  /\ UNCHANGED <<active, jobVars, faults, tables, pollVars>>

StoreCredential(r) ==
  /\ stage[r] = "credential"
  /\ credentials' = credentials \cup {r}
  /\ Goto(r, IF r \notin Enrollments THEN "discovery"
             ELSE IF r \in BadURL THEN "refused" ELSE "save")
  /\ UNCHANGED <<active, jobVars, faults, projects, environments, runners, pollVars>>

Discovered(r) ==
  /\ stage[r] = "discovery" /\ place[r] = "done"
  /\ Goto(r, IF outcome[r] = "found" THEN "save" ELSE "failed")
  /\ UNCHANGED <<active, jobVars, faults, tables, pollVars>>

AfterSave_Answered(r) == "answered"
AfterSave(r) == IF r \in Enrollments THEN "register" ELSE "answered"

SaveEnvironment(r) ==
  /\ stage[r] = "save"
  /\ environments' = environments \cup {r}
  /\ Goto(r, AfterSave(r))
  /\ UNCHANGED <<active, jobVars, faults, projects, credentials, runners, pollVars>>

SaveRunner(r) ==
  /\ stage[r] = "register"
  /\ runners' = runners \cup {r}
  /\ Goto(r, "answered")
  /\ UNCHANGED <<active, jobVars, faults, projects, credentials, environments, pollVars>>

Added(rows, r, s) == IF stage[r] = s THEN rows \cup {r} ELSE rows

AfterFailure_GoOn(r) == IF stage[r] = "credential" THEN "save" ELSE "failed"
AfterFailure(r) == "failed"

\* A write fails, or the control plane stops before or after it: the row may be there
\* although nobody is told.
StepFails(r) ==
  /\ Fault
  /\ stage[r] \in {"credential", "save", "register"}
  /\ \/ UNCHANGED <<credentials, environments, runners>>
     \/ /\ credentials' = Added(credentials, r, "credential")
        /\ environments' = Added(environments, r, "save")
        /\ runners' = Added(runners, r, "register")
  /\ Goto(r, AfterFailure(r))
  /\ UNCHANGED <<active, jobVars, projects, pollVars>>

\* Jobs begin at any time, a discovery when its request has come to it.
BeginJob(j) ==
  /\ j \in Discoveries => stage[j] = "discovery"
  /\ Begin(j)
  /\ UNCHANGED <<active, tables, stage, pollVars>>

-----------------------------------------------------------------------------
(* Polls.  A runner knows its token when its enrollment was answered. *)

Known(r) == r \in runners /\ r \in credentials /\ r \in environments

PollReads(p) ==
  LET r == RunnerOf[p] IN
  /\ poll[p] = "none" /\ stage[r] = "answered"
  /\ IF Known(r)
       THEN /\ poll' = [poll EXCEPT ![p] = IF Report[p] = {} THEN "saved" ELSE "read"]
            /\ copy' = [copy EXCEPT ![p] = fields[r]]
            /\ readAt' = [readAt EXCEPT ![p] = Len(saves)]
       ELSE poll' = [poll EXCEPT ![p] = "refused"] /\ UNCHANGED <<copy, readAt>>
  /\ UNCHANGED <<active, jobVars, faults, tables, stage, fields, saves>>

Merged_Report(p) == [f \in Fields |-> IF f \in Report[p] THEN p ELSE None]
Merged(p) == [f \in Fields |-> IF f \in Report[p] THEN p ELSE copy[p][f]]

\* The whole row is written.
WriteRow(p) ==
  /\ fields' = [fields EXCEPT ![RunnerOf[p]] = Merged(p)]
  /\ saves' = Append(saves, p)

PollSaves(p) ==
  /\ poll[p] = "read"
  /\ WriteRow(p)
  /\ poll' = [poll EXCEPT ![p] = "saved"]
  /\ UNCHANGED <<active, jobVars, faults, tables, stage, copy, readAt>>

PollFails(p) ==
  /\ Fault
  /\ poll[p] = "read"
  /\ WriteRow(p) \/ UNCHANGED <<fields, saves>>
  /\ poll' = [poll EXCEPT ![p] = "failed"]
  /\ UNCHANGED <<active, jobVars, tables, stage, copy, readAt>>

RequestStep(r) ==
  Submit(r) \/ StoreCredential(r) \/ SaveEnvironment(r) \/ SaveRunner(r) \/ StepFails(r)
PollStep(p) == PollReads(p) \/ PollSaves(p) \/ PollFails(p)

\* Only who is active does anything.
Next ==
  \/ \E p \in Projects : CreateProject(p)
  \/ \E r \in Requests \cap active : RequestStep(r)
  \/ \E r \in Discoveries \cap active : Discovered(r)
  \/ \E p \in Polls \cap active : PollStep(p)
  \/ \E j \in Jobs \cap active : BeginJob(j)
  \/ /\ HostStep(active) \/ \E j \in Jobs \cap active : ClientStep(j)
     /\ UNCHANGED <<active, tables, stage, pollVars>>

Spec == Init /\ [][Next]_vars

Handle(r) ==
  \/ StoreCredential(r) \/ SaveEnvironment(r) \/ SaveRunner(r)
  \/ r \in Discoveries /\ (BeginJob(r) \/ Discovered(r))

\* A handler runs on to its end.
Fairness == ClientsFairness /\ \A r \in Requests : WF_vars(Handle(r))

FairSpec == Spec /\ Fairness

-----------------------------------------------------------------------------

\* Whatever step of a request failed, a row in one table never names a row that is
\* missing in another: a runner has its environment and its token, an environment
\* its project and, over SSH, its key.
ReferencesHold ==
  /\ runners \subseteq environments \cap credentials
  /\ \A r \in environments :
       /\ ProjectOf[r] \in projects
       /\ r \in Discoveries /\ Via[r] = "ssh" => r \in credentials

\* An environment that is listed was discovered, or belongs to a runner's enrollment;
\* one that has no runner is left only by an enrollment that failed or is under way.
\* A request that was refused left no row, but for the token of an enrollment whose
\* URL was refused.
EnrollmentsAreWhole ==
  /\ \A r \in environments :
       \/ r \in Discoveries /\ outcome[r] = "found" /\ command[r]["discover"] = "ok"
       \/ r \in runners \/ stage[r] \in {"register", "failed"}
  /\ \A r \in Requests :
       /\ stage[r] = "answered" => r \in environments /\ (r \in Enrollments => r \in runners)
       /\ stage[r] = "refused" =>
            /\ r \notin environments
            /\ r \in credentials => r \in BadURL \cap Enrollments

\* A runner that was given its token is never refused, however early it polls.
NoPollRefused == \A p \in Polls : poll[p] # "refused"

\* Projects, credentials, environments and runners are written one after the other
\* without a transaction: whatever fails and whoever polls meanwhile, no row and no
\* runner is ever without what it relies on.
RowsAreWhole == ReferencesHold /\ EnrollmentsAreWhole /\ NoPollRefused

\* What a poll reported stands in the row until a later report of the same field, or
\* until a poll of the same runner that had read the row before is saved.
ReportsStand ==
  \A i \in DOMAIN saves : \A f \in Report[saves[i]] :
    LET r == RunnerOf[saves[i]] IN
    \/ fields[r][f] = saves[i]
    \/ \E k \in i + 1 .. Len(saves) :
         /\ RunnerOf[saves[k]] = r
         /\ f \in Report[saves[k]] \/ readAt[saves[k]] < i

\* What a job returns is what came of its commands, and it has heard of them all or
\* given them up.
ReturnsAreTrue == HealthyMeansRestarted /\ NothingLeftBehind

\* Every request that is submitted ends, though a write may fail and the host may never
\* answer its discovery; over SSH, where a handshake may stay open, it may not.
RequestsEnd ==
  <>[](\A r \in Requests : r \in Enrollments \/ Via[r] # "ssh" =>
         stage[r] \in {"new", "answered", "refused", "failed"})

\* Clients' jobs and owners' requests end, hosts that never answer notwithstanding.
AllEnds == JobsReturn /\ RequestsEnd

-----------------------------------------------------------------------------
(* The jobs that act keep what ActionLifecycle's executors rely on. *)

Acting == {j \in Jobs : Task[j] = "act"}

RestartState ==
  [j \in Acting |->
     IF j \in again \/ command[j]["restart"] = "ok" THEN "applied"
     ELSE CASE command[j]["restart"] = "none" -> "none"
            [] command[j]["restart"] = "bad" -> "averted"
            [] OTHER -> "outstanding"]
Returned == [j \in Acting |-> outcome[j]]

Client == INSTANCE Remediation
  WITH Actions <- Acting, host <- RestartState, verdict <- Returned

\* Over SSH, SSM, HTTP and tasks alike a job asks its host to restart once, asks nothing
\* after it has returned, and verifies only a restart that took place, though a task may
\* be run again.
ImplementsRemediation == Client!Spec

=============================================================================
