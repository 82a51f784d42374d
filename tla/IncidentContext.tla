-------------------------- MODULE IncidentContext ---------------------------
(***************************************************************************)
(* The context of an incident: what GitHub knows of the repository of its  *)
(* environment, and what is remembered of earlier incidents.  A request to *)
(* create an incident makes four calls to a repository that moves between  *)
(* them, recalls incidents like it, is investigated, saved, and then        *)
(* remembered itself.  GitHubClient, IncidentService.Create and            *)
(* IncidentMemoryService over the tokens of InstallationTokens; the        *)
(* reasoning between is Investigation's.                                   *)
(***************************************************************************)
EXTENDS InstallationTokens, FiniteSets

CONSTANTS
  ByApp, ByToken,   \* requests whose environment has a repository, by its AuthMode
  Environments, EnvironmentOf,
  Distance,         \* between a request's question and another's incident
  MaxDistance, RecallLimit,
  Error,
  PageSize,         \* runs GitHub lists
  MaxRuns,          \* bound: runs of the workflow
  Scenarios         \* bounds: [requests, fetchOnly, time, runs, faults]

Commits == 1 .. MaxRuns
Runs == [commit : Commits, result : {"running", "success", "failure"}]
Integrated == ByApp \cup ByToken
ASSUME IncidentsAssumption ==
  /\ ByApp \subseteq Requests /\ ByToken \subseteq Requests \ ByApp
  /\ EnvironmentOf \in [Requests -> Environments]
  /\ Distance \in [Requests -> [Requests -> Nat]] /\ MaxDistance \in Nat
  /\ RecallLimit \in Nat \ {0} /\ PageSize \in Nat \ {0} /\ MaxRuns \in Nat
  /\ {Error, None} \cap Commits = {} /\ Error # None /\ None \notin Seq(Runs)
  /\ \A s \in Scenarios :
       /\ s.requests \subseteq Requests /\ s.fetchOnly \in BOOLEAN
       /\ s.time \in 0 .. MaxTime /\ s.runs \in 0 .. MaxRuns /\ s.faults \in Nat

VARIABLES
  scenario,
  runs,         \* of the repository's workflow, newest first: of which commit, and how it ended
  stage,
  page,         \* the runs a request was listed, None before
  diff, pulls,  \* the commit whose diff and pull requests it holds, or Error, or None
  contextError, \* the requests whose fetch failed
  overlooked,   \* the requests whose integration was not found although there is one
  recalled,     \* the memories a request was shown
  incidents, memories,
  memoryError,  \* the requests that were answered with a memory error
  noted,        \* the incidents whose row says so
  faults

repoVars == <<runs, page, diff, pulls, contextError, overlooked>>
memoryVars == <<recalled, incidents, memories, memoryError, noted>>
vars == <<scenario, tokenVars, repoVars, stage, memoryVars, faults>>

Parts == Commits \cup {Error, None}
Stages == {"new", "commits", "runs", "diff", "pulls", "recall", "reason", "save",
           "remember", "done", "failed"}

TypeOK ==
  /\ TokensTypeOK
  /\ scenario \in Scenarios
  /\ runs \in Seq(Runs) /\ page \in [Requests -> Seq(Runs) \cup {None}]
  /\ stage \in [Requests -> Stages]
  /\ diff \in [Requests -> Parts] /\ pulls \in [Requests -> Parts]
  /\ recalled \in [Requests -> SUBSET Requests]
  /\ contextError \subseteq Integrated /\ overlooked \subseteq Integrated
  /\ incidents \subseteq Requests /\ memories \subseteq Requests
  /\ memoryError \subseteq Requests /\ noted \subseteq memoryError
  /\ faults \in 0 .. scenario.faults

Init ==
  /\ TokensInit
  /\ scenario \in Scenarios
  /\ runs = <<>>
  /\ stage = [r \in Requests |-> "new"]
  /\ page = [r \in Requests |-> None]
  /\ diff = [r \in Requests |-> None] /\ pulls = [r \in Requests |-> None]
  /\ contextError = {} /\ overlooked = {}
  /\ recalled = [r \in Requests |-> {}]
  /\ incidents = {} /\ memories = {} /\ memoryError = {} /\ noted = {}
  /\ faults = 0

Goto(r, s) == stage' = [stage EXCEPT ![r] = s]
Fault == faults < scenario.faults /\ faults' = faults + 1

-----------------------------------------------------------------------------
(* The repository moves. *)

Push ==
  /\ Len(runs) < scenario.runs
  /\ runs' = <<[commit |-> Len(runs) + 1, result |-> "running"]>> \o runs
  /\ UNCHANGED <<scenario, tokenVars, page, diff, pulls, contextError, overlooked, stage,
                 memoryVars, faults>>

RunEnds ==
  /\ \E i \in DOMAIN runs, result \in {"success", "failure"} :
       /\ runs[i].result = "running"
       /\ runs' = [runs EXCEPT ![i].result = result]
  /\ UNCHANGED <<scenario, tokenVars, page, diff, pulls, contextError, overlooked, stage,
                 memoryVars, faults>>

-----------------------------------------------------------------------------
(* Fetching the context. *)

Begin(r) ==
  /\ stage[r] = "new"
  /\ Goto(r, IF r \in Integrated THEN "commits" ELSE "recall")
  /\ UNCHANGED <<scenario, tokenVars, repoVars, memoryVars, faults>>

\* A look-up of the integration that fails is taken for none.
Overlook(r) ==
  /\ Fault
  /\ stage[r] = "new" /\ r \in Integrated
  /\ overlooked' = overlooked \cup {r}
  /\ Goto(r, "recall")
  /\ UNCHANGED <<scenario, tokenVars, runs, page, diff, pulls, contextError, memoryVars>>

GetToken(r) ==
  /\ r \in ByApp /\ stage[r] = "commits"
  /\ TokenStep(r)
  /\ UNCHANGED <<scenario, repoVars, stage, memoryVars, faults>>

Ready(r) == r \in ByApp => holds[r] = "token"
Authorized(r) == r \in ByApp => Accepted(r)
Released(r) == IF r \in ByApp THEN Release(r) ELSE UNCHANGED tokenVars

Failing(list) == {i \in DOMAIN list : list[i].result = "failure"}
First(list, S) == CHOOSE i \in S : \A j \in S : i <= j
Selected(list) ==
  list[IF Failing(list) # {} THEN First(list, Failing(list)) ELSE 1].commit

FetchCommits(r) ==
  /\ stage[r] = "commits" /\ Ready(r) /\ Authorized(r)
  /\ Goto(r, "runs")
  /\ UNCHANGED <<scenario, tokenVars, repoVars, memoryVars, faults>>

FetchRuns(r) ==
  /\ stage[r] = "runs" /\ Authorized(r)
  /\ page' = [page EXCEPT ![r] =
                SubSeq(runs, 1, IF Len(runs) < PageSize THEN Len(runs) ELSE PageSize)]
  /\ IF runs = <<>> THEN Goto(r, "recall") /\ Released(r)
     ELSE Goto(r, "diff") /\ UNCHANGED tokenVars
  /\ UNCHANGED <<scenario, runs, diff, pulls, contextError, overlooked, memoryVars, faults>>

ContextError_Silent(r) == contextError
ContextError(r) == contextError \cup {r}

\* No token, no commits or no runs: there is no context.
ContextFails(r) ==
  /\ \/ stage[r] = "commits" /\ (r \in ByApp => holds[r] # "nothing") /\ Fault
     \/ stage[r] = "runs" /\ Fault
     \/ stage[r] \in {"commits", "runs"} /\ Ready(r) /\ ~Authorized(r) /\ UNCHANGED faults
  /\ contextError' = ContextError(r)
  /\ Goto(r, "recall") /\ Released(r)
  /\ UNCHANGED <<scenario, runs, page, diff, pulls, overlooked, memoryVars>>

Subject_Now(r) == Selected(runs)
Subject(r) == Selected(page[r])

FetchDiff(r) ==
  /\ stage[r] = "diff"
  /\ \/ Authorized(r) /\ diff' = [diff EXCEPT ![r] = Subject(r)] /\ UNCHANGED faults
     \/ ~Authorized(r) /\ diff' = [diff EXCEPT ![r] = Error] /\ UNCHANGED faults
     \/ Fault /\ diff' = [diff EXCEPT ![r] = Error]
  /\ Goto(r, "pulls")
  /\ UNCHANGED <<scenario, tokenVars, runs, page, pulls, contextError, overlooked,
                 memoryVars>>

\* The last call: the commit has pull requests or none.
FetchPulls(r) ==
  /\ stage[r] = "pulls"
  /\ \/ /\ Authorized(r) /\ UNCHANGED faults
        /\ \E found \in {Subject(r), None} : pulls' = [pulls EXCEPT ![r] = found]
     \/ ~Authorized(r) /\ pulls' = [pulls EXCEPT ![r] = Error] /\ UNCHANGED faults
     \/ Fault /\ pulls' = [pulls EXCEPT ![r] = Error]
  /\ Goto(r, "recall") /\ Released(r)
  /\ UNCHANGED <<scenario, runs, page, diff, contextError, overlooked, memoryVars>>

-----------------------------------------------------------------------------
(* Memory, and the incident. *)

Candidates_All(r) == memories
Candidates(r) == {m \in memories : EnvironmentOf[m] = EnvironmentOf[r]}

\* What the search may answer: its index is approximate, and gives the candidates from
\* which those of other environments are then dropped, so that any may be left out.
Searched(r, S) ==
  /\ S \subseteq Candidates(r)
  /\ IsFiniteSet(S) /\ Cardinality(S) <= RecallLimit

Recall(r) ==
  /\ stage[r] = "recall" /\ ~scenario.fetchOnly
  /\ \E S \in SUBSET memories :
       /\ Searched(r, S)
       /\ recalled' = [recalled EXCEPT ![r] = {m \in S : Distance[r][m] <= MaxDistance}]
  /\ Goto(r, "reason")
  /\ UNCHANGED <<scenario, tokenVars, repoVars, incidents, memories, memoryError, noted,
                 faults>>

\* The failure becomes an item of the evidence.
RecallFails(r) ==
  /\ Fault
  /\ stage[r] = "recall" /\ ~scenario.fetchOnly
  /\ Goto(r, "reason")
  /\ UNCHANGED <<scenario, tokenVars, repoVars, memoryVars>>

Investigate(r) ==
  /\ stage[r] = "reason"
  /\ Goto(r, "save")
  /\ UNCHANGED <<scenario, tokenVars, repoVars, memoryVars, faults>>

SaveIncident(r) ==
  /\ stage[r] = "save"
  /\ incidents' = incidents \cup {r}
  /\ Goto(r, "remember")
  /\ UNCHANGED <<scenario, tokenVars, repoVars, recalled, memories, memoryError,
                 noted, faults>>

Remember(r) ==
  /\ stage[r] = "remember"
  /\ memories' = memories \cup {r}
  /\ Goto(r, "done")
  /\ UNCHANGED <<scenario, tokenVars, repoVars, recalled, incidents, memoryError,
                 noted, faults>>

Told(r) == memoryError \cup {r}

\* The incident is answered with the error; saving it again may fail unnoticed, and the
\* memory be stored although its save was not acknowledged.
RememberFails(r) ==
  /\ Fault
  /\ stage[r] = "remember"
  /\ memories' \in {memories, memories \cup {r}}
  /\ memoryError' = Told(r)
  /\ noted' \in {noted, noted \cup {r}}
  /\ Goto(r, "done")
  /\ UNCHANGED <<scenario, tokenVars, repoVars, recalled, incidents>>

\* The investigation or a write fails, or the control plane stops; what was written may
\* have been committed.
StepFails(r) ==
  /\ Fault
  /\ stage[r] \in {"reason", "save", "remember"}
  /\ \/ UNCHANGED <<incidents, memories>>
     \/ stage[r] = "save" /\ incidents' = incidents \cup {r} /\ UNCHANGED memories
     \/ stage[r] = "remember" /\ memories' = memories \cup {r} /\ UNCHANGED incidents
  /\ Goto(r, "failed")
  /\ UNCHANGED <<scenario, tokenVars, repoVars, recalled, memoryError, noted>>

FetchStep(r) ==
  \/ Begin(r) \/ Overlook(r) \/ GetToken(r) \/ FetchCommits(r) \/ FetchRuns(r) \/ ContextFails(r)
  \/ FetchDiff(r) \/ FetchPulls(r)
IncidentStep(r) ==
  \/ Recall(r) \/ RecallFails(r) \/ Investigate(r) \/ SaveIncident(r) \/ Remember(r)
  \/ RememberFails(r) \/ StepFails(r)

Next ==
  \/ Push \/ RunEnds
  \/ \E r \in scenario.requests : FetchStep(r) \/ IncidentStep(r)
  \/ /\ \/ now < scenario.time /\ Tick /\ UNCHANGED faults
        \/ \E i \in Installations : Fault /\ Revoke(i)
     /\ UNCHANGED <<scenario, repoVars, stage, memoryVars>>

Spec == Init /\ [][Next]_vars

-----------------------------------------------------------------------------

\* However the repository moves between the calls, the diff and the pull requests of
\* an incident are of one commit, that of the run in its evidence, and this run failed
\* unless none of those listed then had.
OneCommit ==
  \A r \in Requests :
    /\ diff[r] \in Commits /\ pulls[r] \in Commits => diff[r] = pulls[r]
    /\ \A c \in {diff[r], pulls[r]} \cap Commits :
         \E i \in DOMAIN page[r] :
           /\ page[r][i].commit = c
           /\ page[r][i].result = "failure" \/ Failing(page[r]) = {}

\* Whatever part of its context failed, an incident says so and holds nothing of that
\* part; one that was answered is remembered or says that it is not.
FailuresShow ==
  /\ \A r \in incidents :
       /\ r \in contextError => page[r] = None /\ diff[r] = None /\ pulls[r] = None
       /\ r \in Integrated \ (contextError \cup overlooked) =>
            page[r] = <<>> \/ (page[r] # None /\ diff[r] # None)
  /\ \A r \in Requests : stage[r] = "done" => r \in memories \cup memoryError

\* However incidents overlap, the earlier ones that are evidence for one were saved, are
\* like it and of its own environment and no more than the limit, and none of them had
\* it as evidence: two incidents never support each other, nor does one itself.
PrecedentsStand ==
  \A r \in Requests :
    /\ recalled[r] \subseteq incidents /\ Cardinality(recalled[r]) <= RecallLimit
    /\ \A m \in recalled[r] :
         /\ EnvironmentOf[m] = EnvironmentOf[r] /\ Distance[r][m] <= MaxDistance
         /\ r \notin recalled[m]

=============================================================================
