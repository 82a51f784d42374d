----------------------- MODULE IncidentContext_proofs -----------------------
(***************************************************************************)
(* Proofs about IncidentContext, for any requests, environments and        *)
(* scenarios, whatever the repository does between the calls.              *)
(***************************************************************************)
EXTENDS IncidentContext, InstallationTokens_proofs, SequenceTheorems, FiniteSetTheorems,
        WellFoundedInduction

-----------------------------------------------------------------------------
(* The invariant *)

Fetching == {"new", "commits", "runs", "diff", "pulls"}

\* Only a request whose environment has a repository fetches, and what it holds goes
\* with how far it has come.
FetchFollows ==
  \A r \in Requests :
    /\ stage[r] \in {"commits", "runs", "diff", "pulls"} => r \in Integrated
    /\ stage[r] \in {"new", "commits", "runs"} => page[r] = None
    /\ stage[r] \in {"diff", "pulls"} => page[r] \in Seq(Runs) /\ page[r] # <<>>
    /\ stage[r] \in {"new", "commits", "runs", "diff"} => diff[r] = None
    /\ stage[r] = "pulls" => diff[r] # None
    /\ stage[r] \in Fetching => pulls[r] = None /\ r \notin contextError

FetchShows ==
  \A r \in Requests :
    /\ r \in contextError => page[r] = None /\ diff[r] = None /\ pulls[r] = None
    /\ r \in Integrated /\ stage[r] \notin Fetching /\ r \notin contextError \cup overlooked =>
         page[r] = <<>> \/ (page[r] # None /\ diff[r] # None)

\* The parts of a context are of the run that was selected.
PartsOfSelected ==
  \A r \in Requests : \A c \in {diff[r], pulls[r]} \cap Commits :
    page[r] \in Seq(Runs) /\ page[r] # <<>> /\ c = Selected(page[r])

SavedFollows ==
  /\ \A r \in incidents : stage[r] \in {"remember", "done", "failed"}
  /\ \A r \in Requests : stage[r] = "remember" => r \in incidents
  /\ \A r \in memories : stage[r] \in {"done", "failed"} /\ r \in incidents
  /\ \A r \in Requests : stage[r] = "done" => r \in memories \cup memoryError

\* What is shown to a request was remembered by then, when the request itself was not.
RecallStands ==
  /\ PrecedentsStand
  /\ \A r \in Requests : recalled[r] \subseteq memories

ContextInv ==
  /\ TypeOK /\ FetchFollows /\ FetchShows /\ PartsOfSelected
  /\ SavedFollows /\ RecallStands

-----------------------------------------------------------------------------
(* The run that is selected *)

LEMMA LeastIndex == ASSUME NEW S, S \subseteq Nat, S # {}
                    PROVE  \E i \in S : \A j \in S : i <= j
<1> DEFINE R == OpToRel(<, Nat)
<1>1. IsWellFoundedOn(R, Nat)
  BY NatLessThanWellFounded, Zenon
<1>2. \A x, y \in Nat : x < y => <<x, y>> \in R
  BY Zenon DEF OpToRel
<1>. HIDE DEF R
<1>3. PICK i \in S : \A j \in S : ~ (<<j, i>> \in R)
  BY <1>1, WFMin
<1>4. ASSUME NEW j \in S PROVE i <= j
  <2>1. ~(j < i)
    BY <1>2, <1>3, <1>4
  <2>. QED BY <2>1
<1>. QED BY <1>4

LEMMA SelectedIsListed ==
  ASSUME NEW list \in Seq(Runs), list # <<>>
  PROVE  /\ Selected(list) \in Commits
         /\ \E i \in DOMAIN list :
              /\ list[i].commit = Selected(list)
              /\ list[i].result = "failure" \/ Failing(list) = {}
<1>1. Len(list) \in Nat \ {0} /\ DOMAIN list = 1 .. Len(list)
  <2>. HIDE DEF Runs
  <2>. QED OBVIOUS
<1>2. \A i \in DOMAIN list : list[i].commit \in Commits
  <2>1. \A i \in DOMAIN list : list[i] \in Runs
    OBVIOUS
  <2>. QED BY <2>1 DEF Runs
<1>3. CASE Failing(list) = {}
  BY <1>1, <1>2, <1>3 DEF Selected
<1>4. CASE Failing(list) # {}
  <2>1. Failing(list) \subseteq Nat
    BY <1>1 DEF Failing
  <2>2. \E i \in Failing(list) : \A j \in Failing(list) : i <= j
    BY <1>4, <2>1, LeastIndex
  <2>3. First(list, Failing(list)) \in Failing(list)
    BY <2>2 DEF First
  <2>4. First(list, Failing(list)) \in DOMAIN list
        /\ list[First(list, Failing(list))].result = "failure"
    BY <2>3 DEF Failing
  <2>. QED BY <1>2, <1>4, <2>4 DEF Selected
<1>. QED BY <1>3, <1>4

-----------------------------------------------------------------------------
(* The steps of the tokens *)

LEMMA ScenarioType ==
  ASSUME TypeOK
  PROVE  /\ scenario.requests \subseteq Requests /\ scenario.faults \in Nat
         /\ \A r \in scenario.requests : r \in Requests
BY IncidentsAssumption DEF TypeOK

LEMMA TokensFollow == ASSUME TypeOK, [Next]_vars PROVE [TokenNext]_tokenVars
<1>1. ASSUME NEW r \in Requests, Released(r) PROVE [TokenNext]_tokenVars
  BY <1>1 DEF Released, TokenNext
<1>2. ASSUME NEW r \in Requests, FetchStep(r) PROVE [TokenNext]_tokenVars
  BY <1>1, <1>2 DEF FetchStep, Begin, Overlook, GetToken, FetchCommits, FetchRuns,
                    ContextFails, FetchDiff, FetchPulls, TokenNext, tokenVars
<1>3. ASSUME NEW r \in Requests, IncidentStep(r) PROVE UNCHANGED tokenVars
  BY <1>3 DEF IncidentStep, Recall, RecallFails, Investigate, SaveIncident, Remember,
              RememberFails, StepFails
<1>4. CASE Push \/ RunEnds
  BY <1>4 DEF Push, RunEnds
<1>5. CASE Tick \/ \E i \in Installations : Revoke(i)
  BY <1>5 DEF TokenNext
<1>6. CASE UNCHANGED vars
  BY <1>6 DEF vars
<1>. QED BY <1>2, <1>3, <1>4, <1>5, <1>6, ScenarioType DEF Next

-----------------------------------------------------------------------------
(* Type correctness *)

LEMMA GotoType ==
  ASSUME TypeOK, NEW r \in Requests, NEW s, Goto(r, s)
  PROVE  /\ stage'[r] = s
         /\ \A q \in Requests : q # r => stage'[q] = stage[q]
         /\ s \in Stages => stage' \in [Requests -> Stages]
BY DEF TypeOK, Goto

LEMMA FaultType ==
  ASSUME TypeOK, Fault \/ UNCHANGED faults, UNCHANGED scenario
  PROVE  faults' \in 0 .. scenario'.faults
BY ScenarioType DEF TypeOK, Fault

LEMMA PushType ==
  ASSUME runs \in Seq(Runs), NEW new \in Runs
  PROVE  <<new>> \o runs \in Seq(Runs)
<1>1. <<new>> \in Seq(Runs)
  <2>. HIDE DEF Runs
  <2>. QED OBVIOUS
<1>. QED BY <1>1, ConcatProperties

LEMMA PageType ==
  ASSUME runs \in Seq(Runs),
         NEW n, n = IF Len(runs) < PageSize THEN Len(runs) ELSE PageSize
  PROVE  /\ SubSeq(runs, 1, n) \in Seq(Runs)
         /\ runs # <<>> => SubSeq(runs, 1, n) # <<>>
<1>. HIDE DEF Runs
<1>1. /\ Len(runs) \in Nat /\ PageSize \in Nat \ {0}
      /\ \A i \in 1 .. Len(runs) : runs[i] \in Runs
  BY IncidentsAssumption
<1>2. n \in Nat /\ n <= Len(runs)
  BY <1>1
<1>3. \A i \in 1 .. n : runs[i] \in Runs
  BY <1>1, <1>2
<1>4. /\ SubSeq(runs, 1, n) \in Seq(Runs)
      /\ Len(SubSeq(runs, 1, n)) = IF 1 <= n THEN n - 1 + 1 ELSE 0
  BY <1>2, <1>3, SubSeqProperties
<1>5. ASSUME runs # <<>> PROVE SubSeq(runs, 1, n) # <<>>
  <2>1. Len(runs) # 0
    BY <1>5, EmptySeq
  <2>2. 1 <= n
    BY <2>1, <1>1
  <2>. QED BY <2>2, <1>2, <1>4
<1>. QED BY <1>4, <1>5

LEMMA InitContext == Init => ContextInv
<1>. SUFFICES ASSUME Init PROVE ContextInv
  OBVIOUS
<1>1. TypeOK
  <2>1. TokensTypeOK
    BY TokensInitInv DEF Init, TokensInv
  <2>2. runs \in Seq(Runs) /\ faults \in 0 .. scenario.faults
    BY IncidentsAssumption DEF Init
  <2>3. page \in [Requests -> Seq(Runs) \cup {None}]
    BY DEF Init
  <2>4. stage \in [Requests -> Stages]
    BY DEF Init, Stages
  <2>5. diff \in [Requests -> Parts] /\ pulls \in [Requests -> Parts]
    BY DEF Init, Parts
  <2>6. recalled \in [Requests -> SUBSET Requests]
    BY DEF Init
  <2>. QED BY <2>1, <2>2, <2>3, <2>4, <2>5, <2>6 DEF Init, TypeOK
<1>2. FetchFollows /\ FetchShows /\ SavedFollows
  BY DEF Init, FetchFollows, FetchShows, SavedFollows, Fetching
<1>3. PartsOfSelected
  BY IncidentsAssumption DEF Init, PartsOfSelected
<1>4. RecallStands
  <2>1. \A r \in Requests : recalled[r] = {}
    BY DEF Init
  <2>2. Cardinality({}) = 0 /\ RecallLimit \in Nat
    BY FS_EmptySet, IncidentsAssumption
  <2>3. \A r \in Requests : Cardinality(recalled[r]) <= RecallLimit
    <3>1. 0 <= RecallLimit
      BY <2>2
    <3>. QED BY <2>1, <2>2, <3>1, Zenon
  <2>. QED BY <2>1, <2>3 DEF RecallStands, PrecedentsStand
<1>. QED BY <1>1, <1>2, <1>3, <1>4 DEF ContextInv

LEMMA NextType == ASSUME TypeOK, FetchFollows, PartsOfSelected, TokensTypeOK', [Next]_vars
                  PROVE  TypeOK'
<1>1. CASE Push
  <2>1. Len(runs) \in Nat /\ scenario.runs \in 0 .. MaxRuns /\ MaxRuns \in Nat
    BY IncidentsAssumption DEF TypeOK
  <2>2. [commit |-> Len(runs) + 1, result |-> "running"] \in Runs
    BY <1>1, <2>1 DEF Push, Runs, Commits
  <2>3. runs' \in Seq(Runs)
    BY <1>1, <2>2, PushType DEF Push, TypeOK
  <2>. QED BY <1>1, <2>3 DEF Push, TypeOK, tokenVars, memoryVars
<1>2. CASE RunEnds
  <2>1. PICK i \in DOMAIN runs, result \in {"success", "failure"} :
          runs' = [runs EXCEPT ![i].result = result]
    BY <1>2 DEF RunEnds
  <2>2. runs[i] \in Runs /\ i \in 1 .. Len(runs)
    BY <2>1 DEF TypeOK
  <2>3. [runs[i] EXCEPT !.result = result] \in Runs
    BY <2>2 DEF Runs
  <2>4. runs' \in Seq(Runs)
    BY <2>1, <2>2, <2>3, ExceptSeq DEF TypeOK
  <2>. QED BY <1>2, <2>4 DEF RunEnds, TypeOK, tokenVars, memoryVars
<1>3. ASSUME NEW r \in Requests, FetchStep(r) PROVE TypeOK'
  <2>1. CASE Begin(r)
    BY <2>1, <1>3, GotoType, FaultType DEF TypeOK, Begin, Stages, memoryVars, repoVars
  <2>2. CASE Overlook(r)
    BY <2>2, <1>3, GotoType, FaultType DEF TypeOK, Overlook, Stages, memoryVars
  <2>3. CASE GetToken(r)
    BY <2>3, <1>3, FaultType DEF TypeOK, GetToken, memoryVars, repoVars
  <2>4. CASE FetchCommits(r)
    BY <2>4, <1>3, GotoType, FaultType DEF TypeOK, FetchCommits, Stages, memoryVars, repoVars
  <2>5. CASE FetchRuns(r)
    <3>1. page' \in [Requests -> Seq(Runs) \cup {None}]
      BY <2>5, PageType DEF TypeOK, FetchRuns
    <3>2. stage' \in [Requests -> Stages]
      BY <2>5, GotoType DEF FetchRuns, Stages
    <3>. QED BY <2>5, <3>1, <3>2, FaultType DEF TypeOK, FetchRuns, memoryVars
  <2>6. CASE ContextFails(r)
    <3>1. r \in Integrated
      BY <2>6 DEF ContextFails, FetchFollows
    <3>2. faults' \in 0 .. scenario'.faults
      BY <2>6, FaultType DEF ContextFails
    <3>3. stage' \in [Requests -> Stages]
      BY <2>6, GotoType DEF ContextFails, Stages
    <3>. QED BY <2>6, <3>1, <3>2, <3>3 DEF TypeOK, ContextFails, ContextError, memoryVars
  <2>7. CASE FetchDiff(r)
    <3>1. Subject(r) \in Parts /\ Error \in Parts
      BY <2>7, SelectedIsListed DEF FetchDiff, FetchFollows, Subject, Parts
    <3>2. diff' \in [Requests -> Parts]
      BY <2>7, <3>1 DEF TypeOK, FetchDiff
    <3>3. faults' \in 0 .. scenario'.faults
      BY <2>7, FaultType DEF FetchDiff
    <3>4. stage' \in [Requests -> Stages]
      BY <2>7, GotoType DEF FetchDiff, Stages
    <3>. QED BY <2>7, <3>2, <3>3, <3>4 DEF TypeOK, FetchDiff, memoryVars
  <2>8. CASE FetchPulls(r)
    <3>1. Subject(r) \in Parts /\ Error \in Parts /\ None \in Parts
      BY <2>8, SelectedIsListed DEF FetchPulls, FetchFollows, Subject, Parts
    <3>2. pulls' \in [Requests -> Parts]
      BY <2>8, <3>1 DEF TypeOK, FetchPulls
    <3>3. faults' \in 0 .. scenario'.faults
      BY <2>8, FaultType DEF FetchPulls
    <3>4. stage' \in [Requests -> Stages]
      BY <2>8, GotoType DEF FetchPulls, Stages
    <3>. QED BY <2>8, <3>2, <3>3, <3>4 DEF TypeOK, FetchPulls, memoryVars
  <2>. QED BY <1>3, <2>1, <2>2, <2>3, <2>4, <2>5, <2>6, <2>7, <2>8 DEF FetchStep
<1>4. ASSUME NEW r \in Requests, IncidentStep(r) PROVE TypeOK'
  <2>1. CASE Recall(r)
    <3>1. recalled' \in [Requests -> SUBSET Requests]
      BY <2>1 DEF TypeOK, Recall
    <3>. QED BY <2>1, <3>1, GotoType, FaultType DEF TypeOK, Recall, Stages, repoVars
  <2>2. CASE RecallFails(r)
    BY <2>2, GotoType, FaultType DEF TypeOK, RecallFails, Stages, memoryVars, repoVars
  <2>3. CASE Investigate(r)
    BY <2>3, GotoType, FaultType DEF TypeOK, Investigate, Stages, memoryVars, repoVars
  <2>4. CASE SaveIncident(r)
    BY <2>4, GotoType, FaultType DEF TypeOK, SaveIncident, Stages, repoVars
  <2>5. CASE Remember(r)
    BY <2>5, GotoType, FaultType DEF TypeOK, Remember, Stages, repoVars
  <2>6. CASE RememberFails(r)
    BY <2>6, GotoType, FaultType DEF TypeOK, RememberFails, Told, Stages, repoVars
  <2>7. CASE StepFails(r)
    BY <2>7, GotoType, FaultType DEF TypeOK, StepFails, Stages, memoryVars, repoVars
  <2>. QED BY <1>4, <2>1, <2>2, <2>3, <2>4, <2>5, <2>6, <2>7 DEF IncidentStep
<1>5. CASE /\ \/ Tick /\ UNCHANGED faults
              \/ \E i \in Installations : Fault /\ Revoke(i)
           /\ UNCHANGED <<scenario, repoVars, stage, memoryVars>>
  BY <1>5, FaultType DEF TypeOK, repoVars, memoryVars
<1>6. CASE UNCHANGED vars
  BY <1>6 DEF vars, repoVars, memoryVars, TypeOK
<1>. QED BY <1>1, <1>2, <1>3, <1>4, <1>5, <1>6, ScenarioType DEF Next

-----------------------------------------------------------------------------
(* What has been fetched *)

LEMMA FetchStepInv == ASSUME ContextInv, [Next]_vars
                      PROVE  FetchFollows' /\ FetchShows' /\ PartsOfSelected'
<1>. USE DEF ContextInv
<1>1. CASE Push \/ RunEnds
  BY <1>1 DEF Push, RunEnds, FetchFollows, FetchShows, PartsOfSelected
<1>2. ASSUME NEW r \in Requests, FetchStep(r)
      PROVE  FetchFollows' /\ FetchShows' /\ PartsOfSelected'
  <2>1. CASE Begin(r)
    <3>1. /\ stage[r] = "new" /\ Goto(r, IF r \in Integrated THEN "commits" ELSE "recall")
          /\ UNCHANGED <<page, diff, pulls, contextError, overlooked>>
      BY <2>1 DEF Begin, repoVars
    <3>g. \A q \in Requests :
            stage'[q] = IF q = r THEN (IF r \in Integrated THEN "commits" ELSE "recall")
                                 ELSE stage[q]
      BY <3>1, GotoType
    <3>f. FetchFollows'
      BY <3>1, <3>g DEF FetchFollows, Fetching
    <3>s. FetchShows'
      BY <3>1, <3>g DEF FetchShows, FetchFollows, Fetching
    <3>p. PartsOfSelected'
      BY <3>1 DEF PartsOfSelected
    <3>. QED BY <3>f, <3>s, <3>p
  <2>2. CASE Overlook(r)
    <3>1. /\ stage[r] = "new" /\ Goto(r, "recall") /\ overlooked' = overlooked \cup {r}
          /\ UNCHANGED <<page, diff, pulls, contextError>>
      BY <2>2 DEF Overlook
    <3>g. \A q \in Requests : stage'[q] = IF q = r THEN "recall" ELSE stage[q]
      BY <3>1, GotoType
    <3>f. FetchFollows'
      BY <3>1, <3>g DEF FetchFollows, Fetching
    <3>s. FetchShows'
      BY <3>1, <3>g DEF FetchShows, FetchFollows, Fetching
    <3>p. PartsOfSelected'
      BY <3>1 DEF PartsOfSelected
    <3>. QED BY <3>f, <3>s, <3>p
  <2>3. CASE GetToken(r)
    BY <2>3 DEF GetToken, repoVars, FetchFollows, FetchShows, PartsOfSelected
  <2>4. CASE FetchCommits(r)
    <3>1. /\ stage[r] = "commits" /\ Goto(r, "runs")
          /\ UNCHANGED <<page, diff, pulls, contextError, overlooked>>
      BY <2>4 DEF FetchCommits, repoVars
    <3>g. \A q \in Requests : stage'[q] = IF q = r THEN "runs" ELSE stage[q]
      BY <3>1, GotoType
    <3>f. FetchFollows'
      BY <3>1, <3>g DEF FetchFollows, Fetching
    <3>s. FetchShows'
      BY <3>1, <3>g DEF FetchShows, FetchFollows, Fetching
    <3>p. PartsOfSelected'
      BY <3>1 DEF PartsOfSelected
    <3>. QED BY <3>f, <3>s, <3>p
  <2>5. CASE FetchRuns(r)
    <3> DEFINE n == IF Len(runs) < PageSize THEN Len(runs) ELSE PageSize
               listed == SubSeq(runs, 1, n)
    <3>1. /\ stage[r] = "runs" /\ page' = [page EXCEPT ![r] = listed]
          /\ IF runs = <<>> THEN Goto(r, "recall") ELSE Goto(r, "diff")
          /\ UNCHANGED <<diff, pulls, contextError, overlooked>>
      BY <2>5 DEF FetchRuns
    <3>2. listed \in Seq(Runs) /\ (runs # <<>> => listed # <<>>)
      BY PageType DEF TypeOK
    <3>3. runs = <<>> => listed = <<>>
      BY SubSeqEmpty, IncidentsAssumption
    <3>. HIDE DEF listed
    <3>4. /\ page'[r] = listed /\ \A q \in Requests : q # r => page'[q] = page[q]
      BY <3>1 DEF TypeOK
    <3>5. diff[r] = None /\ pulls[r] = None /\ r \notin contextError
      BY <3>1 DEF FetchFollows, Fetching
    <3>6. CASE runs = <<>>
      <4>1. \A q \in Requests : stage'[q] = IF q = r THEN "recall" ELSE stage[q]
        BY <3>1, <3>6, GotoType
      <4>2. FetchFollows'
        BY <4>1, <3>1, <3>4 DEF FetchFollows, Fetching
      <4>4. FetchShows'
        BY <4>1, <3>1, <3>3, <3>4, <3>5, <3>6 DEF FetchShows, Fetching
      <4>3. PartsOfSelected'
        BY <3>1, <3>4, <3>5, IncidentsAssumption DEF PartsOfSelected
      <4>. QED BY <4>2, <4>3, <4>4
    <3>7. CASE runs # <<>>
      <4>1. \A q \in Requests : stage'[q] = IF q = r THEN "diff" ELSE stage[q]
        BY <3>1, <3>7, GotoType
      <4>2. FetchFollows'
        BY <4>1, <3>1, <3>2, <3>4, <3>5, <3>7 DEF FetchFollows, Fetching
      <4>4. FetchShows'
        BY <4>1, <3>1, <3>4, <3>5 DEF FetchShows, Fetching
      <4>3. PartsOfSelected'
        BY <3>1, <3>4, <3>5, IncidentsAssumption DEF PartsOfSelected
      <4>. QED BY <4>2, <4>3, <4>4
    <3>. QED BY <3>6, <3>7
  <2>6. CASE ContextFails(r)
    <3>1. /\ stage[r] \in {"commits", "runs"} /\ Goto(r, "recall")
          /\ contextError' = contextError \cup {r}
          /\ UNCHANGED <<page, diff, pulls, overlooked>>
      BY <2>6 DEF ContextFails, ContextError
    <3>g. \A q \in Requests : stage'[q] = IF q = r THEN "recall" ELSE stage[q]
      BY <3>1, GotoType
    <3>f. FetchFollows'
      BY <3>1, <3>g DEF FetchFollows, Fetching
    <3>s. FetchShows'
      BY <3>1, <3>g DEF FetchShows, FetchFollows, Fetching
    <3>p. PartsOfSelected'
      BY <3>1 DEF PartsOfSelected
    <3>. QED BY <3>f, <3>s, <3>p
  <2>7. CASE FetchDiff(r)
    <3>1. /\ stage[r] = "diff" /\ Goto(r, "pulls")
          /\ \E part \in {Subject(r), Error} : diff' = [diff EXCEPT ![r] = part]
          /\ UNCHANGED <<page, pulls, contextError, overlooked>>
      BY <2>7 DEF FetchDiff
    <3>2. page[r] \in Seq(Runs) /\ page[r] # <<>> /\ pulls[r] = None /\ r \notin contextError
      BY <3>1 DEF FetchFollows, Fetching
    <3>3. Subject(r) \in Commits /\ Subject(r) = Selected(page[r])
      BY <3>2, SelectedIsListed DEF Subject
    <3>4. /\ diff'[r] \in {Selected(page[r]), Error}
          /\ \A q \in Requests : q # r => diff'[q] = diff[q]
      BY <3>1, <3>3 DEF TypeOK
    <3>5. diff'[r] # None
      BY <3>3, <3>4, IncidentsAssumption
    <3>g. \A q \in Requests : stage'[q] = IF q = r THEN "pulls" ELSE stage[q]
      BY <3>1, GotoType
    <3>6. FetchFollows' /\ FetchShows'
      <4>1. FetchFollows'
        BY <3>1, <3>2, <3>4, <3>5, <3>g DEF FetchFollows, Fetching
      <4>2. FetchShows'
        BY <3>1, <3>2, <3>4, <3>g DEF FetchShows, Fetching
      <4>. QED BY <4>1, <4>2
    <3>7. PartsOfSelected'
      BY <3>1, <3>2, <3>4, IncidentsAssumption DEF PartsOfSelected
    <3>. QED BY <3>6, <3>7
  <2>8. CASE FetchPulls(r)
    <3>1. /\ stage[r] = "pulls" /\ Goto(r, "recall")
          /\ \E part \in {Subject(r), None, Error} : pulls' = [pulls EXCEPT ![r] = part]
          /\ UNCHANGED <<page, diff, contextError, overlooked>>
      BY <2>8 DEF FetchPulls
    <3>2. /\ page[r] \in Seq(Runs) /\ page[r] # <<>> /\ diff[r] # None
          /\ r \notin contextError /\ page[r] # None
      BY <3>1, IncidentsAssumption DEF FetchFollows, Fetching
    <3>3. /\ pulls'[r] \in {Selected(page[r]), None, Error}
          /\ \A q \in Requests : q # r => pulls'[q] = pulls[q]
      BY <3>1 DEF TypeOK, Subject
    <3>g. \A q \in Requests : stage'[q] = IF q = r THEN "recall" ELSE stage[q]
      BY <3>1, GotoType
    <3>4. FetchFollows' /\ FetchShows'
      <4>1. FetchFollows'
        BY <3>1, <3>3, <3>g DEF FetchFollows, Fetching
      <4>2. FetchShows'
        BY <3>1, <3>2, <3>3, <3>g DEF FetchShows, Fetching
      <4>. QED BY <4>1, <4>2
    <3>5. PartsOfSelected'
      BY <3>1, <3>2, <3>3, IncidentsAssumption DEF PartsOfSelected
    <3>. QED BY <3>4, <3>5
  <2>. QED BY <1>2, <2>1, <2>2, <2>3, <2>4, <2>5, <2>6, <2>7, <2>8 DEF FetchStep
<1>3. ASSUME NEW r \in Requests, IncidentStep(r)
      PROVE  FetchFollows' /\ FetchShows' /\ PartsOfSelected'
  <2>1. \E s \in {"reason", "save", "remember", "done", "failed"} : Goto(r, s)
    BY <1>3 DEF IncidentStep, Recall, RecallFails, Investigate, SaveIncident, Remember,
                RememberFails, StepFails
  <2>2. stage[r] \notin Fetching
    BY <1>3 DEF IncidentStep, Recall, RecallFails, Investigate, SaveIncident, Remember,
                RememberFails, StepFails, Fetching
  <2>3. UNCHANGED <<page, diff, pulls, contextError, overlooked>>
    BY <1>3 DEF IncidentStep, Recall, RecallFails, Investigate, SaveIncident, Remember,
                RememberFails, StepFails, repoVars
  <2>4. /\ stage'[r] \notin Fetching
        /\ \A q \in Requests : q # r => stage'[q] = stage[q]
    BY <2>1, GotoType DEF Fetching
  <2>5. FetchFollows'
    BY <2>3, <2>4 DEF FetchFollows, Fetching
  <2>6. FetchShows'
    BY <2>2, <2>3, <2>4 DEF FetchShows
  <2>7. PartsOfSelected'
    BY <2>3 DEF PartsOfSelected
  <2>. QED BY <2>5, <2>6, <2>7
<1>4. CASE /\ \/ Tick /\ UNCHANGED faults
              \/ \E i \in Installations : Fault /\ Revoke(i)
           /\ UNCHANGED <<scenario, repoVars, stage, memoryVars>>
  BY <1>4 DEF repoVars, FetchFollows, FetchShows, PartsOfSelected
<1>5. CASE UNCHANGED vars
  BY <1>5 DEF vars, repoVars, FetchFollows, FetchShows, PartsOfSelected
<1>. QED BY <1>1, <1>2, <1>3, <1>4, <1>5, ScenarioType DEF Next

-----------------------------------------------------------------------------
(* What has been saved and recalled *)

LEMMA MemoryStepInv == ASSUME ContextInv, [Next]_vars
                       PROVE  SavedFollows' /\ RecallStands'
<1>. USE DEF ContextInv
<1>1. CASE Push \/ RunEnds
  BY <1>1 DEF Push, RunEnds, memoryVars, SavedFollows, RecallStands, PrecedentsStand
<1>2. ASSUME NEW r \in Requests, FetchStep(r) PROVE SavedFollows' /\ RecallStands'
  <2>1. /\ UNCHANGED memoryVars
        /\ \/ UNCHANGED stage
           \/ /\ stage[r] \in Fetching
              /\ \E s \in Fetching \cup {"recall"} : Goto(r, s)
    BY <1>2 DEF FetchStep, Begin, Overlook, GetToken, FetchCommits, FetchRuns, ContextFails,
                FetchDiff, FetchPulls, Fetching
  <2>2. RecallStands'
    BY <2>1 DEF memoryVars, RecallStands, PrecedentsStand
  <2>3. SavedFollows'
    <3>1. CASE UNCHANGED stage
      BY <2>1, <3>1 DEF memoryVars, SavedFollows
    <3>2. ASSUME stage[r] \in Fetching, NEW s \in Fetching \cup {"recall"}, Goto(r, s)
          PROVE  SavedFollows'
      <4>1. \A q \in Requests : stage'[q] = IF q = r THEN s ELSE stage[q]
        BY <3>2, GotoType
      <4>2. incidents \subseteq Requests /\ memories \subseteq Requests
        BY DEF TypeOK
      <4>. QED BY <2>1, <3>2, <4>1, <4>2 DEF memoryVars, SavedFollows, Fetching
    <3>. QED BY <2>1, <3>1, <3>2
  <2>. QED BY <2>2, <2>3
<1>3. ASSUME NEW r \in Requests, IncidentStep(r) PROVE SavedFollows' /\ RecallStands'
  <2>1. CASE Recall(r)
    <3>1. PICK S \in SUBSET memories :
            /\ Searched(r, S)
            /\ recalled' = [recalled EXCEPT ![r] = {m \in S : Distance[r][m] <= MaxDistance}]
      BY <2>1 DEF Recall
    <3>2. /\ stage[r] = "recall" /\ Goto(r, "reason")
          /\ UNCHANGED <<incidents, memories, memoryError>>
      BY <2>1 DEF Recall
    <3>3. SavedFollows'
      <4>1. \A q \in Requests : stage'[q] = IF q = r THEN "reason" ELSE stage[q]
        BY <3>2, GotoType
      <4>2. incidents \subseteq Requests /\ memories \subseteq Requests
        BY DEF TypeOK
      <4>. QED BY <3>2, <4>1, <4>2 DEF SavedFollows
    <3>4. /\ recalled'[r] = {m \in S : Distance[r][m] <= MaxDistance}
          /\ \A q \in Requests : q # r => recalled'[q] = recalled[q]
      BY <3>1 DEF TypeOK
    <3>5. r \notin memories /\ memories \subseteq incidents /\ memories \subseteq Requests
      BY <3>2 DEF SavedFollows, TypeOK
    <3>6. recalled'[r] \subseteq memories /\ recalled'[r] \subseteq S
      BY <3>4
    <3>7. Cardinality(recalled'[r]) <= RecallLimit
      <4>1. IsFiniteSet(S) /\ Cardinality(S) <= RecallLimit /\ RecallLimit \in Nat
        BY <3>1, IncidentsAssumption DEF Searched
      <4>2. /\ Cardinality(S) \in Nat /\ Cardinality(recalled'[r]) \in Nat
            /\ Cardinality(recalled'[r]) <= Cardinality(S)
        BY <3>6, <4>1, FS_Subset, FS_CardinalityType
      <4>. QED BY <4>1, <4>2
    <3>8. \A m \in recalled'[r] :
            EnvironmentOf[m] = EnvironmentOf[r] /\ Distance[r][m] <= MaxDistance
      BY <3>1, <3>4 DEF Searched, Candidates
    <3>9. \A q \in Requests : r \notin recalled[q]
      BY <3>5 DEF RecallStands
    <3>10. \A m \in recalled'[r] : r \notin recalled'[m]
      BY <3>4, <3>5, <3>6, <3>9
    <3>11. PrecedentsStand'
      <4>. SUFFICES ASSUME NEW q \in Requests
                    PROVE  /\ recalled'[q] \subseteq incidents /\ Cardinality(recalled'[q]) <= RecallLimit
                           /\ \A m \in recalled'[q] :
                                /\ EnvironmentOf[m] = EnvironmentOf[q] /\ Distance[q][m] <= MaxDistance
                                /\ q \notin recalled'[m]
        BY <3>2 DEF PrecedentsStand
      <4>1. CASE q = r
        BY <3>5, <3>6, <3>7, <3>8, <3>10, <4>1
      <4>2. CASE q # r
        <5>1. recalled'[q] = recalled[q] /\ r \notin recalled[q] /\ recalled[q] \subseteq memories
          BY <3>4, <3>9, <4>2 DEF RecallStands
        <5>2. \A m \in recalled'[q] : recalled'[m] = recalled[m]
          BY <3>4, <3>5, <5>1
        <5>. QED BY <5>1, <5>2 DEF RecallStands, PrecedentsStand
      <4>. QED BY <4>1, <4>2
    <3>12. RecallStands'
      BY <3>2, <3>4, <3>6, <3>11 DEF RecallStands
    <3>. QED BY <3>3, <3>12
  <2>2. CASE RecallFails(r) \/ Investigate(r)
    <3>1. /\ UNCHANGED <<recalled, incidents, memories, memoryError>>
          /\ stage[r] \in {"recall", "reason"}
          /\ \E s \in {"reason", "save"} : Goto(r, s)
      BY <2>2 DEF RecallFails, Investigate, memoryVars
    <3>2. RecallStands'
      BY <3>1 DEF RecallStands, PrecedentsStand
    <3>3. SavedFollows'
      <4>1. PICK s \in {"reason", "save"} :
              \A q \in Requests : stage'[q] = IF q = r THEN s ELSE stage[q]
        BY <3>1, GotoType
      <4>2. incidents \subseteq Requests /\ memories \subseteq Requests
        BY DEF TypeOK
      <4>. QED BY <3>1, <4>1, <4>2 DEF SavedFollows
    <3>. QED BY <3>2, <3>3
  <2>3. CASE SaveIncident(r)
    <3>1. /\ stage[r] = "save" /\ Goto(r, "remember") /\ incidents' = incidents \cup {r}
          /\ UNCHANGED <<recalled, memories, memoryError>>
      BY <2>3 DEF SaveIncident
    <3>2. RecallStands'
      BY <3>1 DEF RecallStands, PrecedentsStand
    <3>3. SavedFollows'
      <4>1. \A q \in Requests : stage'[q] = IF q = r THEN "remember" ELSE stage[q]
        BY <3>1, GotoType
      <4>2. incidents \subseteq Requests /\ memories \subseteq Requests
        BY DEF TypeOK
      <4>. QED BY <3>1, <4>1, <4>2 DEF SavedFollows
    <3>. QED BY <3>2, <3>3
  <2>4. CASE Remember(r)
    <3>1. /\ stage[r] = "remember" /\ Goto(r, "done") /\ memories' = memories \cup {r}
          /\ UNCHANGED <<recalled, incidents, memoryError>>
      BY <2>4 DEF Remember
    <3>2. RecallStands'
      BY <3>1 DEF RecallStands, PrecedentsStand
    <3>3. SavedFollows'
      <4>1. \A q \in Requests : stage'[q] = IF q = r THEN "done" ELSE stage[q]
        BY <3>1, GotoType
      <4>2. incidents \subseteq Requests /\ memories \subseteq Requests
        BY DEF TypeOK
      <4>. QED BY <3>1, <4>1, <4>2 DEF SavedFollows
    <3>. QED BY <3>2, <3>3
  <2>5. CASE RememberFails(r)
    <3>1. /\ stage[r] = "remember" /\ Goto(r, "done") /\ memoryError' = memoryError \cup {r}
          /\ memories' \in {memories, memories \cup {r}}
          /\ UNCHANGED <<recalled, incidents>>
      BY <2>5 DEF RememberFails, Told
    <3>2. RecallStands'
      BY <3>1 DEF RecallStands, PrecedentsStand
    <3>3. SavedFollows'
      <4>1. \A q \in Requests : stage'[q] = IF q = r THEN "done" ELSE stage[q]
        BY <3>1, GotoType
      <4>2. incidents \subseteq Requests /\ memories \subseteq Requests
        BY DEF TypeOK
      <4>. QED BY <3>1, <4>1, <4>2 DEF SavedFollows
    <3>. QED BY <3>2, <3>3
  <2>6. CASE StepFails(r)
    <3>1. /\ stage[r] \in {"reason", "save", "remember"} /\ Goto(r, "failed")
          /\ \/ UNCHANGED <<incidents, memories>>
             \/ stage[r] = "save" /\ incidents' = incidents \cup {r} /\ UNCHANGED memories
             \/ stage[r] = "remember" /\ memories' = memories \cup {r} /\ UNCHANGED incidents
          /\ UNCHANGED <<recalled, memoryError>>
      BY <2>6 DEF StepFails
    <3>2. RecallStands'
      BY <3>1 DEF RecallStands, PrecedentsStand
    <3>3. SavedFollows'
      <4>1. \A q \in Requests : stage'[q] = IF q = r THEN "failed" ELSE stage[q]
        BY <3>1, GotoType
      <4>2. incidents \subseteq Requests /\ memories \subseteq Requests
        BY DEF TypeOK
      <4>. QED BY <3>1, <4>1, <4>2 DEF SavedFollows
    <3>. QED BY <3>2, <3>3
  <2>. QED BY <1>3, <2>1, <2>2, <2>3, <2>4, <2>5, <2>6 DEF IncidentStep
<1>4. CASE /\ \/ Tick /\ UNCHANGED faults
              \/ \E i \in Installations : Fault /\ Revoke(i)
           /\ UNCHANGED <<scenario, repoVars, stage, memoryVars>>
  BY <1>4 DEF memoryVars, SavedFollows, RecallStands, PrecedentsStand
<1>5. CASE UNCHANGED vars
  BY <1>5 DEF vars, memoryVars, SavedFollows, RecallStands, PrecedentsStand
<1>. QED BY <1>1, <1>2, <1>3, <1>4, <1>5, ScenarioType DEF Next

-----------------------------------------------------------------------------
(* The theorems *)

\* The tokens and the requests keep their invariants together.
THEOREM Invariance == Spec => [](TokensInv /\ LogInv /\ ContextInv)
<1>1. Init => TokensInv /\ LogInv /\ ContextInv
  BY InitContext, TokensInitInv, LogInit DEF Init
<1>2. TokensInv /\ LogInv /\ ContextInv /\ [Next]_vars => (TokensInv /\ LogInv /\ ContextInv)'
  <2>. SUFFICES ASSUME TokensInv, LogInv, ContextInv, [Next]_vars
                PROVE  TokensInv' /\ LogInv' /\ ContextInv'
    OBVIOUS
  <2>1. [TokenNext]_tokenVars
    BY TokensFollow DEF ContextInv
  <2>2. TokensInv' /\ LogInv'
    BY <2>1, TokensStepInv, LogStepInv
  <2>3. TypeOK'
    BY <2>2, NextType DEF ContextInv, TokensInv
  <2>. QED BY <2>2, <2>3, FetchStepInv, MemoryStepInv DEF ContextInv
<1>. QED BY <1>1, <1>2, PTL DEF Spec

\* Every variable keeps its type.
THEOREM TypeCorrect == Spec => []TypeOK
<1>1. ContextInv => TypeOK
  BY DEF ContextInv
<1>. QED BY <1>1, Invariance, PTL

\* GitHubClient.FetchContext takes its token once and uses it for four calls: the margin
\* that installationToken leaves is longer than the calls may take.
THEOREM TokensLast == Spec => []TokensOutliveFetches
<1>. QED BY InvImpliesOutlive, Invariance, PTL

\* A revoked token is used no longer than it would have been cached.
THEOREM RevocationIsBounded == Spec => []RevocationHeals
<1>. QED BY InvImpliesHeals, Invariance, PTL

\* A token taken once serves all calls of a fetch, and a revoked one is not used forever.
THEOREM TokensHold == Spec => []TokensServe
BY TokensLast, RevocationIsBounded, PTL DEF TokensServe

\* Requests that miss the cache together are the only reason for another token.
THEOREM MintsHaveCause == Spec => []MintsJustified
<1>1. LogInv => MintsJustified
  BY DEF LogInv
<1>. QED BY <1>1, Invariance, PTL

\* The diff and the pull requests are of the commit of one run that was listed.
THEOREM ContextIsOfOneCommit == Spec => []OneCommit
<1>1. ContextInv => OneCommit
  <2>. SUFFICES ASSUME ContextInv, NEW r \in Requests
                PROVE  /\ diff[r] \in Commits /\ pulls[r] \in Commits => diff[r] = pulls[r]
                       /\ \A c \in {diff[r], pulls[r]} \cap Commits :
                            \E i \in DOMAIN page[r] :
                              /\ page[r][i].commit = c
                              /\ page[r][i].result = "failure" \/ Failing(page[r]) = {}
    BY DEF OneCommit
  <2>1. \A c \in {diff[r], pulls[r]} \cap Commits :
          page[r] \in Seq(Runs) /\ page[r] # <<>> /\ c = Selected(page[r])
    BY DEF ContextInv, PartsOfSelected
  <2>. QED BY <2>1, SelectedIsListed
<1>. QED BY <1>1, Invariance, PTL

\* Whatever fails, IncidentService.Create's answer says so.
THEOREM FailuresAreShown == Spec => []FailuresShow
<1>1. ContextInv => FailuresShow
  <2>. SUFFICES ASSUME ContextInv PROVE FailuresShow
    OBVIOUS
  <2>1. \A r \in incidents : r \in Requests /\ stage[r] \notin Fetching
    BY DEF ContextInv, TypeOK, SavedFollows, Fetching
  <2>2. contextError \subseteq Integrated
    BY DEF ContextInv, TypeOK
  <2>. QED BY <2>1, <2>2 DEF ContextInv, FetchShows, SavedFollows, FailuresShow
<1>. QED BY <1>1, Invariance, PTL

\* What is shown of earlier incidents was saved, is of the environment, like the new one
\* and within the limit, and no two incidents are shown each other.
THEOREM PrecedentsHold == Spec => []PrecedentsStand
<1>1. ContextInv => PrecedentsStand
  BY DEF ContextInv, RecallStands
<1>. QED BY <1>1, Invariance, PTL

=============================================================================
