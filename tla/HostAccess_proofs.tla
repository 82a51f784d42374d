------------------------- MODULE HostAccess_proofs --------------------------
(***************************************************************************)
(* Proofs about HostAccess and the ConnectionClients it is built on, for   *)
(* any jobs, tools, regions, requests and polls, any groups of them and    *)
(* any number of faults.                                                   *)
(***************************************************************************)
EXTENDS HostAccess, TLAPS

-----------------------------------------------------------------------------
(* The invariant of the jobs *)

\* What a job has heard of a command is true, unless it gave the command up.
HeardIsTrue ==
  \A j \in Jobs, s \in Steps : heard[j][s] \in {"ok", "bad"} => command[j][s] = heard[j][s]

\* Only a job that is ready waits for a command, and it needs the command.
WaitingIsNeeded ==
  \A j \in Jobs, s \in Steps : command[j][s] # "none" /\ ~Over(j, s) =>
    place[j] = "ready" /\ s \in Needed(j) /\ ~Skipped(j, s)

HealthComesLast ==
  \A j \in Jobs : command[j]["health"] # "none" => Over(j, "status")

VerifiesRestarted ==
  \A j \in Jobs :
    /\ phase[j] = "verify" => command[j]["restart"] = "ok"
    /\ \A s \in Checks : command[j][s] # "none" => phase[j] = "verify"

OutcomeIsTrue ==
  \A j \in Jobs :
    /\ outcome[j] # "none" <=> place[j] = "done"
    /\ outcome[j] = "healthy" =>
         /\ phase[j] = "verify" /\ command[j]["status"] = "ok"
         /\ j \in HealthURL => command[j]["health"] = "ok"
    /\ outcome[j] = "collected" => \A s \in Tools : Over(j, s)
    /\ outcome[j] = "found" => command[j]["discover"] = "ok"

\* Only a restart that was sent is run again.
RunsFollow == \A j \in again : command[j]["restart"] # "none"

JobsInv ==
  /\ JobsTypeOK /\ HeardIsTrue /\ WaitingIsNeeded /\ HealthComesLast /\ RunsFollow
  /\ VerifiesRestarted /\ OutcomeIsTrue /\ OneClientPerRegion

-----------------------------------------------------------------------------
(* The invariant of the requests and the polls *)

Submitted(r) == stage[r] \in {"credential", "discovery", "save", "register", "answered"}
Keyed(r) == r \in Enrollments \/ Via[r] = "ssh"

StagesFollow ==
  \A r \in Requests :
    /\ Submitted(r) => ProjectOf[r] \in projects
    /\ stage[r] = "discovery" => r \in Discoveries
    /\ stage[r] = "credential" => Keyed(r)
    /\ stage[r] \in {"discovery", "save", "register", "answered"} /\ Keyed(r) =>
         r \in credentials
    /\ stage[r] = "save" /\ r \in Discoveries => outcome[r] = "found"
    /\ stage[r] = "register" => r \in Enrollments /\ r \in environments
    /\ stage[r] = "answered" => r \in environments /\ (r \in Enrollments => r \in runners)

RowsFollow ==
  /\ \A r \in credentials :
       /\ stage[r] \notin {"new", "credential"}
       /\ stage[r] = "refused" => r \in BadURL \cap Enrollments
  /\ \A r \in environments :
       /\ ProjectOf[r] \in projects
       /\ Keyed(r) => r \in credentials
       /\ r \in Discoveries => outcome[r] = "found" /\ stage[r] \in {"answered", "failed"}
       /\ stage[r] \in {"register", "answered", "failed"}
  /\ \A r \in runners :
       r \in environments /\ r \in credentials /\ stage[r] \in {"answered", "failed"}

\* Index k of the saves covers what the i-th saved in a field of a runner's row.
Covers(k, i, r, f) ==
  /\ RunnerOf[saves[k]] = r
  /\ f \in Report[saves[k]] \/ readAt[saves[k]] < i

\* What was read had been saved by then, and what is saved was read before.
PollsFollow ==
  /\ \A i \in DOMAIN saves : poll[saves[i]] \in {"saved", "failed"} /\ readAt[saves[i]] < i
  /\ \A p \in Polls : poll[p] = "read" =>
       /\ readAt[p] <= Len(saves)
       /\ \A i \in 1 .. readAt[p] : \A f \in Report[saves[i]] :
            RunnerOf[saves[i]] = RunnerOf[p] =>
              \/ copy[p][f] = saves[i]
              \/ \E k \in i + 1 .. readAt[p] : Covers(k, i, RunnerOf[p], f)

AccessInv ==
  /\ TypeOK /\ StagesFollow /\ RowsFollow /\ NoPollRefused /\ PollsFollow /\ ReportsStand

-----------------------------------------------------------------------------
(* The jobs: helpers *)

LEMMA FaultsType == ASSUME faults \in 0 .. MaxFaults, Fault \/ UNCHANGED faults
                    PROVE  faults' \in 0 .. MaxFaults
BY FaultsAssumption DEF Fault

LEMMA PlaceStep ==
  ASSUME JobsTypeOK, NEW j \in Jobs, NEW p \in {"idle", "connecting", "ready", "done"}, Place(j, p)
  PROVE  /\ place' \in [Jobs -> {"idle", "connecting", "ready", "done"}]
         /\ place'[j] = p
         /\ \A i \in Jobs : i # j => place'[i] = place[i]
BY DEF JobsTypeOK, Place

LEMMA ReturnStep ==
  ASSUME JobsTypeOK, NEW j \in Jobs,
         NEW what \in {"failed", "healthy", "unhealthy", "collected", "found"}, Return(j, what)
  PROVE  /\ place' \in [Jobs -> {"idle", "connecting", "ready", "done"}]
         /\ outcome' \in [Jobs -> {"none", "failed", "healthy", "unhealthy", "collected", "found"}]
         /\ place'[j] = "done" /\ outcome'[j] = what
         /\ \A i \in Jobs : i # j => place'[i] = place[i] /\ outcome'[i] = outcome[i]
BY PlaceStep DEF JobsTypeOK, Return

LEMMA NeededSteps ==
  ASSUME JobsTypeOK, NEW j \in Jobs
  PROVE  /\ Needed(j) \subseteq Steps
         /\ Task[j] = "collect" => Needed(j) = Tools
         /\ Task[j] = "discover" => Needed(j) = {"discover"}
         /\ Task[j] = "act" /\ phase[j] = "execute" => Needed(j) = {"restart"}
         /\ Task[j] = "act" /\ phase[j] = "verify" =>
              Needed(j) = IF j \in HealthURL THEN Checks ELSE {"status"}
         /\ \A s \in Checks \cap Needed(j) : phase[j] = "verify"
<1>1. Task[j] \in {"act", "collect", "discover"} /\ phase[j] \in {"execute", "verify"}
  BY JobsAssumption DEF JobsTypeOK
<1>2. CASE Task[j] = "collect"
  <2>1. Needed(j) = Tools
    BY <1>2 DEF Needed
  <2>. QED BY <1>2, <2>1, NamesAssumption DEF Steps
<1>3. CASE Task[j] = "discover"
  <2>1. Needed(j) = {"discover"}
    BY <1>3 DEF Needed
  <2>. QED BY <1>3, <2>1 DEF Steps, Checks
<1>4. CASE Task[j] = "act" /\ phase[j] = "execute"
  <2>1. Needed(j) = {"restart"}
    BY <1>4 DEF Needed
  <2>. QED BY <1>4, <2>1 DEF Steps, Checks
<1>5. CASE Task[j] = "act" /\ phase[j] = "verify"
  <2>1. Needed(j) = IF j \in HealthURL THEN Checks ELSE {"status"}
    BY <1>5 DEF Needed
  <2>. QED BY <1>5, <2>1 DEF Steps, Checks
<1>. QED BY <1>1, <1>2, <1>3, <1>4, <1>5

\* A job whose commands are all over.
LEMMA AllOverEnds ==
  ASSUME JobsInv, NEW j \in Jobs, place[j] # "ready" \/ AllOver(j), NEW s \in Steps
  PROVE  command[j][s] # "none" => Over(j, s)
BY DEF JobsInv, WaitingIsNeeded, AllOver

-----------------------------------------------------------------------------
(* The jobs: the invariant is kept *)

LEMMA JobsInitInv == JobsInit => JobsInv
<1>. SUFFICES ASSUME JobsInit PROVE JobsInv
  OBVIOUS
<1>1. JobsTypeOK
  BY FaultsAssumption DEF JobsInit, JobsTypeOK, Clients
<1>2. /\ HeardIsTrue /\ WaitingIsNeeded /\ HealthComesLast /\ RunsFollow
      /\ VerifiesRestarted /\ OutcomeIsTrue /\ OneClientPerRegion
  <2>1. Checks \subseteq Steps /\ Tools \subseteq Steps /\ {"restart", "health"} \subseteq Steps
    BY DEF Checks, Steps
  <2>. QED BY <2>1 DEF JobsInit, HeardIsTrue, WaitingIsNeeded, HealthComesLast, RunsFollow,
                       VerifiesRestarted, OutcomeIsTrue, OneClientPerRegion
<1>. QED BY <1>1, <1>2 DEF JobsInv

\* What the invariant says but for places and outcomes, when a step changes one command
\* or what is heard of one.
LEMMA CommandStep ==
  ASSUME JobsInv, NEW j \in Jobs, NEW s \in Steps,
         UNCHANGED <<place, phase, outcome, cached, client>>,
         creating' \subseteq creating, up' \in [Hosts -> BOOLEAN], UNCHANGED again,
         faults' \in 0 .. MaxFaults,
         NEW c \in {"none", "sent", "running", "ok", "bad"},
         NEW h \in {"no", "ok", "bad", "error"},
         command' = Set(command, j, s, c), heard' = Set(heard, j, s, h),
         command[j][s] \in {"ok", "bad"} => c = command[j][s],
         command[j][s] # "none" => c # "none",
         heard[j][s] # "no" => h = heard[j][s],
         h \in {"ok", "bad"} => c = h,
         c # "none" /\ command[j][s] = "none" => Turn(j, s)
  PROVE  JobsInv'
<1>. USE DEF JobsInv
<1>1. /\ command' \in [Jobs -> [Steps -> {"none", "sent", "running", "ok", "bad"}]]
      /\ heard' \in [Jobs -> [Steps -> {"no", "ok", "bad", "error"}]]
      /\ command'[j][s] = c /\ heard'[j][s] = h
      /\ \A i \in Jobs, t \in Steps : i # j \/ t # s =>
           command'[i][t] = command[i][t] /\ heard'[i][t] = heard[i][t]
  <2>1. /\ command' \in [Jobs -> [Steps -> {"none", "sent", "running", "ok", "bad"}]]
        /\ command'[j][s] = c
        /\ \A i \in Jobs, t \in Steps : i # j \/ t # s => command'[i][t] = command[i][t]
    BY DEF JobsTypeOK, Set
  <2>2. /\ heard' \in [Jobs -> [Steps -> {"no", "ok", "bad", "error"}]]
        /\ heard'[j][s] = h
        /\ \A i \in Jobs, t \in Steps : i # j \/ t # s => heard'[i][t] = heard[i][t]
    BY DEF JobsTypeOK, Set
  <2>. QED BY <2>1, <2>2
<1>2. JobsTypeOK'
  BY <1>1 DEF JobsTypeOK, Clients
<1>3. HeardIsTrue'
  BY <1>1 DEF HeardIsTrue
<1>4. /\ \A i \in Jobs, t \in Steps :
           command[i][t] \in {"ok", "bad"} => command'[i][t] = command[i][t]
      /\ \A i \in Jobs, t \in Steps : heard[i][t] # "no" => heard'[i][t] = heard[i][t]
  BY <1>1
<1>5. WaitingIsNeeded'
  <2>1. SUFFICES ASSUME NEW i \in Jobs, NEW t \in Steps,
                        command'[i][t] # "none", heard'[i][t] = "no"
                 PROVE  place[i] = "ready" /\ t \in Needed(i) /\ ~Skipped(i, t)'
    BY DEF WaitingIsNeeded, Needed, Over
  <2>2. "status" \in Steps /\ "health" \in Steps
    BY DEF Steps, Checks
  <2>3. CASE command[i][t] # "none"
    <3>1. heard[i][t] = "no"
      BY <2>1, <1>4
    <3>2. place[i] = "ready" /\ t \in Needed(i) /\ ~Skipped(i, t)
      BY <2>3, <3>1 DEF WaitingIsNeeded, Over
    <3>3. t = "health" => heard'[i]["status"] = heard[i]["status"]
      BY <2>2, <2>3, <1>4 DEF HealthComesLast, Over
    <3>. QED BY <3>2, <3>3 DEF Skipped
  <2>4. CASE command[i][t] = "none"
    <3>1. i = j /\ t = s /\ Turn(j, s)
      BY <2>1, <2>4, <1>1
    <3>2. place[j] = "ready" /\ s \in Needed(j) /\ (s = "health" => ~Skipped(j, s))
      BY <3>1 DEF Turn
    <3>3. s = "health" => heard'[j]["status"] = heard[j]["status"]
      BY <2>2, <1>1
    <3>. QED BY <3>1, <3>2, <3>3 DEF Skipped
  <2>. QED BY <2>3, <2>4
<1>6. VerifiesRestarted'
  <2>1. Turn(j, s) /\ s \in Checks => phase[j] = "verify"
    BY NeededSteps DEF Turn
  <2>2. Checks \subseteq Steps /\ "restart" \in Steps
    BY DEF Checks, Steps
  <2>3. \A i \in Jobs : phase[i] = "verify" => command'[i]["restart"] = "ok"
    BY <1>4, <2>2 DEF VerifiesRestarted
  <2>4. ASSUME NEW i \in Jobs, NEW t \in Checks, command'[i][t] # "none"
        PROVE  phase[i] = "verify"
    <3>1. CASE command[i][t] # "none"
      BY <3>1 DEF VerifiesRestarted
    <3>2. CASE command[i][t] = "none"
      BY <3>2, <2>1, <2>2, <2>4, <1>1
    <3>. QED BY <3>1, <3>2
  <2>. QED BY <2>3, <2>4 DEF VerifiesRestarted
<1>7. OutcomeIsTrue'
  <2>1. {"status", "health", "discover"} \subseteq Steps /\ Tools \subseteq Steps
    BY DEF Checks, Steps
  <2>. QED BY <1>4, <2>1 DEF OutcomeIsTrue, Over
<1>8. OneClientPerRegion'
  BY DEF OneClientPerRegion
<1>9. HealthComesLast'
  <2>1. "status" \in Steps /\ "health" \in Steps
    BY DEF Steps, Checks
  <2>2. ASSUME NEW i \in Jobs, command'[i]["health"] # "none"
        PROVE  heard[i]["status"] # "no"
    <3>1. CASE command[i]["health"] # "none"
      BY <3>1 DEF HealthComesLast, Over
    <3>2. CASE command[i]["health"] = "none"
      BY <3>2, <2>1, <2>2, <1>1 DEF Turn, Over
    <3>. QED BY <3>1, <3>2
  <2>. QED BY <2>1, <2>2, <1>4 DEF HealthComesLast, Over
<1>10. RunsFollow'
  <2>1. \A i \in again : i \in Jobs /\ "restart" \in Steps
    BY DEF JobsTypeOK, Steps
  <2>2. \A i \in Jobs, t \in Steps : command[i][t] # "none" => command'[i][t] # "none"
    BY <1>1
  <2>. QED BY <2>1, <2>2 DEF RunsFollow
<1>. QED BY <1>2, <1>3, <1>5, <1>6, <1>7, <1>8, <1>9, <1>10

\* A job moves on, perhaps to its verification, with no command left to wait for.
LEMMA MoveStep ==
  ASSUME JobsInv, NEW j \in Jobs,
         place[j] \in {"idle", "connecting"} \/ (place[j] = "ready" /\ AllOver(j)),
         NEW p \in {"connecting", "ready"}, Place(j, p),
         \/ UNCHANGED phase
         \/ phase' = [phase EXCEPT ![j] = "verify"] /\ command[j]["restart"] = "ok",
         UNCHANGED <<outcome, cached, client, creating, command, heard, up, again, faults>>
  PROVE  JobsInv'
<1>. USE DEF JobsInv
<1>1. /\ place'[j] = p /\ \A i \in Jobs : i # j => place'[i] = place[i] /\ phase'[i] = phase[i]
      /\ phase'[j] = phase[j] \/ (phase'[j] = "verify" /\ command[j]["restart"] = "ok")
  BY PlaceStep DEF JobsTypeOK
<1>2. JobsTypeOK'
  BY PlaceStep DEF JobsTypeOK, Clients
<1>3. HeardIsTrue' /\ OneClientPerRegion' /\ RunsFollow'
  BY DEF HeardIsTrue, OneClientPerRegion, RunsFollow
<1>4. HealthComesLast'
  BY DEF HealthComesLast, Over
<1>5. \A s \in Steps : command[j][s] # "none" => heard[j][s] # "no"
  BY AllOverEnds DEF Over
<1>6. WaitingIsNeeded'
  <2>1. SUFFICES ASSUME NEW i \in Jobs, NEW s \in Steps, command[i][s] # "none", heard[i][s] = "no"
                 PROVE  place'[i] = "ready" /\ s \in Needed(i)' /\ ~Skipped(i, s)'
    BY DEF WaitingIsNeeded, Over
  <2>2. i # j
    BY <2>1, <1>5
  <2>3. place[i] = "ready" /\ s \in Needed(i) /\ ~Skipped(i, s)
    BY <2>1 DEF WaitingIsNeeded, Over
  <2>4. Needed(i)' = Needed(i)
    BY <2>2, <1>1 DEF Needed
  <2>5. Skipped(i, s)' <=> Skipped(i, s)
    BY DEF Skipped
  <2>. QED BY <2>2, <2>3, <2>4, <2>5, <1>1
<1>7. VerifiesRestarted'
  BY <1>1 DEF VerifiesRestarted
<1>8. OutcomeIsTrue'
  <2>1. outcome[j] = "none"
    BY DEF OutcomeIsTrue
  <2>. QED BY <2>1, <1>1 DEF OutcomeIsTrue, Over
<1>. QED BY <1>2, <1>3, <1>4, <1>6, <1>7, <1>8

\* A job returns what its commands support, with none left to wait for.
LEMMA ReturnInv ==
  ASSUME JobsInv, NEW j \in Jobs, place[j] = "connecting" \/ (place[j] = "ready" /\ AllOver(j)),
         NEW what \in {"failed", "healthy", "unhealthy", "collected", "found"}, Return(j, what),
         what = "healthy" => /\ phase[j] = "verify" /\ command[j]["status"] = "ok"
                             /\ j \in HealthURL => command[j]["health"] = "ok",
         what = "collected" => \A s \in Tools : Over(j, s),
         what = "found" => command[j]["discover"] = "ok",
         UNCHANGED <<phase, cached, client, creating, command, heard, up, again>>,
         faults' \in 0 .. MaxFaults
  PROVE  JobsInv'
<1>. USE DEF JobsInv
<1>1. JobsTypeOK'
  BY ReturnStep DEF JobsTypeOK, Clients
<1>2. /\ place'[j] = "done" /\ outcome'[j] = what
      /\ \A i \in Jobs : i # j => place'[i] = place[i] /\ outcome'[i] = outcome[i]
  BY ReturnStep
<1>3. HeardIsTrue' /\ OneClientPerRegion' /\ VerifiesRestarted' /\ RunsFollow'
  BY DEF HeardIsTrue, OneClientPerRegion, VerifiesRestarted, RunsFollow
<1>4. HealthComesLast'
  BY DEF HealthComesLast, Over
<1>5. \A s \in Steps : command[j][s] # "none" => heard[j][s] # "no"
  BY AllOverEnds DEF Over
<1>6. WaitingIsNeeded'
  <2>1. SUFFICES ASSUME NEW i \in Jobs, NEW s \in Steps, command[i][s] # "none", heard[i][s] = "no"
                 PROVE  place'[i] = "ready" /\ s \in Needed(i)' /\ ~Skipped(i, s)'
    BY DEF WaitingIsNeeded, Over
  <2>2. i # j
    BY <2>1, <1>5
  <2>3. place[i] = "ready" /\ s \in Needed(i) /\ ~Skipped(i, s)
    BY <2>1 DEF WaitingIsNeeded, Over
  <2>4. Needed(i)' = Needed(i) /\ (Skipped(i, s)' <=> Skipped(i, s))
    BY DEF Needed, Skipped
  <2>. QED BY <2>2, <2>3, <2>4, <1>2
<1>7. OutcomeIsTrue'
  <2>1. \A i \in Jobs : (\A s \in Tools : Over(i, s)) => \A s \in Tools : Over(i, s)'
    BY DEF Over
  <2>. QED BY <2>1, <1>2 DEF OutcomeIsTrue
<1>. QED BY <1>1, <1>3, <1>4, <1>6, <1>7

LEMMA SetSame ==
  ASSUME NEW V, NEW f \in [Jobs -> [Steps -> V]], NEW j \in Jobs, NEW s \in Steps
  PROVE  f = Set(f, j, s, f[j][s])
BY DEF Set

\* Neither command nor heard may change where the other does.
LEMMA SameCommand == ASSUME JobsTypeOK, NEW j \in Jobs, NEW s \in Steps
                     PROVE  /\ command = Set(command, j, s, command[j][s])
                            /\ command[j][s] \in {"none", "sent", "running", "ok", "bad"}
<1> DEFINE V == {"none", "sent", "running", "ok", "bad"}
<1>1. command \in [Jobs -> [Steps -> V]]
  BY DEF JobsTypeOK
<1>. HIDE DEF V
<1>2. command = Set(command, j, s, command[j][s]) /\ command[j][s] \in V
  BY <1>1, SetSame
<1>. QED BY <1>2 DEF V
LEMMA SameHeard == ASSUME JobsTypeOK, NEW j \in Jobs, NEW s \in Steps
                   PROVE  /\ heard = Set(heard, j, s, heard[j][s])
                          /\ heard[j][s] \in {"no", "ok", "bad", "error"}
<1> DEFINE V == {"no", "ok", "bad", "error"}
<1>1. heard \in [Jobs -> [Steps -> V]]
  BY DEF JobsTypeOK
<1>. HIDE DEF V
<1>2. heard = Set(heard, j, s, heard[j][s]) /\ heard[j][s] \in V
  BY <1>1, SetSame
<1>. QED BY <1>2 DEF V

LEMMA ReachStep == ASSUME NEW j \in Jobs, Reach(j)
                   PROVE  \E p \in {"connecting", "ready"} : Place(j, p)
BY DEF Reach

LEMMA CommandsInv ==
  ASSUME JobsInv, NEW j \in Jobs, NEW s \in Steps,
         \/ Send(j, s) \/ SendFails(j, s) \/ Starts(j, s) \/ Ends(j, s) \/ Expires(j, s)
         \/ Hear(j, s) \/ GiveUp(j, s) \/ LoseTrack(j, s)
  PROVE  JobsInv'
<1>. USE DEF JobsInv
<1>1. /\ command = Set(command, j, s, command[j][s])
      /\ command[j][s] \in {"none", "sent", "running", "ok", "bad"}
      /\ heard = Set(heard, j, s, heard[j][s])
      /\ heard[j][s] \in {"no", "ok", "bad", "error"}
      /\ up \in [Hosts -> BOOLEAN] /\ faults \in 0 .. MaxFaults
  BY SameCommand, SameHeard DEF JobsTypeOK
<1>2. CASE Send(j, s)
  <2>1. /\ command' = Set(command, j, s, "sent") /\ heard' = Set(heard, j, s, heard[j][s])
        /\ command[j][s] = "none" /\ heard[j][s] = "no" /\ Turn(j, s)
        /\ UNCHANGED <<place, phase, outcome, cached, client, creating, up, again, faults>>
    BY <1>1, <1>2 DEF Send, Turn, Over
  <2>. QED BY <1>1, <2>1, CommandStep
<1>3. CASE SendFails(j, s)
  <2>1. /\ command' = Set(command, j, s, "none") /\ heard' = Set(heard, j, s, "error")
        /\ command[j][s] = "none" /\ heard[j][s] = "no"
        /\ UNCHANGED <<place, phase, outcome, cached, client, up, again>>
        /\ creating' \subseteq creating /\ faults' \in 0 .. MaxFaults
    BY <1>1, <1>3, FaultsType DEF SendFails, Turn, Over
  <2>. QED BY <1>1, <2>1, CommandStep
<1>4. CASE Starts(j, s)
  <2>1. /\ command' = Set(command, j, s, "running") /\ heard' = Set(heard, j, s, heard[j][s])
        /\ command[j][s] = "sent" /\ heard[j][s] \in {"no", "error"}
        /\ UNCHANGED <<place, phase, outcome, cached, client, creating, up, again, faults>>
    BY <1>1, <1>4 DEF Starts, HeardIsTrue
  <2>. QED BY <1>1, <2>1, CommandStep
<1>5. CASE Ends(j, s)
  <2>1. PICK result \in {"ok", "bad"} :
          /\ command' = Set(command, j, s, result)
          /\ up' = [up EXCEPT ![HostOf[j]] = @ \/ (s = "restart" /\ result = "ok")]
    BY <1>5 DEF Ends
  <2>2. up' \in [Hosts -> BOOLEAN]
    BY <1>1, <2>1, JobsAssumption
  <2>3. /\ heard' = Set(heard, j, s, heard[j][s])
        /\ command[j][s] = "running" /\ heard[j][s] \in {"no", "error"}
        /\ UNCHANGED <<place, phase, outcome, cached, client, creating, again, faults>>
    BY <1>1, <1>5 DEF Ends, HeardIsTrue
  <2>. QED BY <1>1, <2>1, <2>2, <2>3, CommandStep
<1>6. CASE Expires(j, s)
  <2>1. /\ command' = Set(command, j, s, "bad") /\ heard' = Set(heard, j, s, heard[j][s])
        /\ command[j][s] = "sent" /\ heard[j][s] \in {"no", "error"}
        /\ UNCHANGED <<place, phase, outcome, cached, client, creating, up, again, faults>>
    BY <1>1, <1>6 DEF Expires, HeardIsTrue
  <2>. QED BY <1>1, <2>1, CommandStep
<1>7. CASE Hear(j, s)
  <2>1. /\ command' = Set(command, j, s, command[j][s])
        /\ heard' = Set(heard, j, s, command[j][s])
        /\ command[j][s] \in {"ok", "bad"} /\ heard[j][s] = "no"
        /\ UNCHANGED <<place, phase, outcome, cached, client, creating, up, again, faults>>
    BY <1>1, <1>7 DEF Hear, Ended, Over
  <2>. QED BY <1>1, <2>1, CommandStep
<1>8. CASE GiveUp(j, s) \/ LoseTrack(j, s)
  <2>1. /\ command' = Set(command, j, s, command[j][s]) /\ heard' = Set(heard, j, s, "error")
        /\ command[j][s] # "none" /\ heard[j][s] = "no"
        /\ UNCHANGED <<place, phase, outcome, cached, client, creating, up, again>>
        /\ faults' \in 0 .. MaxFaults
    BY <1>1, <1>8, FaultsType DEF GiveUp, LoseTrack, GivenUp, Over
  <2>. QED BY <1>1, <2>1, CommandStep
<1>. QED BY <1>2, <1>3, <1>4, <1>5, <1>6, <1>7, <1>8

LEMMA ClientsInv ==
  ASSUME JobsInv, NEW j \in Jobs, NEW s \in Steps, LookUpClient(j, s) \/ CreateClient(j, s)
  PROVE  JobsInv'
<1>. USE DEF JobsInv
<1>1. RegionOf[j] \in Regions /\ client \in [Jobs -> [Steps -> Clients]]
      /\ cached \in [Regions -> Clients] /\ creating \subseteq Jobs \X Steps
  BY JobsAssumption DEF JobsTypeOK
<1>2. /\ UNCHANGED <<place, phase, outcome, command, heard, up, again, faults>>
  BY DEF LookUpClient, CreateClient
<1>3. /\ HeardIsTrue' /\ WaitingIsNeeded' /\ HealthComesLast' /\ VerifiesRestarted'
      /\ OutcomeIsTrue' /\ RunsFollow' /\ UNCHANGED again
  BY <1>2 DEF HeardIsTrue, WaitingIsNeeded, HealthComesLast, VerifiesRestarted, OutcomeIsTrue,
              RunsFollow, Over, Needed, Skipped
<1>4. CASE LookUpClient(j, s)
  <2>1. CASE cached[RegionOf[j]] # None
    <3>1. client' = Set(client, j, s, cached[RegionOf[j]]) /\ UNCHANGED <<cached, creating>>
      BY <1>4, <2>1 DEF LookUpClient
    <3>2. /\ client' \in [Jobs -> [Steps -> Clients]]
          /\ client'[j][s] = cached[RegionOf[j]]
          /\ \A i \in Jobs, t \in Steps : i # j \/ t # s => client'[i][t] = client[i][t]
      BY <1>1, <3>1 DEF Set
    <3>3. OneClientPerRegion'
      BY <3>1, <3>2 DEF OneClientPerRegion
    <3>. QED BY <1>1, <1>2, <1>3, <3>1, <3>2, <3>3 DEF JobsTypeOK
  <2>2. CASE cached[RegionOf[j]] = None
    <3>1. creating' = creating \cup {<<j, s>>} /\ UNCHANGED <<cached, client>>
      BY <1>4, <2>2 DEF LookUpClient
    <3>2. OneClientPerRegion'
      BY <3>1 DEF OneClientPerRegion
    <3>. QED BY <1>1, <1>2, <1>3, <3>1, <3>2 DEF JobsTypeOK
  <2>. QED BY <2>1, <2>2
<1>5. CASE CreateClient(j, s)
  <2>1. /\ cached' = [cached EXCEPT ![RegionOf[j]] = Kept(j, s)]
        /\ client' = Set(client, j, s, Kept(j, s)) /\ creating' \subseteq creating
    BY <1>5 DEF CreateClient
  <2>2. Kept(j, s) \in Clients /\ Kept(j, s) # None
        /\ (cached[RegionOf[j]] # None => Kept(j, s) = cached[RegionOf[j]])
    BY <1>1, NamesAssumption DEF Kept, Clients
  <2>3. /\ client' \in [Jobs -> [Steps -> Clients]]
        /\ client'[j][s] = Kept(j, s)
        /\ \A i \in Jobs, t \in Steps : i # j \/ t # s => client'[i][t] = client[i][t]
    BY <1>1, <2>1, <2>2 DEF Set
  <2>4. /\ cached' \in [Regions -> Clients] /\ cached'[RegionOf[j]] = Kept(j, s)
        /\ \A r \in Regions : cached[r] # None => cached'[r] = cached[r]
    BY <1>1, <2>1, <2>2
  <2>5. OneClientPerRegion'
    <3>1. SUFFICES ASSUME NEW i \in Jobs, NEW t \in Steps, client'[i][t] # None
                   PROVE  client'[i][t] = cached'[RegionOf[i]]
      BY DEF OneClientPerRegion
    <3>2. RegionOf[i] \in Regions
      BY JobsAssumption
    <3>3. CASE i = j /\ t = s
      BY <3>3, <2>3, <2>4
    <3>4. CASE i # j \/ t # s
      <4>1. client[i][t] # None /\ client'[i][t] = client[i][t]
        BY <3>1, <3>4, <2>3
      <4>2. client[i][t] = cached[RegionOf[i]]
        BY <4>1 DEF OneClientPerRegion
      <4>. QED BY <3>2, <4>1, <4>2, <2>4
    <3>. QED BY <3>3, <3>4
  <2>. QED BY <1>1, <1>2, <1>3, <2>1, <2>3, <2>4, <2>5 DEF JobsTypeOK
<1>. QED BY <1>4, <1>5

LEMMA JobStepInv == ASSUME JobsInv, NEW j \in Jobs, Begin(j) \/ ClientStep(j) PROVE JobsInv'
<1>. USE DEF JobsInv
<1>1. CASE Begin(j)
  BY <1>1, ReachStep, MoveStep DEF Begin
<1>2. CASE Connect(j)
  BY <1>2, MoveStep DEF Connect
<1>3. CASE ConnectFails(j)
  <2>1. PICK what \in {"failed", "unhealthy"} : Return(j, what)
    BY <1>3 DEF ConnectFails
  <2>2. /\ place[j] = "connecting" /\ faults' \in 0 .. MaxFaults
        /\ UNCHANGED <<phase, cached, client, creating, command, heard, up, again>>
    BY <1>3, FaultsType DEF ConnectFails, JobsTypeOK
  <2>. QED BY <2>1, <2>2, ReturnInv
<1>4. CASE Verify(j)
  <2>1. Needed(j) = {"restart"} /\ "restart" \in Steps
    BY <1>4, NeededSteps DEF Verify, Steps
  <2>2. command[j]["restart"] = "ok"
    BY <1>4, <2>1 DEF Verify, Passed, HeardIsTrue
  <2>. QED BY <1>4, <2>2, ReachStep, MoveStep DEF Verify
<1>5. CASE Finish(j)
  <2>1. /\ place[j] = "ready" /\ AllOver(j) /\ faults' \in 0 .. MaxFaults
        /\ UNCHANGED <<phase, cached, client, creating, command, heard, up, again>>
    BY <1>5 DEF Finish, JobsTypeOK
  <2>2. \A s \in Steps : heard[j][s] = "ok" => command[j][s] = "ok"
    BY DEF HeardIsTrue
  <2>3. {"status", "health", "discover"} \subseteq Steps
    BY DEF Steps, Checks
  <2>4. CASE ExecutionFails(j)
    BY <2>1, <2>4, ReturnInv DEF ExecutionFails
  <2>5. CASE Collected(j)
    <3>1. \A s \in Tools : Over(j, s)
      BY <2>1, <2>5, NeededSteps, NamesAssumption DEF Collected, AllOver, Skipped, Checks
    <3>. QED BY <2>1, <2>5, <3>1, ReturnInv DEF Collected
  <2>6. CASE Discovers(j)
    <3>1. Passed(j) => command[j]["discover"] = "ok"
      BY <2>2, <2>3, <2>6, NeededSteps DEF Discovers, Passed
    <3>2. PICK what \in {"found", "failed"} : Return(j, what) /\ (what = "found" => Passed(j))
      BY <2>6 DEF Discovers
    <3>. QED BY <2>1, <3>1, <3>2, ReturnInv
  <2>7. CASE Verified(j)
    <3>1. phase[j] = "verify" /\ Needed(j) = IF j \in HealthURL THEN Checks ELSE {"status"}
      BY <2>7, NeededSteps DEF Verified
    <3>2. Passed(j) => /\ command[j]["status"] = "ok"
                       /\ j \in HealthURL => command[j]["health"] = "ok"
      BY <2>2, <2>3, <3>1 DEF Passed, Checks
    <3>3. PICK what \in {"healthy", "unhealthy"} :
            Return(j, what) /\ (what = "healthy" => Passed(j))
      BY <2>7 DEF Verified, Verdict
    <3>. QED BY <2>1, <3>1, <3>2, <3>3, ReturnInv
  <2>. QED BY <1>5, <2>4, <2>5, <2>6, <2>7 DEF Finish
<1>. QED BY <1>1, <1>2, <1>3, <1>4, <1>5, CommandsInv, ClientsInv DEF ClientStep

LEMMA JobsStepInv ==
  ASSUME JobsInv,
         \/ \E j \in Jobs : Begin(j) \/ ClientStep(j)
         \/ HostStep(active)
         \/ UNCHANGED <<jobVars, faults>>
  PROVE  JobsInv'
<1>1. ASSUME (\E h \in Hosts : HostFails(h)) \/ (\E j \in Jobs : RunsAgain(j)) PROVE JobsInv'
  <2>1. /\ UNCHANGED <<place, phase, outcome, cached, client, creating, command, heard>>
        /\ \A j \in again' : j \in again \/ command[j]["restart"] # "none"
        /\ faults' \in 0 .. MaxFaults /\ up' \in [Hosts -> BOOLEAN] /\ again' \subseteq Jobs
    BY <1>1, FaultsType DEF HostFails, RunsAgain, JobsInv, JobsTypeOK
  <2>. QED BY <2>1 DEF JobsInv, JobsTypeOK, HeardIsTrue, WaitingIsNeeded, HealthComesLast,
                       VerifiesRestarted, OutcomeIsTrue, OneClientPerRegion, RunsFollow, Over, Needed,
                       Skipped
<1>2. CASE UNCHANGED <<jobVars, faults>>
  BY <1>2 DEF jobVars, JobsInv, JobsTypeOK, HeardIsTrue, WaitingIsNeeded, HealthComesLast,
              VerifiesRestarted, OutcomeIsTrue, OneClientPerRegion, RunsFollow, Over, Needed,
                       Skipped
<1>3. CASE HostStep(active)
  BY <1>1, <1>3, CommandsInv DEF HostStep
<1>. QED BY <1>2, <1>3, JobStepInv

LEMMA FaultStepInv == ASSUME JobsInv, UNCHANGED jobVars, Fault \/ UNCHANGED faults
                      PROVE  JobsInv'
<1>1. faults' \in 0 .. MaxFaults
  BY FaultsType DEF JobsInv, JobsTypeOK
<1>. QED BY <1>1 DEF jobVars, JobsInv, JobsTypeOK, HeardIsTrue, WaitingIsNeeded, HealthComesLast,
                     VerifiesRestarted, OutcomeIsTrue, OneClientPerRegion, RunsFollow, Over, Needed,
                       Skipped

\* A job that has returned stays as it is.
LEMMA FoundStays ==
  ASSUME JobsInv, (\E j \in Jobs : Begin(j) \/ ClientStep(j)) \/ HostStep(active)
  PROVE  \A j \in Jobs : outcome[j] = "found" => outcome'[j] = "found"
<1>1. ASSUME NEW j \in Jobs, NEW what, Return(j, what), place[j] \in {"connecting", "ready"}
      PROVE  \A i \in Jobs : outcome[i] = "found" => outcome'[i] = "found"
  <2>1. outcome[j] = "none"
    BY <1>1 DEF JobsInv, OutcomeIsTrue
  <2>. QED BY <1>1, <2>1 DEF Return, JobsInv, JobsTypeOK
<1>2. ASSUME NEW j \in Jobs, ConnectFails(j) \/ Finish(j)
      PROVE  \A i \in Jobs : outcome[i] = "found" => outcome'[i] = "found"
  <2>1. place[j] \in {"connecting", "ready"}
    BY <1>2 DEF ConnectFails, Finish
  <2>2. \E what \in {"failed", "healthy", "unhealthy", "collected", "found"} : Return(j, what)
    BY <1>2 DEF ConnectFails, Finish, ExecutionFails, Collected, Discovers, Verified, Verdict
  <2>. QED BY <1>1, <2>1, <2>2
<1>3. ASSUME NEW j \in Jobs, Begin(j) \/ Connect(j) \/ Verify(j) PROVE UNCHANGED outcome
  BY <1>3 DEF Begin, Connect, Verify
<1>4. ASSUME NEW j \in Jobs, NEW s \in Steps,
             \/ LookUpClient(j, s) \/ CreateClient(j, s) \/ Send(j, s) \/ SendFails(j, s)
             \/ Hear(j, s) \/ GiveUp(j, s) \/ LoseTrack(j, s)
             \/ Starts(j, s) \/ Ends(j, s) \/ Expires(j, s)
      PROVE  UNCHANGED outcome
  BY <1>4 DEF LookUpClient, CreateClient, Send, SendFails, Hear, GiveUp, LoseTrack, Starts, Ends,
              Expires
<1>5. ASSUME (\E h \in Hosts : HostFails(h)) \/ (\E j \in Jobs : RunsAgain(j))
      PROVE  UNCHANGED outcome
  BY <1>5 DEF HostFails, RunsAgain
<1>. QED BY <1>2, <1>3, <1>4, <1>5 DEF ClientStep, HostStep

-----------------------------------------------------------------------------
(* The requests: the invariant is kept *)

LEMMA RequestTypes == /\ Discoveries \subseteq Jobs /\ Discoveries \subseteq Requests
                      /\ Enrollments \subseteq Requests
                      /\ \A r \in Requests : r \in Discoveries <=> r \notin Enrollments
                      /\ \A r \in Requests : ProjectOf[r] \in Projects
BY RequestsAssumption DEF Discoveries, Requests

LEMMA GotoStep ==
  ASSUME TypeOK, NEW r \in Requests, NEW s \in Stages, Goto(r, s)
  PROVE  /\ stage' \in [Requests -> Stages]
         /\ stage'[r] = s /\ \A q \in Requests : q # r => stage'[q] = stage[q]
BY DEF TypeOK, Goto

LEMMA SubmitInv ==
  ASSUME AccessInv, NEW r \in Requests, Submit(r) PROVE (TypeOK /\ StagesFollow /\ RowsFollow)'
<1>. USE RequestTypes DEF AccessInv
<1>1. PICK s \in {"refused", "credential", "discovery"} :
        /\ Goto(r, s)
        /\ s # "refused" => ProjectOf[r] \in projects
        /\ s = "credential" => Keyed(r)
        /\ s = "discovery" => r \in Discoveries /\ ~Keyed(r)
  BY DEF Submit, Keyed
<1>2. stage[r] = "new" /\ UNCHANGED <<active, jobVars, faults, tables, pollVars>>
  BY DEF Submit
<1>3. /\ stage' \in [Requests -> Stages] /\ stage'[r] = s
      /\ \A q \in Requests : q # r => stage'[q] = stage[q]
  BY <1>1, GotoStep DEF Stages
<1>4. r \notin credentials /\ r \notin environments /\ r \notin runners
  BY <1>2 DEF RowsFollow
<1>5. TypeOK'
  BY <1>2, <1>3 DEF TypeOK, JobsTypeOK, jobVars, tables, pollVars
<1>6. StagesFollow'
  BY <1>1, <1>2, <1>3 DEF StagesFollow, Submitted, Keyed, jobVars, tables
<1>7. RowsFollow'
  BY <1>2, <1>3, <1>4 DEF RowsFollow, Keyed, TypeOK, jobVars, tables
<1>. QED BY <1>5, <1>6, <1>7

LEMMA StoreCredentialInv ==
  ASSUME AccessInv, NEW r \in Requests, StoreCredential(r)
  PROVE  (TypeOK /\ StagesFollow /\ RowsFollow)'
<1>. USE RequestTypes DEF AccessInv
<1>1. PICK s \in {"refused", "save", "discovery"} :
        /\ Goto(r, s)
        /\ s = "refused" => r \in BadURL \cap Enrollments
        /\ s = "save" => r \in Enrollments
        /\ s = "discovery" => r \in Discoveries
  BY DEF StoreCredential
<1>2. /\ stage[r] = "credential" /\ credentials' = credentials \cup {r}
      /\ UNCHANGED <<active, jobVars, faults, projects, environments, runners, pollVars>>
  BY DEF StoreCredential
<1>3. /\ stage' \in [Requests -> Stages] /\ stage'[r] = s
      /\ \A q \in Requests : q # r => stage'[q] = stage[q]
  BY <1>1, GotoStep DEF Stages
<1>4. r \notin credentials /\ r \notin environments /\ r \notin runners
  BY <1>2 DEF RowsFollow
<1>5. TypeOK'
  BY <1>2, <1>3 DEF TypeOK, JobsTypeOK, jobVars, pollVars
<1>6. StagesFollow'
  BY <1>1, <1>2, <1>3 DEF StagesFollow, Submitted, Keyed, jobVars
<1>7. RowsFollow'
  BY <1>1, <1>2, <1>3, <1>4 DEF RowsFollow, Keyed, TypeOK, jobVars
<1>. QED BY <1>5, <1>6, <1>7

LEMMA DiscoveredInv ==
  ASSUME AccessInv, NEW r \in Discoveries, Discovered(r)
  PROVE  (TypeOK /\ StagesFollow /\ RowsFollow)'
<1>. USE RequestTypes DEF AccessInv
<1>1. PICK s \in {"save", "failed"} : Goto(r, s) /\ (s = "save" => outcome[r] = "found")
  BY DEF Discovered
<1>2. stage[r] = "discovery" /\ UNCHANGED <<active, jobVars, faults, tables, pollVars>>
  BY DEF Discovered
<1>3. /\ stage' \in [Requests -> Stages] /\ stage'[r] = s
      /\ \A q \in Requests : q # r => stage'[q] = stage[q]
  BY <1>1, GotoStep DEF Stages
<1>4. r \notin environments /\ r \notin runners
  BY <1>2 DEF RowsFollow
<1>5. TypeOK'
  BY <1>2, <1>3 DEF TypeOK, JobsTypeOK, jobVars, tables, pollVars
<1>6. StagesFollow'
  BY <1>1, <1>2, <1>3 DEF StagesFollow, Submitted, Keyed, jobVars, tables
<1>7. RowsFollow'
  BY <1>2, <1>3, <1>4 DEF RowsFollow, Keyed, TypeOK, jobVars, tables
<1>. QED BY <1>5, <1>6, <1>7

LEMMA SaveEnvironmentInv ==
  ASSUME AccessInv, NEW r \in Requests, SaveEnvironment(r)
  PROVE  (TypeOK /\ StagesFollow /\ RowsFollow)'
<1>. USE RequestTypes DEF AccessInv
<1>1. PICK s \in {"register", "answered"} :
        Goto(r, s) /\ (s = "register" <=> r \in Enrollments)
  BY DEF SaveEnvironment, AfterSave
<1>2. /\ stage[r] = "save" /\ environments' = environments \cup {r}
      /\ UNCHANGED <<active, jobVars, faults, projects, credentials, runners, pollVars>>
  BY DEF SaveEnvironment
<1>3. /\ stage' \in [Requests -> Stages] /\ stage'[r] = s
      /\ \A q \in Requests : q # r => stage'[q] = stage[q]
  BY <1>1, GotoStep DEF Stages
<1>4. /\ r \notin environments /\ r \notin runners
      /\ ProjectOf[r] \in projects /\ (Keyed(r) => r \in credentials)
      /\ (r \in Discoveries => outcome[r] = "found")
  BY <1>2 DEF RowsFollow, StagesFollow, Submitted
<1>5. TypeOK'
  BY <1>2, <1>3 DEF TypeOK, JobsTypeOK, jobVars, pollVars
<1>6. StagesFollow'
  BY <1>1, <1>2, <1>3, <1>4 DEF StagesFollow, Submitted, Keyed, jobVars
<1>7. RowsFollow'
  BY <1>1, <1>2, <1>3, <1>4 DEF RowsFollow, Keyed, TypeOK, jobVars
<1>. QED BY <1>5, <1>6, <1>7

LEMMA SaveRunnerInv ==
  ASSUME AccessInv, NEW r \in Requests, SaveRunner(r)
  PROVE  (TypeOK /\ StagesFollow /\ RowsFollow)'
<1>. USE RequestTypes DEF AccessInv
<1>1. /\ Goto(r, "answered") /\ stage[r] = "register" /\ runners' = runners \cup {r}
      /\ UNCHANGED <<active, jobVars, faults, projects, credentials, environments, pollVars>>
  BY DEF SaveRunner
<1>2. /\ stage' \in [Requests -> Stages] /\ stage'[r] = "answered"
      /\ \A q \in Requests : q # r => stage'[q] = stage[q]
  BY <1>1, GotoStep DEF Stages
<1>3. /\ r \in environments /\ r \in Enrollments /\ r \in credentials
      /\ ProjectOf[r] \in projects
  BY <1>1 DEF StagesFollow, Submitted, Keyed
<1>4. TypeOK'
  BY <1>1, <1>2, <1>3 DEF TypeOK, JobsTypeOK, jobVars, pollVars
<1>5. StagesFollow'
  BY <1>1, <1>2, <1>3 DEF StagesFollow, Submitted, Keyed, jobVars
<1>6. RowsFollow'
  BY <1>1, <1>2, <1>3 DEF RowsFollow, Keyed, TypeOK, jobVars
<1>. QED BY <1>4, <1>5, <1>6

LEMMA StepFailsInv ==
  ASSUME AccessInv, NEW r \in Requests, StepFails(r)
  PROVE  (TypeOK /\ StagesFollow /\ RowsFollow)'
<1>. USE RequestTypes DEF AccessInv
<1>1. /\ Goto(r, "failed") /\ stage[r] \in {"credential", "save", "register"}
      /\ UNCHANGED <<active, jobVars, projects, pollVars>>
  BY DEF StepFails, AfterFailure
<1>2. /\ stage' \in [Requests -> Stages] /\ stage'[r] = "failed"
      /\ \A q \in Requests : q # r => stage'[q] = stage[q]
  BY <1>1, GotoStep DEF Stages
<1>3. /\ \/ credentials' = credentials
         \/ stage[r] = "credential" /\ credentials' = credentials \cup {r}
      /\ \/ environments' = environments
         \/ stage[r] = "save" /\ environments' = environments \cup {r}
      /\ \/ runners' = runners
         \/ stage[r] = "register" /\ runners' = runners \cup {r}
  BY DEF StepFails, Added
<1>4. faults' \in 0 .. MaxFaults
  BY FaultsType DEF StepFails, TypeOK, JobsTypeOK
<1>5. /\ ProjectOf[r] \in projects
      /\ stage[r] \in {"save", "register"} /\ Keyed(r) => r \in credentials
      /\ stage[r] = "save" /\ r \in Discoveries => outcome[r] = "found"
      /\ stage[r] = "register" => r \in Enrollments /\ r \in environments /\ r \in credentials
  BY <1>1 DEF StagesFollow, Submitted, Keyed
<1>6. TypeOK'
  <2>1. credentials' \subseteq Requests /\ environments' \subseteq Requests
        /\ runners' \subseteq Enrollments
    BY <1>3, <1>5 DEF TypeOK
  <2>. QED BY <1>1, <1>2, <1>4, <2>1 DEF TypeOK, JobsTypeOK, jobVars, pollVars
<1>7. StagesFollow'
  BY <1>1, <1>2, <1>3 DEF StagesFollow, Submitted, Keyed, jobVars
<1>8. RowsFollow'
  <2>1. \A q \in credentials' : /\ stage'[q] \notin {"new", "credential"}
                                /\ stage'[q] = "refused" => q \in BadURL \cap Enrollments
    BY <1>2, <1>3 DEF RowsFollow, TypeOK
  <2>2. \A q \in environments' :
          /\ ProjectOf[q] \in projects
          /\ Keyed(q) => q \in credentials'
          /\ q \in Discoveries => outcome[q] = "found" /\ stage'[q] \in {"answered", "failed"}
          /\ stage'[q] \in {"register", "answered", "failed"}
    BY <1>2, <1>3, <1>5 DEF RowsFollow, TypeOK
  <2>3. \A q \in runners' :
          q \in environments' /\ q \in credentials' /\ stage'[q] \in {"answered", "failed"}
    BY <1>2, <1>3, <1>5 DEF RowsFollow, TypeOK
  <2>. QED BY <1>1, <2>1, <2>2, <2>3 DEF RowsFollow, Keyed, jobVars
<1>. QED BY <1>6, <1>7, <1>8

-----------------------------------------------------------------------------
(* The polls: the invariant is kept *)

\* The saved and the pending reports, and the rows they are in.
PollsInv == NoPollRefused /\ PollsFollow /\ ReportsStand

LEMMA PollsStay == ASSUME PollsInv, UNCHANGED pollVars PROVE PollsInv'
BY DEF PollsInv, NoPollRefused, PollsFollow, ReportsStand, Covers, pollVars

LEMMA AnsweredIsKnown ==
  ASSUME AccessInv, NEW r \in Enrollments, stage[r] = "answered" PROVE Known(r)
BY RequestTypes DEF AccessInv, StagesFollow, Keyed, Known

LEMMA PollReadsInv ==
  ASSUME AccessInv, NEW p \in Polls, PollReads(p)
  PROVE  TypeOK' /\ PollsInv'
<1>. USE DEF AccessInv
<1> DEFINE r == RunnerOf[p]
<1>1. r \in Enrollments /\ Known(r)
  BY PollsAssumption, AnsweredIsKnown DEF PollReads
<1>2. PICK now \in {"saved", "read"} : poll' = [poll EXCEPT ![p] = now]
  BY <1>1 DEF PollReads
<1>3. /\ poll[p] = "none"
      /\ copy' = [copy EXCEPT ![p] = fields[r]]
      /\ readAt' = [readAt EXCEPT ![p] = Len(saves)]
      /\ UNCHANGED <<active, jobVars, faults, tables, stage, fields, saves>>
  BY <1>1 DEF PollReads
<1>4. /\ poll' \in [Polls -> {"none", "read", "saved", "refused", "failed"}]
      /\ copy' \in [Polls -> [Fields -> Polls \cup {None}]]
      /\ readAt' \in [Polls -> Nat]
      /\ \A q \in Polls : q # p =>
           poll'[q] = poll[q] /\ copy'[q] = copy[q] /\ readAt'[q] = readAt[q]
      /\ poll'[p] = now /\ copy'[p] = fields[r] /\ readAt'[p] = Len(saves)
  BY <1>1, <1>2, <1>3 DEF TypeOK
<1>5. TypeOK'
  BY <1>3, <1>4 DEF TypeOK, JobsTypeOK, jobVars, tables
<1>6. NoPollRefused'
  BY <1>4 DEF NoPollRefused
<1>7. /\ \A i \in DOMAIN saves : saves[i] \in Polls /\ saves[i] # p
      /\ DOMAIN saves = 1 .. Len(saves) /\ Len(saves) \in Nat
  <2>1. /\ DOMAIN saves = 1 .. Len(saves) /\ Len(saves) \in Nat
        /\ \A i \in DOMAIN saves : saves[i] \in Polls
    BY DEF TypeOK
  <2>2. \A i \in DOMAIN saves : poll[saves[i]] \in {"saved", "failed"}
    BY DEF PollsFollow
  <2>. QED BY <1>3, <2>1, <2>2
<1>8. \A k \in 1 .. Len(saves) : readAt'[saves[k]] = readAt[saves[k]]
  BY <1>4, <1>7
<1>9. \A k \in 1 .. Len(saves) : \A i, q, f : Covers(k, i, q, f)' <=> Covers(k, i, q, f)
  BY <1>3, <1>8 DEF Covers
<1>10. \A i \in 1 .. Len(saves) : \A f \in Report[saves[i]] :
         \/ fields[RunnerOf[saves[i]]][f] = saves[i]
         \/ \E k \in i + 1 .. Len(saves) : Covers(k, i, RunnerOf[saves[i]], f)
  BY <1>7 DEF ReportsStand, Covers
<1>11. ReportsStand'
  <2>1. SUFFICES ASSUME NEW i \in 1 .. Len(saves), NEW f \in Report[saves[i]],
                        fields[RunnerOf[saves[i]]][f] # saves[i]
                 PROVE  \E k \in i + 1 .. Len(saves) : Covers(k, i, RunnerOf[saves[i]], f)'
    BY <1>3, <1>7 DEF ReportsStand, Covers
  <2>2. PICK k \in i + 1 .. Len(saves) : Covers(k, i, RunnerOf[saves[i]], f)
    BY <1>10, <2>1
  <2>. QED BY <2>2, <1>3, <1>7, <1>9
<1>12. PollsFollow'
  <2>1. \A i \in DOMAIN saves' :
          poll'[saves'[i]] \in {"saved", "failed"} /\ readAt'[saves'[i]] < i
    BY <1>3, <1>4, <1>7, <1>8 DEF PollsFollow
  <2>2. ASSUME NEW q \in Polls, poll'[q] = "read"
        PROVE  /\ readAt'[q] <= Len(saves)
               /\ \A i \in 1 .. readAt'[q] : \A f \in Report[saves[i]] :
                    RunnerOf[saves[i]] = RunnerOf[q] =>
                      \/ copy'[q][f] = saves[i]
                      \/ \E k \in i + 1 .. readAt'[q] : Covers(k, i, RunnerOf[q], f)
    <3>1. CASE q = p
      BY <3>1, <1>4, <1>7, <1>10
    <3>2. CASE q # p
      BY <3>2, <2>2, <1>4 DEF PollsFollow
    <3>. QED BY <3>1, <3>2
  <2>3. SUFFICES ASSUME NEW q \in Polls, poll'[q] = "read"
                 PROVE  /\ readAt'[q] <= Len(saves)
                        /\ \A i \in 1 .. readAt'[q] : \A f \in Report[saves[i]] :
                             RunnerOf[saves[i]] = RunnerOf[q] =>
                               \/ copy'[q][f] = saves[i]
                               \/ \E k \in i + 1 .. readAt'[q] : Covers(k, i, RunnerOf[q], f)'
    BY <1>3, <2>1 DEF PollsFollow
  <2>4. readAt'[q] \in Nat /\ readAt'[q] <= Len(saves)
    BY <2>2, <2>3, <1>4
  <2>. QED BY <2>2, <2>3, <2>4, <1>7, <1>9
<1>. QED BY <1>5, <1>6, <1>11, <1>12 DEF PollsInv

\* The row is written, whether the poll is told or not.
LEMMA WriteRowInv ==
  ASSUME AccessInv, NEW p \in Polls, NEW now \in {"saved", "failed"}, poll[p] = "read",
         WriteRow(p), poll' = [poll EXCEPT ![p] = now], faults' \in 0 .. MaxFaults,
         UNCHANGED <<active, jobVars, tables, stage, copy, readAt>>
  PROVE  TypeOK' /\ PollsInv'
<1>. USE DEF AccessInv
<1> DEFINE r == RunnerOf[p]
           n == Len(saves) + 1
<1>1. /\ r \in Enrollments /\ Report[p] \subseteq Fields /\ Report \in [Polls -> SUBSET Fields]
      /\ RunnerOf \in [Polls -> Enrollments]
  BY PollsAssumption
<1>2. /\ poll[p] = "read" /\ poll' = [poll EXCEPT ![p] = now]
      /\ fields' = [fields EXCEPT ![r] = Merged(p)] /\ saves' = Append(saves, p)
      /\ UNCHANGED <<active, jobVars, tables, stage, copy, readAt>>
  BY DEF WriteRow
<1>3. /\ Merged(p) \in [Fields -> Polls \cup {None}]
      /\ \A f \in Report[p] : Merged(p)[f] = p
      /\ \A f \in Fields : f \notin Report[p] => Merged(p)[f] = copy[p][f]
  BY <1>1 DEF Merged, TypeOK
<1>4. /\ poll' \in [Polls -> {"none", "read", "saved", "refused", "failed"}]
      /\ fields' \in [Enrollments -> [Fields -> Polls \cup {None}]]
      /\ \A q \in Polls : q # p => poll'[q] = poll[q]
      /\ poll'[p] = now
      /\ \A q \in Enrollments : q # r => fields'[q] = fields[q]
      /\ fields'[r] = Merged(p)
  BY <1>1, <1>2, <1>3 DEF TypeOK
<1>5. /\ saves' \in Seq(Polls) /\ Len(saves) \in Nat /\ Len(saves') = n
      /\ DOMAIN saves = 1 .. Len(saves) /\ DOMAIN saves' = 1 .. n
      /\ \A i \in 1 .. Len(saves) : saves'[i] = saves[i] /\ saves[i] \in Polls
      /\ saves'[n] = p
  BY <1>2 DEF TypeOK
<1>6. TypeOK'
  BY <1>2, <1>4, <1>5 DEF TypeOK, JobsTypeOK, jobVars, tables
<1>7. NoPollRefused'
  BY <1>4 DEF NoPollRefused
<1>8. /\ \A i \in 1 .. Len(saves) : saves[i] # p
      /\ readAt[p] \in Nat /\ readAt[p] <= Len(saves)
  BY <1>2, <1>5 DEF PollsFollow, TypeOK
<1>9. \A k \in 1 .. Len(saves) : \A i, q, f : Covers(k, i, q, f)' <=> Covers(k, i, q, f)
  BY <1>2, <1>5 DEF Covers
<1>10. \A k, i, f : k = n /\ (f \in Report[p] \/ readAt[p] < i) => Covers(k, i, r, f)'
  BY <1>2, <1>5 DEF Covers
<1>11. ReportsStand'
  <2>0. DOMAIN saves' = 1 .. n /\ Len(saves') = n
    BY <1>5
  <2>1. SUFFICES ASSUME NEW i \in 1 .. n, NEW f \in Report[saves'[i]],
                        fields'[RunnerOf[saves'[i]]][f] # saves'[i],
                        NEW q, q = RunnerOf[saves'[i]]
                 PROVE  \E k \in i + 1 .. n : Covers(k, i, q, f)'
    BY <2>0 DEF ReportsStand, Covers
  <2>2. CASE i = n
    BY <2>1, <2>2, <1>3, <1>4, <1>5
  <2>3. CASE i # n /\ \E k \in i + 1 .. Len(saves) : Covers(k, i, RunnerOf[saves[i]], f)
    <3>1. i \in 1 .. Len(saves)
      BY <2>3, <1>5
    <3>2. PICK k \in i + 1 .. Len(saves) : Covers(k, i, RunnerOf[saves[i]], f)
      BY <2>3
    <3>3. k \in 1 .. Len(saves) /\ k \in i + 1 .. n /\ saves'[i] = saves[i]
      BY <3>1, <1>5
    <3>. QED BY <2>1, <3>2, <3>3, <1>9
  <2>4. CASE i # n /\ ~\E k \in i + 1 .. Len(saves) : Covers(k, i, RunnerOf[saves[i]], f)
    <3>1. i \in 1 .. Len(saves) /\ saves'[i] = saves[i] /\ saves[i] \in Polls
      BY <2>4, <1>5
    <3>2. fields[RunnerOf[saves[i]]][f] = saves[i] /\ f \in Report[saves[i]] /\ f \in Fields
      BY <2>1, <2>4, <3>1, <1>1, <1>5 DEF ReportsStand, Covers
    <3>3. RunnerOf[saves[i]] = r
      BY <2>1, <3>1, <3>2, <1>1, <1>4
    <3>4. CASE f \in Report[p] \/ readAt[p] < i
      <4>1. n \in i + 1 .. n /\ q = r
        BY <2>1, <3>1, <3>3, <1>5
      <4>. QED BY <4>1, <3>4, <1>10
    <3>5. CASE f \notin Report[p] /\ i <= readAt[p]
      <4>1. i \in 1 .. readAt[p]
        BY <3>1, <3>5, <1>5, <1>8
      <4>2. copy[p][f] = saves[i] \/ \E k \in i + 1 .. readAt[p] : Covers(k, i, r, f)
        BY <4>1, <3>2, <3>3, <1>2 DEF PollsFollow
      <4>3. copy[p][f] # saves[i]
        BY <2>1, <3>1, <3>2, <3>3, <3>5, <1>3, <1>4
      <4>4. \E k \in i + 1 .. Len(saves) : Covers(k, i, r, f)
        BY <4>2, <4>3, <1>5, <1>8
      <4>. QED BY <4>4, <2>4, <3>3
    <3>. QED BY <3>1, <3>4, <3>5, <1>5, <1>8
  <2>. QED BY <2>2, <2>3, <2>4
<1>12. PollsFollow'
  <2>1. \A i \in 1 .. n : poll'[saves'[i]] \in {"saved", "failed"} /\ readAt[saves'[i]] < i
    <3>1. \A i \in 1 .. Len(saves) :
            poll[saves[i]] \in {"saved", "failed"} /\ readAt[saves[i]] < i
      BY <1>5 DEF PollsFollow
    <3>2. ASSUME NEW i \in 1 .. n, i # n
          PROVE  poll'[saves'[i]] \in {"saved", "failed"} /\ readAt[saves'[i]] < i
      <4>1. i \in 1 .. Len(saves)
        BY <3>2, <1>5
      <4>. QED BY <4>1, <3>1, <1>4, <1>5, <1>8
    <3>3. poll'[saves'[n]] \in {"saved", "failed"} /\ readAt[saves'[n]] < n
      BY <1>4, <1>5, <1>8
    <3>. QED BY <3>2, <3>3
  <2>2. SUFFICES ASSUME NEW q \in Polls, poll'[q] = "read"
                 PROVE  /\ readAt[q] <= n
                        /\ \A i \in 1 .. readAt[q] : \A f \in Report[saves'[i]] :
                             RunnerOf[saves'[i]] = RunnerOf[q] =>
                               \/ copy[q][f] = saves'[i]
                               \/ \E k \in i + 1 .. readAt[q] : Covers(k, i, RunnerOf[q], f)'
    BY <2>1, <1>2, <1>5 DEF PollsFollow
  <2>3. /\ readAt[q] \in Nat /\ readAt[q] <= Len(saves)
        /\ \A i \in 1 .. readAt[q] : \A f \in Report[saves[i]] :
             RunnerOf[saves[i]] = RunnerOf[q] =>
               \/ copy[q][f] = saves[i]
               \/ \E k \in i + 1 .. readAt[q] : Covers(k, i, RunnerOf[q], f)
    BY <2>2, <1>4 DEF PollsFollow, TypeOK
  <2>4. \A i \in 1 .. readAt[q] : /\ saves'[i] = saves[i] /\ i \in 1 .. Len(saves)
                                  /\ \A k \in i + 1 .. readAt[q] : k \in 1 .. Len(saves)
    BY <2>3, <1>5
  <2>5. readAt[q] <= n
    BY <2>3, <1>5
  <2>. QED BY <2>3, <2>4, <2>5, <1>9
<1>. QED BY <1>6, <1>7, <1>11, <1>12 DEF PollsInv

LEMMA PollSavesInv ==
  ASSUME AccessInv, NEW p \in Polls, PollSaves(p)
  PROVE  TypeOK' /\ PollsInv'
<1>1. /\ poll[p] = "read" /\ WriteRow(p) /\ poll' = [poll EXCEPT ![p] = "saved"]
      /\ UNCHANGED <<active, jobVars, faults, tables, stage, copy, readAt>>
  BY DEF PollSaves
<1>2. faults' \in 0 .. MaxFaults
  BY <1>1 DEF AccessInv, TypeOK, JobsTypeOK
<1>. QED BY <1>1, <1>2, WriteRowInv

LEMMA PollFailsInv ==
  ASSUME AccessInv, NEW p \in Polls, PollFails(p)
  PROVE  TypeOK' /\ PollsInv'
<1>1. /\ poll[p] = "read" /\ poll' = [poll EXCEPT ![p] = "failed"]
      /\ UNCHANGED <<active, jobVars, tables, stage, copy, readAt>>
      /\ faults' \in 0 .. MaxFaults
  BY FaultsType DEF PollFails, AccessInv, TypeOK, JobsTypeOK
<1>2. CASE WriteRow(p)
  BY <1>1, <1>2, WriteRowInv
<1>3. CASE UNCHANGED <<fields, saves>>
  <2>. USE DEF AccessInv
  <2>1. /\ poll' \in [Polls -> {"none", "read", "saved", "refused", "failed"}]
        /\ \A q \in Polls : q # p => poll'[q] = poll[q]
        /\ poll'[p] = "failed"
    BY <1>1 DEF TypeOK
  <2>2. TypeOK'
    BY <1>1, <1>3, <2>1 DEF TypeOK, JobsTypeOK, jobVars, tables
  <2>3. NoPollRefused' /\ ReportsStand'
    BY <1>1, <1>3, <2>1 DEF NoPollRefused, ReportsStand
  <2>4. PollsFollow'
    BY <1>1, <1>3, <2>1 DEF PollsFollow, Covers, TypeOK
  <2>. QED BY <2>2, <2>3, <2>4 DEF PollsInv
<1>. QED BY <1>2, <1>3 DEF PollFails

-----------------------------------------------------------------------------
(* All steps *)

LEMMA AccessInitInv == Init => JobsInv /\ AccessInv
<1>. SUFFICES ASSUME Init PROVE JobsInv /\ AccessInv
  OBVIOUS
<1>1. JobsInv
  BY JobsInitInv DEF Init
<1>2. Blank \in [Fields -> Polls \cup {None}]
  BY DEF Blank
<1>3. TypeOK
  BY <1>1, <1>2 DEF JobsInv, Init, TypeOK, Stages
<1>4. StagesFollow /\ RowsFollow
  BY DEF Init, StagesFollow, RowsFollow, Submitted
<1>5. NoPollRefused /\ PollsFollow /\ ReportsStand
  BY DEF Init, NoPollRefused, PollsFollow, ReportsStand
<1>. QED BY <1>1, <1>3, <1>4, <1>5 DEF AccessInv

\* A step of a job, which leaves the tables alone.
LEMMA JobOfAccess ==
  ASSUME JobsInv, AccessInv, (\E j \in Jobs : Begin(j) \/ ClientStep(j)) \/ HostStep(active),
         UNCHANGED <<active, tables, stage, pollVars>>
  PROVE  JobsInv' /\ AccessInv'
<1>1. JobsInv'
  BY JobsStepInv
<1>2. \A j \in Jobs : outcome[j] = "found" => outcome'[j] = "found"
  BY FoundStays
<1>3. TypeOK'
  BY <1>1 DEF JobsInv, AccessInv, TypeOK, tables, pollVars
<1>4. StagesFollow' /\ RowsFollow'
  BY <1>2, RequestTypes DEF AccessInv, StagesFollow, RowsFollow, Submitted, Keyed, tables
<1>5. PollsInv'
  BY PollsStay DEF AccessInv, PollsInv
<1>. QED BY <1>1, <1>3, <1>4, <1>5 DEF AccessInv, PollsInv

\* A step of a request or a poll, which leaves the jobs alone.
LEMMA RequestOfAccess ==
  ASSUME JobsInv, AccessInv,
         \/ \E p \in Projects : CreateProject(p)
         \/ \E r \in Requests : RequestStep(r)
         \/ \E r \in Discoveries : Discovered(r)
  PROVE  JobsInv' /\ AccessInv'
<1>1. CASE \E p \in Projects : CreateProject(p)
  <2>1. /\ projects' \in SUBSET Projects /\ projects \subseteq projects'
        /\ UNCHANGED <<active, jobVars, faults, credentials, environments, runners, stage,
                       pollVars>>
    BY <1>1 DEF CreateProject, AccessInv, TypeOK
  <2>2. TypeOK' /\ StagesFollow' /\ RowsFollow'
    BY <2>1, RequestTypes DEF AccessInv, TypeOK, JobsTypeOK, StagesFollow, RowsFollow, Submitted,
                              Keyed, jobVars, pollVars
  <2>. QED BY <2>1, <2>2, FaultStepInv, PollsStay DEF AccessInv, PollsInv
<1>2. ASSUME NEW r \in Requests, RequestStep(r)
      PROVE  JobsInv' /\ AccessInv'
  <2>1. UNCHANGED <<jobVars, pollVars>> /\ (Fault \/ UNCHANGED faults)
    BY <1>2 DEF RequestStep, Submit, StoreCredential, SaveEnvironment, SaveRunner, StepFails
  <2>2. (TypeOK /\ StagesFollow /\ RowsFollow)'
    BY <1>2, SubmitInv, StoreCredentialInv, SaveEnvironmentInv, SaveRunnerInv, StepFailsInv
       DEF RequestStep
  <2>. QED BY <2>1, <2>2, FaultStepInv, PollsStay DEF AccessInv, PollsInv
<1>3. ASSUME NEW r \in Discoveries, Discovered(r)
      PROVE  JobsInv' /\ AccessInv'
  <2>1. UNCHANGED <<jobVars, pollVars, faults>>
    BY <1>3 DEF Discovered
  <2>2. (TypeOK /\ StagesFollow /\ RowsFollow)'
    BY <1>3, DiscoveredInv
  <2>. QED BY <2>1, <2>2, FaultStepInv, PollsStay DEF AccessInv, PollsInv
<1>. QED BY <1>1, <1>2, <1>3

LEMMA PollOfAccess ==
  ASSUME JobsInv, AccessInv, NEW p \in Polls, PollStep(p) PROVE JobsInv' /\ AccessInv'
<1>1. UNCHANGED <<jobVars, tables, stage>> /\ (Fault \/ UNCHANGED faults)
  BY PollsAssumption, AnsweredIsKnown DEF PollStep, PollReads, PollSaves, PollFails
<1>2. JobsInv'
  BY <1>1, FaultStepInv
<1>3. StagesFollow' /\ RowsFollow'
  BY <1>1 DEF AccessInv, StagesFollow, RowsFollow, Submitted, Keyed, jobVars, tables
<1>4. TypeOK' /\ PollsInv'
  BY PollReadsInv, PollSavesInv, PollFailsInv DEF PollStep
<1>. QED BY <1>2, <1>3, <1>4 DEF AccessInv, PollsInv

LEMMA StepInv == ASSUME JobsInv, AccessInv, [Next]_vars PROVE JobsInv' /\ AccessInv'
<1>1. CASE UNCHANGED vars
  <2>1. UNCHANGED <<jobVars, faults, active, tables, stage, pollVars>>
    BY <1>1 DEF vars
  <2>2. TypeOK' /\ StagesFollow' /\ RowsFollow'
    BY <2>1 DEF AccessInv, TypeOK, JobsTypeOK, StagesFollow, RowsFollow, Submitted, Keyed, jobVars,
                tables, pollVars
  <2>. QED BY <2>1, <2>2, FaultStepInv, PollsStay DEF AccessInv, PollsInv
<1>2. ASSUME NEW j \in Jobs, BeginJob(j) PROVE JobsInv' /\ AccessInv'
  <2>1. Begin(j) /\ UNCHANGED <<active, tables, stage, pollVars>>
    BY <1>2 DEF BeginJob
  <2>. QED BY <2>1, JobOfAccess
<1>3. CASE /\ HostStep(active) \/ \E j \in Jobs \cap active : ClientStep(j)
           /\ UNCHANGED <<active, tables, stage, pollVars>>
  BY <1>3, JobOfAccess
<1>. QED BY <1>1, <1>2, <1>3, RequestOfAccess, PollOfAccess DEF Next

-----------------------------------------------------------------------------
(* The theorems *)

\* The invariants of the jobs, the requests and the polls hold throughout.
THEOREM Invariance == Spec => [](JobsInv /\ AccessInv)
<1>1. Init => JobsInv /\ AccessInv
  BY AccessInitInv
<1>2. JobsInv /\ AccessInv /\ [Next]_vars => (JobsInv /\ AccessInv)'
  BY StepInv
<1>. QED BY <1>1, <1>2, PTL DEF Spec

\* Every variable keeps its type, whatever jobs, requests and polls there are.
THEOREM TypeCorrect == Spec => []TypeOK
BY Invariance, PTL DEF AccessInv

\* A job that calls its host healthy restarted it and saw its checks succeed since.
THEOREM HealthIsVerified == Spec => []HealthyMeansRestarted
<1>1. JobsInv => HealthyMeansRestarted
  <2>. SUFFICES ASSUME JobsInv PROVE HealthyMeansRestarted
    OBVIOUS
  <2>. QED BY DEF JobsInv, VerifiesRestarted, OutcomeIsTrue, HealthyMeansRestarted
<1>. QED BY <1>1, Invariance, PTL

\* A job returns only when none of its commands is waited for: what is still unended on
\* its host was given up, and a collection has an item for every tool.
THEOREM JobsLeaveNothing == Spec => []NothingLeftBehind
<1>1. JobsInv => NothingLeftBehind
  <2>1. SUFFICES ASSUME JobsInv, NEW j \in Jobs, place[j] = "done"
                 PROVE  /\ \A s \in Steps :
                             command[j][s] \in {"sent", "running"} => heard[j][s] = "error"
                        /\ outcome[j] = "collected" => \A s \in Tools : Over(j, s)
    BY DEF NothingLeftBehind
  <2>2. ASSUME NEW s \in Steps, command[j][s] \in {"sent", "running"}
        PROVE  heard[j][s] = "error"
    <3>1. heard[j][s] \in {"no", "ok", "bad", "error"}
      BY <2>1 DEF JobsInv, JobsTypeOK
    <3>2. heard[j][s] # "no"
      BY <2>1, <2>2 DEF JobsInv, WaitingIsNeeded, Over
    <3>3. heard[j][s] \notin {"ok", "bad"}
      BY <2>1, <2>2 DEF JobsInv, HeardIsTrue
    <3>. QED BY <3>1, <3>2, <3>3
  <2>. QED BY <2>1, <2>2 DEF JobsInv, OutcomeIsTrue
<1>. QED BY <1>1, Invariance, PTL

\* What jobs return is true, and no command they wait for is left behind.
THEOREM TrueReturns == Spec => []ReturnsAreTrue
BY HealthIsVerified, JobsLeaveNothing, PTL DEF ReturnsAreTrue

\* All commands of a region are sent by the one client it keeps.
THEOREM ClientsAreShared == Spec => []OneClientPerRegion
BY Invariance, PTL DEF JobsInv

\* No row names a row that is missing, whatever write of a request failed.
THEOREM RowsRefer == Spec => []ReferencesHold
<1>1. AccessInv => ReferencesHold
  BY RequestTypes DEF AccessInv, TypeOK, RowsFollow, ReferencesHold, Keyed
<1>. QED BY <1>1, Invariance, PTL

\* An environment was discovered or belongs to an enrollment, and a request that was
\* answered left all of its rows.
THEOREM EnrollmentsWhole == Spec => []EnrollmentsAreWhole
<1>1. JobsInv /\ AccessInv => EnrollmentsAreWhole
  <2>. SUFFICES ASSUME JobsInv, AccessInv PROVE EnrollmentsAreWhole
    OBVIOUS
  <2>1. \A j \in Jobs : outcome[j] = "found" => command[j]["discover"] = "ok"
    BY DEF JobsInv, OutcomeIsTrue
  <2>2. ASSUME NEW r \in environments
        PROVE  \/ r \in Discoveries /\ outcome[r] = "found" /\ command[r]["discover"] = "ok"
               \/ r \in runners \/ stage[r] \in {"register", "failed"}
    <3>1. r \in Requests /\ stage[r] \in {"register", "answered", "failed"}
      BY DEF AccessInv, TypeOK, RowsFollow
    <3>2. CASE r \in Discoveries
      BY <3>2, <2>1, RequestTypes DEF AccessInv, RowsFollow
    <3>3. CASE r \notin Discoveries
      BY <3>1, <3>3, RequestTypes DEF AccessInv, StagesFollow
    <3>. QED BY <3>2, <3>3
  <2>3. ASSUME NEW r \in Requests
        PROVE  /\ stage[r] = "answered" =>
                    r \in environments /\ (r \in Enrollments => r \in runners)
               /\ stage[r] = "refused" =>
                    r \notin environments /\ (r \in credentials => r \in BadURL \cap Enrollments)
    BY DEF AccessInv, StagesFollow, RowsFollow
  <2>. QED BY <2>2, <2>3 DEF EnrollmentsAreWhole
<1>. QED BY <1>1, Invariance, PTL

\* A runner whose enrollment was answered is known when it polls.
THEOREM PollsAreKnown == Spec => []NoPollRefused
BY Invariance, PTL DEF AccessInv

\* Whatever write fails, rows have what they refer to, answered requests all of their
\* rows, and runners are known when they poll.
THEOREM RowsHold == Spec => []RowsAreWhole
BY RowsRefer, EnrollmentsWhole, PollsAreKnown, PTL DEF RowsAreWhole

\* A saved report is only replaced by a later one of the same field, or by a poll that
\* had read the row before.
THEOREM SavedReportsStand == Spec => []ReportsStand
BY Invariance, PTL DEF AccessInv

-----------------------------------------------------------------------------
(* The jobs implement Remediation *)

\* What Remediation sees of a job's restart.
Seen(j, c) ==
  IF j \in again \/ c = "ok" THEN "applied"
  ELSE CASE c = "none" -> "none" [] c = "bad" -> "averted" [] OTHER -> "outstanding"

LEMMA ActingJobs == Acting \subseteq Jobs /\ "restart" \in Steps
BY DEF Acting, Steps

\* A step that changes no restart of an action and no outcome of one is invisible.
LEMMA Unseen ==
  ASSUME \A j \in Acting : /\ Seen(j, command[j]["restart"])' = Seen(j, command[j]["restart"])
                           /\ outcome'[j] = outcome[j]
  PROVE  UNCHANGED Client!vars
BY DEF Client!vars, RestartState, Returned, Seen

\* A step of one command leaves the restarts of all other jobs alone.
LEMMA OtherRestarts ==
  ASSUME JobsTypeOK, NEW j \in Jobs, NEW s \in Steps, NEW c, command' = Set(command, j, s, c)
  PROVE  /\ \A i \in Jobs : i # j \/ s # "restart" =>
              command'[i]["restart"] = command[i]["restart"]
         /\ s = "restart" => command'[j]["restart"] = c
BY DEF JobsTypeOK, Set, Steps

\* A command that is none of an action's restart is invisible, and so is its progress
\* while it is under way.
LEMMA CommandUnseen ==
  ASSUME JobsTypeOK, NEW j \in Jobs, NEW s \in Steps, NEW c, command' = Set(command, j, s, c),
         UNCHANGED <<outcome, again>>,
         j \notin Acting \/ s # "restart" \/ Seen(j, c) = Seen(j, command[j][s])
  PROVE  UNCHANGED Client!vars
<1>1. \A i \in Acting : Seen(i, command[i]["restart"])' = Seen(i, command[i]["restart"])
  BY OtherRestarts, ActingJobs DEF Seen
<1>. QED BY <1>1, Unseen

\* An action's restart that changes for Remediation.
LEMMA RestartSeen ==
  ASSUME JobsTypeOK, NEW j \in Acting, NEW c, command' = Set(command, j, "restart", c),
         UNCHANGED again
  PROVE  RestartState' = [RestartState EXCEPT ![j] = Seen(j, c)]
<1>1. /\ command'[j]["restart"] = c
      /\ \A i \in Acting : i # j => command'[i]["restart"] = command[i]["restart"]
  BY OtherRestarts, ActingJobs
<1>. QED BY <1>1 DEF RestartState, Seen

LEMMA SendRefines ==
  ASSUME JobsInv, NEW j \in Jobs, NEW s \in Steps, Send(j, s)
  PROVE  [Client!Next]_(Client!vars)
<1>1. JobsTypeOK /\ command' = Set(command, j, s, "sent") /\ UNCHANGED <<outcome, again>>
  BY DEF Send, JobsInv
<1>2. CASE j \notin Acting \/ s # "restart"
  BY <1>1, <1>2, CommandUnseen
<1>3. CASE j \in Acting /\ s = "restart"
  <2>1. command[j]["restart"] = "none" /\ outcome[j] = "none" /\ j \notin again
    BY <1>3 DEF Send, Turn, JobsInv, OutcomeIsTrue, RunsFollow
  <2>2. RestartState' = [RestartState EXCEPT ![j] = "outstanding"]
    BY <1>1, <1>3, <2>1, RestartSeen DEF Seen
  <2>3. Client!Order(j)
    BY <1>1, <1>3, <2>1, <2>2 DEF Client!Order, RestartState, Returned
  <2>. QED BY <1>3, <2>3 DEF Client!Next
<1>. QED BY <1>2, <1>3

LEMMA HostRefines ==
  ASSUME JobsTypeOK, NEW j \in Jobs, NEW s \in Steps, Starts(j, s) \/ Ends(j, s) \/ Expires(j, s)
  PROVE  [Client!Next]_(Client!vars)
<1>1. PICK c \in {"running", "ok", "bad"} :
        /\ command' = Set(command, j, s, c)
        /\ command[j][s] \in {"sent", "running"}
        /\ UNCHANGED <<outcome, again>>
  BY DEF Starts, Ends, Expires
<1>2. CASE j \notin Acting \/ s # "restart" \/ c = "running" \/ j \in again
  <2>1. c = "running" \/ j \in again => Seen(j, c) = Seen(j, command[j][s])
    BY <1>1 DEF Seen
  <2>. QED BY <1>1, <1>2, <2>1, CommandUnseen
<1>3. CASE j \in Acting /\ s = "restart" /\ c # "running" /\ j \notin again
  <2>1. Seen(j, c) \in {"applied", "averted"}
    BY <1>3 DEF Seen
  <2>2. RestartState' = [RestartState EXCEPT ![j] = Seen(j, c)]
    BY <1>1, <1>3, RestartSeen
  <2>3. RestartState[j] = "outstanding"
    BY <1>1, <1>3 DEF RestartState
  <2>4. Client!Act(j)
    BY <1>1, <2>1, <2>2, <2>3 DEF Client!Act, Returned
  <2>. QED BY <1>3, <2>4 DEF Client!Next
<1>. QED BY <1>2, <1>3

\* Another run of a task is seen when none has taken place before.
LEMMA AgainRefines ==
  ASSUME JobsInv, NEW j \in Jobs, RunsAgain(j)
  PROVE  [Client!Next]_(Client!vars)
<1>1. /\ again' = again \cup {j} /\ UNCHANGED <<command, outcome>>
      /\ command[j]["restart"] \in {"running", "ok", "bad"}
  BY DEF RunsAgain
<1>2. CASE j \notin Acting \/ j \in again \/ command[j]["restart"] = "ok"
  <2>1. \A i \in Acting : Seen(i, command[i]["restart"])' = Seen(i, command[i]["restart"])
    BY <1>1, <1>2 DEF Seen
  <2>. QED BY <1>1, <2>1, Unseen
<1>3. CASE j \in Acting /\ j \notin again /\ command[j]["restart"] # "ok"
  <2>1. RestartState[j] \in {"outstanding", "averted"}
    BY <1>1, <1>3 DEF RestartState
  <2>2. \A i \in Acting : RestartState'[i] = IF i = j THEN "applied" ELSE RestartState[i]
    BY <1>1, <1>3 DEF RestartState
  <2>3. RestartState' = [RestartState EXCEPT ![j] = "applied"]
    BY <2>2 DEF RestartState
  <2>4. Client!Act(j)
    BY <1>1, <2>1, <2>3 DEF Client!Act, Returned
  <2>. QED BY <1>3, <2>4 DEF Client!Next
<1>. QED BY <1>2, <1>3

\* A job returns: what it found of its action, it found after the restart.
LEMMA ReturnRefines ==
  ASSUME JobsInv, NEW j \in Jobs, NEW what, Return(j, what), UNCHANGED <<command, again>>,
         place[j] # "done",
         j \in Acting => \/ what = "failed"
                         \/ what \in {"healthy", "unhealthy"} /\ phase[j] = "verify"
  PROVE  [Client!Next]_(Client!vars)
<1>1. /\ outcome' = [outcome EXCEPT ![j] = what]
      /\ outcome \in [Jobs -> {"none", "failed", "healthy", "unhealthy", "collected", "found"}]
  BY DEF Return, JobsInv, JobsTypeOK
<1>2. CASE j \notin Acting
  BY <1>1, <1>2, ActingJobs, Unseen DEF Seen
<1>3. CASE j \in Acting
  <2>1. UNCHANGED RestartState
    BY DEF RestartState
  <2>2. Returned' = [Returned EXCEPT ![j] = what]
    BY <1>1, <1>3, ActingJobs DEF Returned
  <2>3. Returned[j] = "none"
    BY <1>3 DEF Returned, JobsInv, OutcomeIsTrue
  <2>4. phase[j] = "verify" => RestartState[j] = "applied"
    BY <1>3 DEF RestartState, JobsInv, VerifiesRestarted
  <2>5. Client!Fail(j) \/ Client!Judge(j)
    BY <1>3, <2>1, <2>2, <2>3, <2>4 DEF Client!Fail, Client!Judge
  <2>. QED BY <1>3, <2>5 DEF Client!Next
<1>. QED BY <1>2, <1>3

LEMMA JobRefines ==
  ASSUME JobsInv, NEW j \in Jobs, Begin(j) \/ ClientStep(j)
  PROVE  [Client!Next]_(Client!vars)
<1>1. CASE UNCHANGED <<command, outcome, again>>
  BY <1>1, Unseen DEF Seen
<1>2. ASSUME NEW s \in Steps, Send(j, s) PROVE [Client!Next]_(Client!vars)
  BY <1>2, SendRefines
<1>3. CASE ConnectFails(j)
  <2>1. Task[j] = "act" => phase[j] \in {"execute", "verify"}
    BY DEF JobsInv, JobsTypeOK
  <2>. QED BY <1>3, <2>1, ReturnRefines DEF ConnectFails
<1>4. CASE Finish(j)
  <2>1. place[j] # "done" /\ UNCHANGED <<command, again>>
    BY <1>4 DEF Finish
  <2>2. CASE ExecutionFails(j)
    BY <2>1, <2>2, ReturnRefines DEF ExecutionFails
  <2>3. CASE Collected(j)
    BY <2>1, <2>3, ReturnRefines DEF Collected, Acting
  <2>4. CASE Discovers(j)
    BY <2>1, <2>4, ReturnRefines DEF Discovers, Acting
  <2>5. CASE Verified(j)
    <3>1. Verdict(j) \in {"healthy", "unhealthy"} /\ phase[j] = "verify"
      BY <2>5 DEF Verdict, Verified
    <3>. QED BY <2>1, <2>5, <3>1, ReturnRefines DEF Verified
  <2>. QED BY <1>4, <2>2, <2>3, <2>4, <2>5 DEF Finish
<1>. QED
  BY <1>1, <1>2, <1>3, <1>4
  DEF ClientStep, Begin, Connect, LookUpClient, CreateClient, SendFails, Hear, GiveUp, LoseTrack,
      Verify

LEMMA InitRefines == Init => Client!Init
<1>1. \A j \in Acting : j \in Jobs /\ "restart" \in Steps
  BY ActingJobs
<1>. QED BY <1>1 DEF Init, JobsInit, Client!Init, RestartState, Returned

\* Every step of the jobs and the hosts is a step of Remediation or invisible there, and
\* all steps of the requests and the polls are invisible.
LEMMA NextRefines ==
  ASSUME JobsInv, [Next]_vars
  PROVE  [Client!Next]_(Client!vars)
<1>1. CASE UNCHANGED <<command, outcome, again>>
  BY <1>1, Unseen DEF Seen
<1>2. CASE HostStep(active)
  BY <1>1, <1>2, HostRefines, AgainRefines DEF HostStep, HostFails, JobsInv
<1>3. CASE \E j \in Jobs : Begin(j) \/ ClientStep(j)
  BY <1>3, JobRefines
<1>. QED
  BY <1>1, <1>2, <1>3
  DEF Next, vars, jobVars, CreateProject, RequestStep, Submit, StoreCredential, SaveEnvironment,
      SaveRunner, StepFails, Discovered, PollStep, PollReads, PollSaves, PollFails, BeginJob

\* For any jobs, over any of the connections, and any number of faults: the restart an
\* executor asks for is sent once and judged only when it took place, as ActionLifecycle
\* takes for granted of its host.
THEOREM JobsImplementRemediation == Spec => ImplementsRemediation
BY InitRefines, NextRefines, Invariance, PTL DEF Spec, ImplementsRemediation, Client!Spec

=============================================================================
