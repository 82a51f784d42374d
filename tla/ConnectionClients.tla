------------------------- MODULE ConnectionClients --------------------------
(***************************************************************************)
(* The clients that reach a host: over its own HTTP API (runner), AWS SSM, *)
(* SSH, or a runner that polls (outbound).  A job is one use of them:      *)
(* to execute an action and verify it, to collect the baseline's evidence, *)
(* or to discover a host.  It sends commands the host carries out on its   *)
(* own, hears of their ends or gives them up, and returns.                 *)
(***************************************************************************)
EXTENDS Naturals, FiniteSets

CONSTANTS
  Jobs,
  Task,        \* what a job is for
  Via,         \* its environment's connection type
  Hosts, HostOf,
  Regions, RegionOf,   \* of the jobs that go through SSM
  HealthURL,   \* jobs whose environment has a health URL
  Deadline,    \* jobs whose context has a deadline
  Tools,       \* the baseline
  None,
  MaxFaults    \* bound: failed steps and failing hosts

Checks == {"status", "health"}
Steps == {"restart", "discover"} \cup Checks \cup Tools
ASSUME JobsAssumption ==
  /\ Task \in [Jobs -> {"act", "collect", "discover"}]
  /\ Via \in [Jobs -> {"runner", "ssm", "ssh", "outbound"}]
  /\ HostOf \in [Jobs -> Hosts] /\ RegionOf \in [Jobs -> Regions]
  /\ HealthURL \subseteq Jobs /\ Deadline \subseteq Jobs
ASSUME NamesAssumption ==
  None \notin Jobs \X Steps /\ Tools \cap ({"restart", "discover"} \cup Checks) = {}
ASSUME FaultsAssumption == MaxFaults \in Nat

VARIABLES
  place,     \* where a job is
  phase,     \* whether it executes or verifies
  outcome,   \* what it returned
  cached,    \* the SSM client of a region, named by the command it was created for
  client,    \* the SSM client a command is sent by
  creating,  \* the commands that create one
  command,   \* a command on its host
  heard,     \* what its job knows of it
  up,        \* whether what a host's actions restart is up
  again,     \* jobs whose restart was carried out by another run of its task
  faults

jobVars == <<place, phase, outcome, cached, client, creating, command, heard, up, again>>

Clients == (Jobs \X Steps) \cup {None}
JobsTypeOK ==
  /\ place \in [Jobs -> {"idle", "connecting", "ready", "done"}]
  /\ phase \in [Jobs -> {"execute", "verify"}]
  /\ outcome \in [Jobs -> {"none", "failed", "healthy", "unhealthy", "collected", "found"}]
  /\ cached \in [Regions -> Clients]
  /\ client \in [Jobs -> [Steps -> Clients]]
  /\ creating \subseteq Jobs \X Steps
  /\ command \in [Jobs -> [Steps -> {"none", "sent", "running", "ok", "bad"}]]
  /\ heard \in [Jobs -> [Steps -> {"no", "ok", "bad", "error"}]]
  /\ up \in [Hosts -> BOOLEAN] /\ again \subseteq Jobs
  /\ faults \in 0 .. MaxFaults

JobsInit ==
  /\ place = [j \in Jobs |-> "idle"]
  /\ phase = [j \in Jobs |-> "execute"]
  /\ outcome = [j \in Jobs |-> "none"]
  /\ cached = [r \in Regions |-> None]
  /\ client = [j \in Jobs |-> [s \in Steps |-> None]]
  /\ creating = {}
  /\ command = [j \in Jobs |-> [s \in Steps |-> "none"]]
  /\ heard = [j \in Jobs |-> [s \in Steps |-> "no"]]
  /\ up = [h \in Hosts |-> FALSE] /\ again = {}
  /\ faults = 0

Fault == faults < MaxFaults /\ faults' = faults + 1
Place(j, p) == place' = [place EXCEPT ![j] = p]
Return(j, what) == Place(j, "done") /\ outcome' = [outcome EXCEPT ![j] = what]
Set(f, j, s, value) == [f EXCEPT ![j][s] = value]

-----------------------------------------------------------------------------
(* Reaching the host: one SSH connection carries all commands of a phase, and *)
(* the others send each command by itself.                                    *)

Reach(j) == Place(j, IF Via[j] = "ssh" THEN "connecting" ELSE "ready")

Begin(j) ==
  /\ place[j] = "idle"
  /\ Reach(j)
  /\ UNCHANGED <<phase, outcome, cached, client, creating, command, heard, up, again, faults>>

Connect(j) ==
  /\ place[j] = "connecting"
  /\ Place(j, "ready")
  /\ UNCHANGED <<phase, outcome, cached, client, creating, command, heard, up, again, faults>>

ConnectFails(j) ==
  /\ Fault
  /\ place[j] = "connecting"
  /\ Return(j, IF phase[j] = "verify" THEN "unhealthy" ELSE "failed")
  /\ UNCHANGED <<phase, cached, client, creating, command, heard, up, again>>

-----------------------------------------------------------------------------
(* Commands. *)

Ended(j, s) == command[j][s] \in {"ok", "bad"}
Over(j, s) == heard[j][s] # "no"

\* What a job of a task asks of the host in a phase.
Needed(j) ==
  CASE Task[j] = "collect" -> Tools
    [] Task[j] = "discover" -> {"discover"}
    [] Task[j] = "act" /\ phase[j] = "execute" -> {"restart"}
    [] OTHER -> IF j \in HealthURL THEN Checks ELSE {"status"}

\* The baseline's tools run at the same time, the checks one after the other.  A
\* status check that has an error ends the verification over HTTP and by tasks.
Skipped(j, s) ==
  s = "health" /\ heard[j]["status"] = "error" /\ Via[j] \in {"runner", "outbound"}

Turn(j, s) ==
  /\ place[j] = "ready" /\ s \in Needed(j)
  /\ command[j][s] = "none" /\ ~Over(j, s)
  /\ s = "health" => Over(j, "status") /\ ~Skipped(j, s)

LookUpClient(j, s) ==
  /\ Turn(j, s) /\ Via[j] = "ssm"
  /\ client[j][s] = None /\ <<j, s>> \notin creating
  /\ IF cached[RegionOf[j]] # None
       THEN client' = Set(client, j, s, cached[RegionOf[j]]) /\ UNCHANGED creating
       ELSE creating' = creating \cup {<<j, s>>} /\ UNCHANGED client
  /\ UNCHANGED <<place, phase, outcome, cached, command, heard, up, again, faults>>

\* The lock is not held while the client is created: look again.
Kept(j, s) == IF cached[RegionOf[j]] # None THEN cached[RegionOf[j]] ELSE <<j, s>>

CreateClient(j, s) ==
  /\ <<j, s>> \in creating
  /\ cached' = [cached EXCEPT ![RegionOf[j]] = Kept(j, s)]
  /\ client' = Set(client, j, s, Kept(j, s))
  /\ creating' = creating \ {<<j, s>>}
  /\ UNCHANGED <<place, phase, outcome, command, heard, up, again, faults>>

Send(j, s) ==
  /\ Turn(j, s) /\ (Via[j] = "ssm" => client[j][s] # None)
  /\ command' = Set(command, j, s, "sent")
  /\ UNCHANGED <<place, phase, outcome, cached, client, creating, heard, up, again, faults>>

\* The client cannot be created, or the command not be handed over.
SendFails(j, s) ==
  /\ Fault
  /\ Turn(j, s)
  /\ heard' = Set(heard, j, s, "error")
  /\ creating' = creating \ {<<j, s>>}
  /\ UNCHANGED <<place, phase, outcome, cached, client, command, up, again>>

Starts(j, s) ==
  /\ command[j][s] = "sent"
  /\ command' = Set(command, j, s, "running")
  /\ UNCHANGED <<place, phase, outcome, cached, client, creating, heard, up, again, faults>>

\* Any command may fail, and a check fails of what is down.
Ends(j, s) ==
  LET h == HostOf[j] IN
  /\ command[j][s] = "running"
  /\ \E result \in {"ok", "bad"} :
       /\ s \in Checks /\ ~up[h] => result = "bad"
       /\ command' = Set(command, j, s, result)
       /\ up' = [up EXCEPT ![h] = @ \/ (s = "restart" /\ result = "ok")]
  /\ UNCHANGED <<place, phase, outcome, cached, client, creating, heard, again, faults>>

\* The lease of an outbound runner's task lapses while its tool runs: another process
\* runs it again, and either may end after the other has answered.  Of what may be
\* asked only a restart changes the host.
RunsAgain(j) ==
  /\ Fault
  /\ Via[j] = "outbound" /\ command[j]["restart"] \in {"running", "ok", "bad"}
  /\ again' = again \cup {j}
  /\ up' = [up EXCEPT ![HostOf[j]] = TRUE]
  /\ UNCHANGED <<place, phase, outcome, cached, client, creating, command, heard>>

\* SSM drops a command its instance has not picked up in time.
Expires(j, s) ==
  /\ Via[j] = "ssm" /\ command[j][s] = "sent"
  /\ command' = Set(command, j, s, "bad")
  /\ UNCHANGED <<place, phase, outcome, cached, client, creating, heard, up, again, faults>>

Hear(j, s) ==
  /\ Ended(j, s) /\ ~Over(j, s)
  /\ heard' = Set(heard, j, s, command[j][s])
  /\ UNCHANGED <<place, phase, outcome, cached, client, creating, command, up, again, faults>>

\* The clients of the HTTP API and of SSM have limits of their own.
Limited_Context(j) == j \in Deadline
Limited(j) == j \in Deadline \/ Via[j] \in {"runner", "ssm"}

GivenUp_Success == "ok"
GivenUp == "error"

\* The time is up; the command may run on, or may just have ended.
GiveUp(j, s) ==
  /\ Limited(j)
  /\ command[j][s] # "none" /\ ~Over(j, s)
  /\ heard' = Set(heard, j, s, GivenUp)
  /\ UNCHANGED <<place, phase, outcome, cached, client, creating, command, up, again, faults>>

\* The connection breaks, a poll of SSM or of the task fails, or the caller of the
\* job hangs up.
LoseTrack(j, s) ==
  /\ Fault
  /\ command[j][s] # "none" /\ ~Over(j, s)
  /\ heard' = Set(heard, j, s, "error")
  /\ UNCHANGED <<place, phase, outcome, cached, client, creating, command, up, again>>

HostFails(h) ==
  /\ Fault
  /\ up[h]
  /\ up' = [up EXCEPT ![h] = FALSE]
  /\ UNCHANGED <<place, phase, outcome, cached, client, creating, command, heard, again>>

-----------------------------------------------------------------------------
(* Returning. *)

Passed(j) == \A s \in Needed(j) : heard[j][s] = "ok"

AllOver_First(j) == \E s \in Needed(j) : Over(j, s)
AllOver(j) == \A s \in Needed(j) : Over(j, s) \/ Skipped(j, s)

\* The action was executed: reach the host again to verify it.
Verify(j) ==
  /\ place[j] = "ready" /\ Task[j] = "act" /\ phase[j] = "execute"
  /\ AllOver(j) /\ Passed(j)
  /\ phase' = [phase EXCEPT ![j] = "verify"]
  /\ Reach(j)
  /\ UNCHANGED <<outcome, cached, client, creating, command, heard, up, again, faults>>

ExecutionFails(j) == /\ Task[j] = "act" /\ phase[j] = "execute" /\ ~Passed(j)
                     /\ Return(j, "failed")
Collected(j) == Task[j] = "collect" /\ Return(j, "collected")
Discovers(j) == Task[j] = "discover" /\ Return(j, IF Passed(j) THEN "found" ELSE "failed")

Verdict(j) == IF Passed(j) THEN "healthy" ELSE "unhealthy"
Verified(j) == Task[j] = "act" /\ phase[j] = "verify" /\ Return(j, Verdict(j))

Finish(j) ==
  /\ place[j] = "ready" /\ AllOver(j)
  /\ ExecutionFails(j) \/ Collected(j) \/ Discovers(j) \/ Verified(j)
  /\ UNCHANGED <<phase, cached, client, creating, command, heard, up, again, faults>>

ClientStep(j) ==
  \/ Connect(j) \/ ConnectFails(j)
  \/ \E s \in Steps :
       \/ LookUpClient(j, s) \/ CreateClient(j, s) \/ Send(j, s) \/ SendFails(j, s)
       \/ Hear(j, s) \/ GiveUp(j, s) \/ LoseTrack(j, s)
  \/ Verify(j) \/ Finish(j)

HostStep(active) ==
  \/ \E j \in Jobs \cap active, s \in Steps : Starts(j, s) \/ Ends(j, s) \/ Expires(j, s)
  \/ \E j \in Jobs \cap active : RunsAgain(j)
  \/ \E h \in Hosts : HostFails(h)

Advance(j) ==
  \/ Verify(j) \/ Finish(j)
  \/ \E s \in Steps :
       \/ LookUpClient(j, s) \/ CreateClient(j, s) \/ (Via[j] # "ssh" /\ Send(j, s))
       \/ Hear(j, s) \/ GiveUp(j, s)

\* The clients run and their timers fire; hosts owe nothing.  An SSH handshake and
\* the opening of a session have no limit: the host may leave them open.
ClientsFairness == \A j \in Jobs : WF_<<jobVars, faults>>(Advance(j))

-----------------------------------------------------------------------------

\* A healthy verdict is given only after the restart of the same job ended with
\* success on the host, and after every check of the environment, sent since then,
\* succeeded there; a command given up counts as none.
HealthyMeansRestarted ==
  \A j \in Jobs :
    /\ \A s \in Checks : command[j][s] # "none" => command[j]["restart"] = "ok"
    /\ outcome[j] = "healthy" =>
         /\ command[j]["restart"] = "ok" /\ command[j]["status"] = "ok"
         /\ j \in HealthURL => command[j]["health"] = "ok"

\* A job that has returned has heard of every command it left on its host, unless it
\* gave that command up; collecting returns one item for every tool.
NothingLeftBehind ==
  \A j \in Jobs : place[j] = "done" =>
    /\ \A s \in Steps : command[j][s] \in {"sent", "running"} => heard[j][s] = "error"
    /\ outcome[j] = "collected" => \A s \in Tools : Over(j, s)

\* However many commands look for a region's client at once, all are sent by the one
\* it keeps.
OneClientPerRegion ==
  \A j \in Jobs, s \in Steps :
    client[j][s] # None => client[j][s] = cached[RegionOf[j]]

\* Where the client or the job's context has a limit, every command that was sent is
\* over in the end although its host may never end it, and every job that began
\* returns; over SSH, which puts no limit on its handshakes, only the former.
JobsReturn ==
  <>[](\A j \in Jobs : j \in Deadline \/ Via[j] \in {"runner", "ssm"} =>
         /\ \A s \in Steps : command[j][s] # "none" => Over(j, s)
         /\ Via[j] # "ssh" => place[j] \in {"idle", "done"})

=============================================================================
