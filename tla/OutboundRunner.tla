--------------------------- MODULE OutboundRunner ---------------------------
(***************************************************************************)
(* The outbound runner channel: Dispatch calls in the control plane, the   *)
(* runner_tasks table in PostgreSQL with its claims and leases, and the    *)
(* runner processes that poll it, run tools and report results over a      *)
(* network that loses and delays calls.                                    *)
(*                                                                         *)
(* Time is kept as ages.  A lease is only ever compared with the time      *)
(* since a claim, so ages count up to the point where the comparison can   *)
(* no longer change, and stop there.                                       *)
(***************************************************************************)
EXTENDS Naturals, FiniteSets

CONSTANTS
  Tasks,        \* dispatched tasks, each named by the rank of its created_at
  Runners,      \* enrolled runner identities, one per environment
  RunnerOf,     \* the runner a task was enqueued for
  Agents,       \* runner processes; several may share one identity
  IdentityOf,   \* the runner identity a process was started with
  Lease,        \* claim lease (one minute), in ticks
  Skew,         \* how far the control plane's clock may be from the database's
  MaxAttempts,  \* deliveries of one result (5)
  MaxFaults     \* bound: crashes, losses and lease overruns in a behaviour

ASSUME TasksAssumption == Tasks \subseteq Nat \ {0}
ASSUME RunnersAssumption ==
  RunnerOf \in [Tasks -> Runners] /\ IdentityOf \in [Agents -> Runners]
ASSUME LeaseAssumption == Lease \in Nat /\ Skew \in 0 .. Lease
ASSUME BoundsAssumption == MaxAttempts \in Nat \ {0} /\ MaxFaults \in Nat

VARIABLES
  \* the table runner_tasks
  status,      \* "absent", "queued", "claimed" or "completed"
  age,         \* ticks since claimed_at while the row is claimed, up to Expired
  result,      \* the claim whose run produced the stored result, 0 if none
  claim,       \* history: how often the row was claimed, the number of its last claim
  \* Dispatch calls in the control plane
  caller,      \* "none", "waiting", "returned" or "gone"
  answer,      \* the result a Dispatch call returned, 0 if none
  discovered,  \* runners whose environment row was filled in by a poll
  \* runner processes
  pc,          \* "idle", "polling", "holding", "hung", "reporting", "awaiting" or "dead"
  work,        \* the claim a process works on
  workAge,     \* ticks since that claim, up to Expired
  attempt,     \* deliveries of its result begun so far
  inflight,    \* result deliveries the control plane has yet to answer
  \* the target hosts, and the faults so far
  ran,         \* history: the claims of a task under which its tool was begun
  faults

table == <<status, age, result, claim>>
callers == <<caller, answer>>
agents == <<pc, work, workAge, attempt>>
vars == <<table, callers, discovered, agents, inflight, ran, faults>>

Expired == Lease + Skew + 1
Places == {"idle", "polling", "holding", "hung", "reporting", "awaiting", "dead"}
NoWork == [task |-> 0, claim |-> 0]
Delivery == [agent : Agents, task : Tasks, claim : Nat, attempt : Nat,
             stage : {"sent", "missed"}]

TypeOK ==
  /\ status \in [Tasks -> {"absent", "queued", "claimed", "completed"}]
  /\ age \in [Tasks -> 0 .. Expired]
  /\ result \in [Tasks -> Nat]
  /\ claim \in [Tasks -> Nat]
  /\ caller \in [Tasks -> {"none", "waiting", "returned", "gone"}]
  /\ answer \in [Tasks -> Nat]
  /\ discovered \subseteq Runners
  /\ pc \in [Agents -> Places]
  /\ work \in [Agents -> [task : Tasks \cup {0}, claim : Nat]]
  /\ workAge \in [Agents -> 0 .. Expired]
  /\ attempt \in [Agents -> 0 .. MaxAttempts]
  /\ inflight \subseteq Delivery
  /\ ran \in [Tasks -> SUBSET Nat]
  /\ faults \in 0 .. MaxFaults

Init ==
  /\ status = [t \in Tasks |-> "absent"]
  /\ age = [t \in Tasks |-> 0]
  /\ result = [t \in Tasks |-> 0]
  /\ claim = [t \in Tasks |-> 0]
  /\ caller = [t \in Tasks |-> "none"]
  /\ answer = [t \in Tasks |-> 0]
  /\ discovered = {}
  /\ pc = [a \in Agents |-> "idle"]
  /\ work = [a \in Agents |-> NoWork]
  /\ workAge = [a \in Agents |-> 0]
  /\ attempt = [a \in Agents |-> 0]
  /\ inflight = {}
  /\ ran = [t \in Tasks |-> {}]
  /\ faults = 0

\* A step that is a fault spends one unit of the budget.
Fault == faults < MaxFaults /\ faults' = faults + 1

-----------------------------------------------------------------------------
(* Dispatch *)

\* Dispatch stamps a new task and inserts its row.  The stamp is taken before
\* the insert, so rows may appear in another order than their stamps.
Dispatch(t) ==
  /\ status[t] = "absent"
  /\ status' = [status EXCEPT ![t] = "queued"]
  /\ caller' = [caller EXCEPT ![t] = "waiting"]
  /\ UNCHANGED <<age, result, claim, answer, discovered, agents, inflight, ran, faults>>

\* Mutated DispatchTick: returns as soon as the row has been claimed.
DispatchTick_Early(t) ==
  /\ caller[t] = "waiting"
  /\ status[t] \in {"claimed", "completed"}
  /\ caller' = [caller EXCEPT ![t] = "returned"]
  /\ answer' = [answer EXCEPT ![t] = result[t]]
  /\ UNCHANGED <<table, discovered, agents, inflight, ran, faults>>

\* A tick of the wait loop that finds the row completed returns its result.
DispatchTick(t) ==
  /\ caller[t] = "waiting"
  /\ status[t] = "completed"
  /\ caller' = [caller EXCEPT ![t] = "returned"]
  /\ answer' = [answer EXCEPT ![t] = result[t]]
  /\ UNCHANGED <<table, discovered, agents, inflight, ran, faults>>

\* The caller's context ends, its reading of the row fails, or the control plane
\* stops: the row stays.
DispatchGone(t) ==
  /\ caller[t] = "waiting"
  /\ caller' = [caller EXCEPT ![t] = "gone"]
  /\ UNCHANGED <<table, answer, discovered, agents, inflight, ran, faults>>

-----------------------------------------------------------------------------
(* Poll *)

\* Mutated Lapsed: a claim lapses at the end of its lease instead of after it.
Lapsed_Inclusive(r, limit) ==
  {t \in Tasks : RunnerOf[t] = r /\ status[t] = "claimed" /\ age[t] >= limit}

\* Mutated Lapsed: claims are never taken back.
Lapsed_Never(r, limit) == {}

Lapsed(r, limit) ==
  {t \in Tasks : RunnerOf[t] = r /\ status[t] = "claimed" /\ age[t] > limit}

\* Mutated Queued: only rows that were never claimed before.
Queued_Unclaimed(r) ==
  {t \in Tasks : RunnerOf[t] = r /\ status[t] = "queued" /\ claim[t] = 0}

Queued(r) == {t \in Tasks : RunnerOf[t] = r /\ status[t] = "queued"}
Oldest(S) == {t \in S : \A u \in S : t <= u}

LetGo(a) ==
  /\ work' = [work EXCEPT ![a] = NoWork]
  /\ workAge' = [workAge EXCEPT ![a] = 0]
  /\ attempt' = [attempt EXCEPT ![a] = 0]

\* The agent has no claim to work on: it starts over at the top of its loop.
Release(a) == pc' = [pc EXCEPT ![a] = "idle"] /\ LetGo(a)

\* A poll reaches the control plane: the environment takes the discovery, and
\* the first statement of the claim returns lapsed rows to the queue.  The
\* cutoff is a time of the control plane's clock, claimed_at one of the
\* database's, so the effective limit is off by up to Skew.
Poll(a) ==
  LET r == IdentityOf[a] IN
  /\ pc[a] = "idle"
  /\ pc' = [pc EXCEPT ![a] = "polling"]
  /\ discovered' = discovered \cup {r}
  /\ \E limit \in (Lease - Skew) .. (Lease + Skew) :
       /\ status' = [t \in Tasks |-> IF t \in Lapsed(r, limit) THEN "queued" ELSE status[t]]
       /\ age' = [t \in Tasks |-> IF t \in Lapsed(r, limit) THEN 0 ELSE age[t]]
  /\ UNCHANGED <<result, claim, callers, work, workAge, attempt, inflight, ran, faults>>

\* The row update of the second statement.
Claim(t) ==
  /\ status' = [status EXCEPT ![t] = "claimed"]
  /\ age' = [age EXCEPT ![t] = 0]
  /\ claim' = [claim EXCEPT ![t] = @ + 1]
  /\ UNCHANGED result

\* The second statement claims the oldest queued row, and the agent receives it.
PollClaim(a) ==
  /\ pc[a] = "polling"
  /\ \E t \in Oldest(Queued(IdentityOf[a])) :
       /\ Claim(t)
       /\ work' = [work EXCEPT ![a] = [task |-> t, claim |-> claim[t] + 1]]
  /\ pc' = [pc EXCEPT ![a] = "holding"]
  /\ workAge' = [workAge EXCEPT ![a] = 0]
  /\ UNCHANGED <<callers, discovered, attempt, inflight, ran, faults>>

\* The row is claimed but the response never reaches the agent.
PollClaimLost(a) ==
  /\ pc[a] = "polling"
  /\ Fault
  /\ \E t \in Oldest(Queued(IdentityOf[a])) : Claim(t)
  /\ Release(a)
  /\ UNCHANGED <<callers, discovered, inflight, ran>>

\* 204: nothing is queued for this runner.
PollEmpty(a) ==
  /\ pc[a] = "polling"
  /\ Queued(IdentityOf[a]) = {}
  /\ Release(a)
  /\ UNCHANGED <<table, callers, discovered, inflight, ran, faults>>

\* The handler fails between its two statements.
PollFails(a) ==
  /\ pc[a] = "polling"
  /\ Fault
  /\ Release(a)
  /\ UNCHANGED <<table, callers, discovered, inflight, ran>>

-----------------------------------------------------------------------------
(* Running the tool and reporting its result *)

\* The tool is begun on the target host.
Begin(a) ==
  /\ pc[a] = "holding"
  /\ ran' = [ran EXCEPT ![work[a].task] = @ \cup {work[a].claim}]
  /\ UNCHANGED <<table, callers, discovered, work, workAge, attempt, inflight>>

\* The tool runs and comes back with a result.
Execute(a) ==
  /\ Begin(a)
  /\ pc' = [pc EXCEPT ![a] = "reporting"]
  /\ UNCHANGED faults

\* The tool never comes back.  The agent runs it in its only loop and under the
\* context of its process, without a deadline: nothing but a restart of the process
\* ends the wait.
Hang(a) ==
  /\ Begin(a)
  /\ Fault
  /\ pc' = [pc EXCEPT ![a] = "hung"]

\* One delivery of the result; the same result is sent at every attempt.
SendResult(a) ==
  /\ pc[a] = "reporting"
  /\ pc' = [pc EXCEPT ![a] = "awaiting"]
  /\ attempt' = [attempt EXCEPT ![a] = @ + 1]
  /\ inflight' = inflight \cup
       {[agent |-> a, task |-> work[a].task, claim |-> work[a].claim,
         attempt |-> attempt[a] + 1, stage |-> "sent"]}
  /\ UNCHANGED <<table, callers, discovered, work, workAge, ran, faults>>

\* A failed delivery is repeated, until the attempts are used up and the
\* result is dropped.
DeliveryFailed(a) ==
  IF attempt[a] < MaxAttempts
  THEN pc' = [pc EXCEPT ![a] = "reporting"] /\ UNCHANGED <<work, workAge, attempt>>
  ELSE Release(a)

\* The agent still waits for the answer to this delivery.
Awaited(m) ==
  /\ pc[m.agent] = "awaiting"
  /\ work[m.agent] = [task |-> m.task, claim |-> m.claim]
  /\ attempt[m.agent] = m.attempt

\* The answer to m reaches the agent, or m's answer has nobody waiting for it,
\* or it is lost and the agent's HTTP call fails.
Answer(m, ok) ==
  \/ /\ Awaited(m)
     /\ IF ok THEN Release(m.agent) ELSE DeliveryFailed(m.agent)
     /\ UNCHANGED faults
  \/ /\ ~ Awaited(m)
     /\ UNCHANGED <<agents, faults>>
  \/ /\ Awaited(m)
     /\ Fault
     /\ DeliveryFailed(m.agent)

\* CompleteTask's UPDATE finds the row claimed, by whichever process, and
\* stores the result.
Complete(m) ==
  /\ m.stage = "sent"
  /\ status[m.task] = "claimed" /\ RunnerOf[m.task] = IdentityOf[m.agent]
  /\ status' = [status EXCEPT ![m.task] = "completed"]
  /\ age' = [age EXCEPT ![m.task] = 0]
  /\ result' = [result EXCEPT ![m.task] = m.claim]
  /\ inflight' = inflight \ {m}
  /\ Answer(m, TRUE)
  /\ UNCHANGED <<claim, callers, discovered, ran>>

\* The UPDATE changes no row; the handler goes on to a separate SELECT.
CompleteMissed(m) ==
  /\ m.stage = "sent"
  /\ status[m.task] # "claimed" \/ RunnerOf[m.task] # IdentityOf[m.agent]
  /\ inflight' = (inflight \ {m}) \cup {[m EXCEPT !.stage = "missed"]}
  /\ UNCHANGED <<table, callers, discovered, agents, ran, faults>>

\* Mutated CompleteRecheck: the owner is checked, the status is not.
CompleteRecheck_OwnerOnly(m) ==
  /\ m.stage = "missed"
  /\ inflight' = inflight \ {m}
  /\ Answer(m, RunnerOf[m.task] = IdentityOf[m.agent])
  /\ UNCHANGED <<table, callers, discovered, ran>>

\* The SELECT: a row that is completed by now acknowledges the delivery, any
\* other row refuses it.
CompleteRecheck(m) ==
  /\ m.stage = "missed"
  /\ inflight' = inflight \ {m}
  /\ Answer(m, status[m.task] = "completed" /\ RunnerOf[m.task] = IdentityOf[m.agent])
  /\ UNCHANGED <<table, callers, discovered, ran>>

\* The agent's HTTP call fails while the request is lost or still under way.
DeliveryTimeout(a) ==
  /\ pc[a] = "awaiting"
  /\ Fault
  /\ inflight' \in {inflight, {m \in inflight : ~ (m.agent = a /\ Awaited(m))}}
  /\ DeliveryFailed(a)
  /\ UNCHANGED <<table, callers, discovered, ran>>

\* A runner process dies.  It is started again, or nobody does or the Discover it
\* starts with hangs: it is not heard of again.
Crash(a) ==
  /\ pc[a] # "dead"
  /\ Fault
  /\ \E p \in {"idle", "dead"} : pc' = [pc EXCEPT ![a] = p]
  /\ LetGo(a)
  /\ UNCHANGED <<table, callers, discovered, inflight, ran>>

-----------------------------------------------------------------------------
(* Time *)

Older(n) == IF n < Expired THEN n + 1 ELSE n
Working(a) == pc[a] \in {"holding", "hung", "reporting", "awaiting"}

\* The claim of a working agent is at the end of the time it is safe for.  (That a
\* hung one gets there was counted when it hung.)
AtLimit(a) ==
  LET t == work[a].task IN
  /\ Working(a) /\ pc[a] # "hung"
  /\ status[t] = "claimed" /\ claim[t] = work[a].claim
  /\ workAge[a] = Lease - Skew

\* Time passes.  Outliving a lease while at work is counted as a fault.
Tick ==
  /\ age' = [t \in Tasks |-> IF status[t] = "claimed" THEN Older(age[t]) ELSE age[t]]
  /\ workAge' = [a \in Agents |-> IF Working(a) THEN Older(workAge[a]) ELSE workAge[a]]
  /\ IF \E a \in Agents : AtLimit(a) THEN Fault ELSE UNCHANGED faults
  /\ UNCHANGED <<status, result, claim, callers, discovered, pc, work, attempt, inflight, ran>>

-----------------------------------------------------------------------------
Deliver == \E m \in inflight : Complete(m) \/ CompleteMissed(m) \/ CompleteRecheck(m)

AgentStep(a) ==
  \/ Poll(a) \/ PollClaim(a) \/ PollClaimLost(a) \/ PollEmpty(a) \/ PollFails(a)
  \/ Execute(a) \/ Hang(a) \/ SendResult(a) \/ DeliveryTimeout(a) \/ Crash(a)

Next ==
  \/ \E t \in Tasks : Dispatch(t) \/ DispatchTick(t) \/ DispatchGone(t)
  \/ \E a \in Agents : AgentStep(a)
  \/ Deliver
  \/ Tick

Spec == Init /\ [][Next]_vars

(* Agents loop for as long as their process lives and its tool comes back, handlers
   answer, the wait loop ticks and time passes.  Fairness of Execute is no promise that a
   tool ends: Hang is the step of the ones that do not.  Nothing obliges a fault, a
   new call or a caller's departure to happen. *)
Fairness ==
  /\ \A t \in Tasks : WF_vars(DispatchTick(t))
  /\ \A a \in Agents :
       /\ WF_vars(Poll(a))
       /\ WF_vars(PollClaim(a) \/ PollEmpty(a))
       /\ WF_vars(Execute(a))
       /\ WF_vars(SendResult(a))
  /\ WF_vars(Deliver)
  /\ WF_vars(Tick)

FairSpec == Spec /\ Fairness

-----------------------------------------------------------------------------
(* Properties *)

\* The lease does its job across processes: no two processes are at work on
\* one task while both are within the time a claim is safe for (the lease less
\* the clock skew), although ClaimNextTask re-queues and re-claims rows while
\* their former holders are still running.
LeaseExclusive ==
  \A a, b \in Agents :
    /\ a # b
    /\ Working(a) /\ Working(b)
    /\ work[a].task = work[b].task
    => workAge[a] > Lease - Skew \/ workAge[b] > Lease - Skew

\* A tool runs only on the host whose environment it was dispatched for.
OwnHostOnly ==
  \A a \in Agents : Working(a) => RunnerOf[work[a].task] = IdentityOf[a]

\* The queue repeats a tool call (a restart, for one) only after something went
\* wrong: without a crash, a lost message or an overrun lease every task runs
\* at most once, and each fault buys at most one more run.
RepeatsNeedFaults ==
  \A t \in Tasks : Cardinality(ran[t]) <= 1 + faults

\* A completed row never leaves that status and its result is never replaced,
\* neither by a late delivery of a former holder nor by a later poll.
SettledForGood ==
  [][\A t \in Tasks : status[t] = "completed" =>
        status'[t] = "completed" /\ result'[t] = result[t]]_vars

\* completeWithRetry gives a result up before its last attempt only when the
\* task has a stored result; a process that forgets one otherwise was struck
\* by a fault.
ResultsNotForgotten ==
  [][\A a \in Agents :
       /\ pc[a] = "awaiting" /\ pc'[a] = "idle"
       /\ attempt[a] < MaxAttempts
       /\ faults' = faults
       => status'[work[a].task] = "completed"]_vars

\* No process of r will poll again: their tools hang, or they are dead.
Deserted(r) == \A a \in Agents : IdentityOf[a] = r => pc[a] \in {"hung", "dead"}

\* A dispatched task is eventually completed once faults stop, unless its runner has no
\* process left that polls: no lapse, refused report, dropped result, dead process
\* or tool that hangs can strand a row that another process of the runner could take.
EveryTaskSettles ==
  \A t \in Tasks :
    status[t] \in {"queued", "claimed"} ~> status[t] = "completed" \/ Deserted(RunnerOf[t])

\* A caller that stays gets its answer, unless no process is left to give it.
CallersAnswered ==
  \A t \in Tasks :
    caller[t] = "waiting" ~> caller[t] \in {"returned", "gone"} \/ Deserted(RunnerOf[t])

-----------------------------------------------------------------------------
(* The inductive invariant behind the safety properties. *)

\* A process at work has a claim of its own on a row of its own runner.
WorkIsClaimed ==
  \A a \in Agents : Working(a) =>
    /\ work[a].task \in Tasks
    /\ RunnerOf[work[a].task] = IdentityOf[a]
    /\ status[work[a].task] # "absent"
    /\ work[a].claim \in 1 .. claim[work[a].task]

ClaimsAreDistinct ==
  \A a, b \in Agents :
    a # b /\ Working(a) /\ Working(b) => work[a] # work[b]

\* The tool runs once per claim, after the claim and before its report.
RunsBelongToClaims ==
  /\ \A t \in Tasks : \A n \in ran[t] : n \in 1 .. claim[t]
  /\ \A a \in Agents :
       /\ pc[a] = "holding" => work[a].claim \notin ran[work[a].task]
       /\ pc[a] \in {"hung", "reporting", "awaiting"} => work[a].claim \in ran[work[a].task]
  /\ \A m \in inflight : m.claim \in ran[m.task]

\* A process within the safe time of its claim holds the row's last claim, the
\* row has not gone back to the queue, and the row's age is the claim's age.
FreshClaimsAreCurrent ==
  \A a \in Agents : Working(a) /\ workAge[a] <= Lease - Skew =>
    /\ status[work[a].task] \in {"claimed", "completed"}
    /\ claim[work[a].task] = work[a].claim
    /\ status[work[a].task] = "claimed" => age[work[a].task] = workAge[a]

AttemptsLeft == \A a \in Agents : pc[a] # "awaiting" => attempt[a] < MaxAttempts

\* A stored result comes from a run of that very task, and a caller that was answered
\* was told the stored one.
ResultsFollowRuns ==
  \A t \in Tasks :
    /\ status[t] = "completed" => result[t] \in ran[t]
    /\ caller[t] = "returned" => status[t] = "completed" /\ answer[t] = result[t]

UnansweredIsZero == \A t \in Tasks : caller[t] # "returned" => answer[t] = 0

\* A delivery that found its row not claimed is late: the row is completed, or the
\* claim it belongs to is no longer the row's.
MissedIsLate ==
  \A m \in inflight :
    /\ RunnerOf[m.task] = IdentityOf[m.agent] /\ status[m.task] # "absent"
    /\ m.stage = "missed" /\ m.claim = claim[m.task] => status[m.task] \in {"queued", "completed"}

\* A process is at work on the row's last claim, within the time it is safe for.
Holds(a, t) ==
  /\ Working(a) /\ pc[a] # "hung"
  /\ work[a] = [task |-> t, claim |-> claim[t]]
  /\ workAge[a] <= Lease - Skew

\* Every claim but a first one was paid for with a fault; the last one not yet, as
\* long as its process holds it or once the row is completed.
ClaimsArePaid ==
  \A t \in Tasks :
    /\ claim[t] <= 1 + faults
    /\ status[t] = "absent" => claim[t] = 0
    /\ \/ claim[t] <= faults
       \/ status[t] = "completed"
       \/ status[t] = "claimed" /\ \E a \in Agents : Holds(a, t)

\* Everything the table, the processes and the deliveries under way agree on
\* between any two steps: claims are distinct, runs and reports belong to
\* claims, and a claim within its lease is the row's present one.
IInv ==
  /\ TypeOK
  /\ WorkIsClaimed
  /\ ClaimsAreDistinct
  /\ RunsBelongToClaims
  /\ FreshClaimsAreCurrent
  /\ AttemptsLeft
  /\ UnansweredIsZero
  /\ ResultsFollowRuns
  /\ MissedIsLate
  /\ ClaimsArePaid

-----------------------------------------------------------------------------
(* The queue implements the task board: claims are the tries, everything
   between posting and settling is invisible. *)
BoardState ==
  [t \in Tasks |->
     CASE status[t] = "absent" -> "absent"
       [] status[t] = "completed" -> "settled"
       [] OTHER -> "open"]
BoardTold == [t \in Tasks |-> [caller |-> caller[t], answer |-> answer[t]]]

Board == INSTANCE TaskBoard
  WITH state <- BoardState, tried <- ran, outcome <- result, told <- BoardTold

\* Seen from its callers the queue is a task board: every try has a number of
\* its own, one try's result is adopted for good, callers are told that one.
ImplementsBoard == Board!Spec

=============================================================================
