----------------------- MODULE OutboundRunner_proofs -----------------------
(***************************************************************************)
(* Proofs about OutboundRunner, for any tasks, runners, processes, lease,  *)
(* clock skew, number of attempts and number of faults.                    *)
(***************************************************************************)
EXTENDS OutboundRunner, FiniteSetTheorems, TLAPS

LEMMA ExpiredIsNat == Expired \in Nat /\ Lease - Skew \in Nat /\ Lease - Skew < Expired
BY LeaseAssumption DEF Expired

-----------------------------------------------------------------------------
(* Type correctness *)

\* The operators the agents' steps share keep the agents well typed.
LEMMA ReleaseType ==
  ASSUME TypeOK, NEW a \in Agents, Release(a)
  PROVE  /\ pc' \in [Agents -> Places]
         /\ work' \in [Agents -> [task : Tasks \cup {0}, claim : Nat]]
         /\ workAge' \in [Agents -> 0 .. Expired]
         /\ attempt' \in [Agents -> 0 .. MaxAttempts]
BY ExpiredIsNat, BoundsAssumption DEF TypeOK, Release, LetGo, NoWork, Places

LEMMA DeliveryFailedType ==
  ASSUME TypeOK, NEW a \in Agents, DeliveryFailed(a)
  PROVE  /\ pc' \in [Agents -> Places]
         /\ work' \in [Agents -> [task : Tasks \cup {0}, claim : Nat]]
         /\ workAge' \in [Agents -> 0 .. Expired]
         /\ attempt' \in [Agents -> 0 .. MaxAttempts]
<1>1. CASE attempt[a] < MaxAttempts
  BY <1>1 DEF TypeOK, DeliveryFailed, Places
<1>2. CASE ~ (attempt[a] < MaxAttempts)
  BY <1>2, ReleaseType DEF DeliveryFailed
<1>. QED BY <1>1, <1>2

LEMMA AnswerType ==
  ASSUME TypeOK, NEW m \in inflight, NEW ok \in BOOLEAN, Answer(m, ok)
  PROVE  /\ pc' \in [Agents -> Places]
         /\ work' \in [Agents -> [task : Tasks \cup {0}, claim : Nat]]
         /\ workAge' \in [Agents -> 0 .. Expired]
         /\ attempt' \in [Agents -> 0 .. MaxAttempts]
         /\ faults' \in 0 .. MaxFaults
<1>1. m.agent \in Agents
  BY DEF TypeOK, Delivery
<1>2. CASE Release(m.agent) /\ UNCHANGED faults
  BY <1>1, <1>2, ReleaseType DEF TypeOK
<1>3. CASE DeliveryFailed(m.agent) /\ (Fault \/ UNCHANGED faults)
  BY <1>1, <1>3, DeliveryFailedType, BoundsAssumption DEF TypeOK, Fault
<1>4. CASE UNCHANGED <<agents, faults>>
  BY <1>4 DEF TypeOK, agents
<1>. QED BY <1>2, <1>3, <1>4 DEF Answer

LEMMA InitType == Init => TypeOK
BY ExpiredIsNat, BoundsAssumption, TasksAssumption DEF Init, TypeOK, NoWork, Places

LEMMA NextType ==
  ASSUME TypeOK, WorkIsClaimed, AttemptsLeft, [Next]_vars
  PROVE  TypeOK'
<1>. USE ExpiredIsNat, BoundsAssumption, TasksAssumption, RunnersAssumption DEF Places
<1>1. ASSUME NEW t \in Tasks, Dispatch(t) PROVE TypeOK'
  BY <1>1 DEF TypeOK, Dispatch, agents
<1>2. ASSUME NEW t \in Tasks, DispatchTick(t) PROVE TypeOK'
  BY <1>2 DEF TypeOK, DispatchTick, table, agents
<1>3. ASSUME NEW t \in Tasks, DispatchGone(t) PROVE TypeOK'
  BY <1>3 DEF TypeOK, DispatchGone, table, agents
<1>4. ASSUME NEW a \in Agents, Poll(a) PROVE TypeOK'
  BY <1>4 DEF TypeOK, Poll, callers
<1>5. ASSUME NEW a \in Agents, PollClaim(a) PROVE TypeOK'
  BY <1>5 DEF TypeOK, PollClaim, Claim, Oldest, Queued, callers
<1>6. ASSUME NEW a \in Agents, PollClaimLost(a) PROVE TypeOK'
  <2>. PICK t \in Tasks : Claim(t)
    BY <1>6 DEF PollClaimLost, Oldest, Queued
  <2>1. /\ status' \in [Tasks -> {"absent", "queued", "claimed", "completed"}]
        /\ age' \in [Tasks -> 0 .. Expired]
        /\ result' \in [Tasks -> Nat]
        /\ claim' \in [Tasks -> Nat]
    BY DEF TypeOK, Claim
  <2>. QED BY <1>6, <2>1, ReleaseType DEF TypeOK, PollClaimLost, Fault, callers
<1>7. ASSUME NEW a \in Agents, PollEmpty(a) PROVE TypeOK'
  BY <1>7, ReleaseType DEF TypeOK, PollEmpty, table, callers
<1>8. ASSUME NEW a \in Agents, PollFails(a) PROVE TypeOK'
  BY <1>8, ReleaseType DEF TypeOK, PollFails, Fault, table, callers
<1>9. ASSUME NEW a \in Agents, Execute(a) PROVE TypeOK'
  BY <1>9 DEF TypeOK, Execute, Begin, table, callers
<1>10. ASSUME NEW a \in Agents, SendResult(a) PROVE TypeOK'
  BY <1>10
  DEF TypeOK, SendResult, Delivery, WorkIsClaimed, AttemptsLeft, Working, table, callers
<1>11. ASSUME NEW a \in Agents, DeliveryTimeout(a) PROVE TypeOK'
  BY <1>11, DeliveryFailedType DEF TypeOK, DeliveryTimeout, Fault, table, callers
<1>12. ASSUME NEW a \in Agents, Crash(a) PROVE TypeOK'
  BY <1>12 DEF TypeOK, Crash, LetGo, NoWork, Fault, table, callers
<1>18. ASSUME NEW a \in Agents, Hang(a) PROVE TypeOK'
  <2>1. /\ UNCHANGED <<table, callers, discovered, work, workAge, attempt, inflight>>
        /\ ran' \in [Tasks -> SUBSET Nat]
    BY <1>18 DEF TypeOK, Hang, Begin
  <2>2. pc' \in [Agents -> Places] /\ faults' \in 0 .. MaxFaults
    BY <1>18 DEF TypeOK, Hang, Fault
  <2>. QED BY <2>1, <2>2 DEF TypeOK, table, callers
<1>13. ASSUME NEW m \in inflight, Complete(m) PROVE TypeOK'
  <2>1. m.task \in Tasks /\ m.claim \in Nat
    BY DEF TypeOK, Delivery
  <2>2. /\ status' \in [Tasks -> {"absent", "queued", "claimed", "completed"}]
        /\ age' \in [Tasks -> 0 .. Expired]
        /\ result' \in [Tasks -> Nat]
        /\ inflight' \subseteq Delivery
    BY <1>13, <2>1 DEF TypeOK, Complete
  <2>3. Answer(m, TRUE)
    BY <1>13 DEF Complete
  <2>. QED BY <1>13, <2>2, <2>3, AnswerType DEF TypeOK, Complete, callers
<1>14. ASSUME NEW m \in inflight, CompleteMissed(m) PROVE TypeOK'
  <2>1. [m EXCEPT !.stage = "missed"] \in Delivery
    BY DEF TypeOK, Delivery
  <2>. QED BY <1>14, <2>1 DEF TypeOK, CompleteMissed, table, callers, agents
<1>15. ASSUME NEW m \in inflight, CompleteRecheck(m) PROVE TypeOK'
  <2>. DEFINE ok == status[m.task] = "completed" /\ RunnerOf[m.task] = IdentityOf[m.agent]
  <2>1. ok \in BOOLEAN /\ Answer(m, ok)
    BY <1>15 DEF CompleteRecheck
  <2>. HIDE DEF ok
  <2>. QED BY <1>15, <2>1, AnswerType DEF TypeOK, CompleteRecheck, table, callers
<1>16. CASE Tick
  BY <1>16 DEF TypeOK, Tick, Older, Fault, callers
<1>17. CASE UNCHANGED vars
  BY <1>17 DEF TypeOK, vars, table, callers, agents
<1>. QED
  BY <1>1, <1>2, <1>3, <1>4, <1>5, <1>6, <1>7, <1>8, <1>9, <1>10, <1>11, <1>12, <1>13,
     <1>14, <1>15, <1>16, <1>17, <1>18 DEF Next, AgentStep, Deliver

-----------------------------------------------------------------------------
(* Steps in which no process takes up work: a process that is at work
   afterwards was at work on the same claim before, and has not gone back from
   reporting to running. *)

NoNewWork ==
  \A a \in Agents :
    Working(a)' => /\ Working(a)
                   /\ work'[a] = work[a] /\ workAge'[a] = workAge[a]
                   /\ pc'[a] = "holding" <=> pc[a] = "holding"

\* A process that lets go of its claim without taking up another.
LEMMA StopNoNewWork ==
  ASSUME TypeOK, NEW a \in Agents, NEW p \in {"idle", "dead"}, pc' = [pc EXCEPT ![a] = p],
         LetGo(a)
  PROVE  NoNewWork
BY DEF TypeOK, LetGo, NoNewWork, Working

LEMMA ReleaseNoNewWork ==
  ASSUME TypeOK, NEW a \in Agents, Release(a)
  PROVE  NoNewWork
BY StopNoNewWork DEF Release

LEMMA DeliveryFailedNoNewWork ==
  ASSUME TypeOK, NEW a \in Agents, pc[a] = "awaiting", DeliveryFailed(a)
  PROVE  NoNewWork
<1>1. CASE attempt[a] < MaxAttempts
  BY <1>1 DEF TypeOK, DeliveryFailed, NoNewWork, Working
<1>2. CASE ~ (attempt[a] < MaxAttempts)
  BY <1>2, ReleaseNoNewWork DEF DeliveryFailed
<1>. QED BY <1>1, <1>2

LEMMA AnswerNoNewWork ==
  ASSUME TypeOK, NEW m \in inflight, NEW ok \in BOOLEAN, Answer(m, ok)
  PROVE  NoNewWork
<1>1. m.agent \in Agents
  BY DEF TypeOK, Delivery
<1>2. CASE Release(m.agent)
  BY <1>1, <1>2, ReleaseNoNewWork
<1>3. CASE Awaited(m) /\ DeliveryFailed(m.agent)
  BY <1>1, <1>3, DeliveryFailedNoNewWork DEF Awaited
<1>4. CASE UNCHANGED agents
  BY <1>4 DEF agents, NoNewWork, Working
<1>. QED BY <1>2, <1>3, <1>4 DEF Answer

\* The part of the invariant that relates processes, claims, runs and reports.
Bookkeeping ==
  /\ WorkIsClaimed
  /\ ClaimsAreDistinct
  /\ RunsBelongToClaims
  /\ FreshClaimsAreCurrent

\* Such a step keeps the bookkeeping when it leaves claims and runs alone and
\* either leaves the rows alone or completes a claimed one.
LEMMA NoNewWorkBookkeeping ==
  ASSUME TypeOK, Bookkeeping, NoNewWork, UNCHANGED <<claim, ran>>,
         \A t \in Tasks : \/ status'[t] = status[t] /\ age'[t] = age[t]
                          \/ status[t] = "claimed" /\ status'[t] = "completed",
         \A m \in inflight' : m.claim \in ran[m.task]
  PROVE  Bookkeeping'
<1>. USE DEF Bookkeeping, NoNewWork
<1>1. WorkIsClaimed'
  BY DEF WorkIsClaimed
<1>2. ClaimsAreDistinct'
  BY DEF ClaimsAreDistinct
<1>3. RunsBelongToClaims'
  BY DEF RunsBelongToClaims, Working
<1>4. FreshClaimsAreCurrent'
  BY DEF FreshClaimsAreCurrent, WorkIsClaimed
<1>. QED BY <1>1, <1>2, <1>3, <1>4

\* Steps that touch neither the claims nor the runs nor the agents.
LEMMA IdleNoNewWork ==
  ASSUME UNCHANGED agents
  PROVE  NoNewWork
BY DEF agents, NoNewWork, Working

\* Dispatch inserts the row of a task nobody can have claimed yet.
LEMMA DispatchBookkeeping ==
  ASSUME TypeOK, Bookkeeping, NEW t \in Tasks, Dispatch(t)
  PROVE  Bookkeeping'
<1>. USE DEF Bookkeeping, Dispatch, agents
<1>1. \A a \in Agents : Working(a) => work[a].task # t
  BY DEF WorkIsClaimed
<1>2. WorkIsClaimed'
  BY <1>1 DEF TypeOK, WorkIsClaimed, Working
<1>3. ClaimsAreDistinct'
  BY DEF ClaimsAreDistinct, Working
<1>4. RunsBelongToClaims'
  BY DEF RunsBelongToClaims
<1>5. FreshClaimsAreCurrent'
  BY <1>1 DEF TypeOK, FreshClaimsAreCurrent, WorkIsClaimed, Working
<1>. QED BY <1>2, <1>3, <1>4, <1>5

\* A poll returns a row to the queue only when its claim's safe time is over.
LEMMA PollBookkeeping ==
  ASSUME TypeOK, Bookkeeping, NEW a \in Agents, Poll(a)
  PROVE  Bookkeeping'
<1>. USE DEF Bookkeeping
<1>1. PICK limit \in (Lease - Skew) .. (Lease + Skew) :
        /\ status' = [t \in Tasks |-> IF t \in Lapsed(IdentityOf[a], limit) THEN "queued" ELSE status[t]]
        /\ age' = [t \in Tasks |-> IF t \in Lapsed(IdentityOf[a], limit) THEN 0 ELSE age[t]]
  BY DEF Poll
<1>2. \A b \in Agents : Working(b)' = Working(b)
  BY DEF TypeOK, Poll, Working
<1>3. WorkIsClaimed'
  BY <1>1, <1>2 DEF TypeOK, WorkIsClaimed, Poll
<1>4. ClaimsAreDistinct'
  BY <1>2 DEF ClaimsAreDistinct, Poll
<1>5. RunsBelongToClaims'
  BY DEF TypeOK, RunsBelongToClaims, Poll
<1>6. FreshClaimsAreCurrent'
  <2>1. SUFFICES ASSUME NEW b \in Agents, Working(b), workAge[b] <= Lease - Skew
                 PROVE  /\ status'[work[b].task] = status[work[b].task]
                        /\ age'[work[b].task] = age[work[b].task]
    BY <1>2 DEF FreshClaimsAreCurrent, Poll
  <2>2. work[b].task \in Tasks
    BY <2>1 DEF WorkIsClaimed
  <2>3. work[b].task \notin Lapsed(IdentityOf[a], limit)
    BY <2>1, <2>2, LeaseAssumption DEF FreshClaimsAreCurrent, Lapsed, TypeOK
  <2>. QED BY <1>1, <2>2, <2>3
<1>. QED BY <1>3, <1>4, <1>5, <1>6

\* No process is within the safe time of a claim on a queued row.
LEMMA QueuedNotFresh ==
  ASSUME TypeOK, Bookkeeping, NEW t \in Tasks, status[t] = "queued",
         NEW a \in Agents, Working(a), work[a].task = t
  PROVE  ~ (workAge[a] <= Lease - Skew)
BY DEF Bookkeeping, FreshClaimsAreCurrent

\* A claim takes a fresh number: nobody else works under it, nothing ran under it.
LEMMA PollClaimBookkeeping ==
  ASSUME TypeOK, Bookkeeping, NEW a \in Agents, PollClaim(a)
  PROVE  Bookkeeping'
<1>. USE DEF Bookkeeping
<1>1. PICK t \in Tasks :
        /\ status[t] = "queued" /\ RunnerOf[t] = IdentityOf[a]
        /\ Claim(t)
        /\ work' = [work EXCEPT ![a] = [task |-> t, claim |-> claim[t] + 1]]
  BY DEF PollClaim, Oldest, Queued
<1>2. \A b \in Agents : b # a => /\ Working(b)' = Working(b)
                                 /\ work'[b] = work[b] /\ workAge'[b] = workAge[b]
                                 /\ pc'[b] = pc[b]
  BY <1>1 DEF TypeOK, PollClaim, Working
<1>3. work'[a].task = t /\ work'[a].claim = claim[t] + 1 /\ workAge'[a] = 0 /\ pc'[a] = "holding"
  BY <1>1 DEF TypeOK, PollClaim
<1>4. WorkIsClaimed'
  BY <1>1, <1>2, <1>3 DEF TypeOK, WorkIsClaimed, Claim
<1>5. ClaimsAreDistinct'
  <2>1. \A b \in Agents : b # a /\ Working(b) => work[b] # work'[a]
    BY <1>1, <1>3 DEF TypeOK, WorkIsClaimed
  <2>. QED BY <1>2, <2>1 DEF ClaimsAreDistinct
<1>6. RunsBelongToClaims'
  <2>1. UNCHANGED <<ran, inflight>>
    BY DEF PollClaim
  <2>2. \A u \in Tasks : \A n \in ran[u] : n \in 1 .. claim'[u]
    BY <1>1 DEF TypeOK, RunsBelongToClaims, Claim
  <2>3. claim[t] + 1 \notin ran[t]
    BY DEF TypeOK, RunsBelongToClaims
  <2>. QED BY <1>2, <1>3, <2>1, <2>2, <2>3 DEF RunsBelongToClaims
<1>7. FreshClaimsAreCurrent'
  <2>1. status'[t] = "claimed" /\ age'[t] = 0 /\ claim'[t] = claim[t] + 1
    BY <1>1 DEF TypeOK, Claim
  <2>2. \A u \in Tasks : u # t => status'[u] = status[u] /\ age'[u] = age[u] /\ claim'[u] = claim[u]
    BY <1>1 DEF TypeOK, Claim
  <2>3. ASSUME NEW b \in Agents, b # a, Working(b)', workAge'[b] <= Lease - Skew
        PROVE  work[b].task \in Tasks /\ work[b].task # t
    BY <1>1, <1>2, <2>3, QueuedNotFresh DEF WorkIsClaimed
  <2>. QED BY <1>2, <1>3, <2>1, <2>2, <2>3 DEF FreshClaimsAreCurrent
<1>. QED BY <1>4, <1>5, <1>6, <1>7

\* A claim whose answer is lost: the row moves on, nobody works on it.
LEMMA PollClaimLostBookkeeping ==
  ASSUME TypeOK, Bookkeeping, NEW a \in Agents, PollClaimLost(a)
  PROVE  Bookkeeping'
<1>. USE DEF Bookkeeping
<1>1. PICK t \in Tasks : status[t] = "queued" /\ Claim(t)
  BY DEF PollClaimLost, Oldest, Queued
<1>2. NoNewWork
  BY ReleaseNoNewWork DEF PollClaimLost
<1>3. UNCHANGED <<ran, inflight>>
  BY DEF PollClaimLost
<1>4. WorkIsClaimed'
  BY <1>1, <1>2 DEF TypeOK, WorkIsClaimed, Claim, NoNewWork
<1>5. ClaimsAreDistinct'
  BY <1>2 DEF ClaimsAreDistinct, NoNewWork
<1>6. RunsBelongToClaims'
  <2>1. \A u \in Tasks : \A n \in ran[u] : n \in 1 .. claim'[u]
    BY <1>1 DEF TypeOK, RunsBelongToClaims, Claim
  <2>. QED BY <1>2, <1>3, <2>1 DEF RunsBelongToClaims, NoNewWork, Working
<1>7. FreshClaimsAreCurrent'
  <2>1. \A u \in Tasks : u # t => status'[u] = status[u] /\ age'[u] = age[u] /\ claim'[u] = claim[u]
    BY <1>1 DEF TypeOK, Claim
  <2>2. ASSUME NEW b \in Agents, Working(b)', workAge'[b] <= Lease - Skew
        PROVE  work[b].task \in Tasks /\ work[b].task # t
    BY <1>1, <1>2, <2>2, QueuedNotFresh DEF WorkIsClaimed, NoNewWork
  <2>. QED BY <1>2, <2>1, <2>2 DEF FreshClaimsAreCurrent, NoNewWork
<1>. QED BY <1>4, <1>5, <1>6, <1>7

\* Beginning the tool puts the process's own claim, and no other, among the runs.
LEMMA BeginBookkeeping ==
  ASSUME TypeOK, Bookkeeping, NEW a \in Agents, Begin(a), NEW p \in {"reporting", "hung"},
         pc' = [pc EXCEPT ![a] = p]
  PROVE  Bookkeeping'
<1>. USE DEF Bookkeeping
<1>1. \A b \in Agents : Working(b)' = Working(b)
  BY DEF TypeOK, Begin, Working
<1>2. UNCHANGED <<status, age, claim, work, workAge, inflight>>
  BY DEF Begin, table
<1>3. WorkIsClaimed'
  BY <1>1, <1>2 DEF WorkIsClaimed
<1>4. ClaimsAreDistinct'
  BY <1>1, <1>2 DEF ClaimsAreDistinct
<1>5. RunsBelongToClaims'
  <2>. DEFINE t == work[a].task
             n == work[a].claim
  <2>1. Working(a) /\ t \in Tasks /\ n \in 1 .. claim[t]
    BY DEF Begin, Working, WorkIsClaimed
  <2>2. ran'[t] = ran[t] \cup {n} /\ \A u \in Tasks : u # t => ran'[u] = ran[u]
    BY <2>1 DEF TypeOK, Begin
  <2>3. \A b \in Agents : b # a /\ Working(b) /\ work[b].task = t => work[b].claim # n
    BY <2>1 DEF TypeOK, ClaimsAreDistinct
  <2>4. \A b \in Agents : b # a => pc'[b] = pc[b]
    BY DEF TypeOK, Begin
  <2>5. pc'[a] \in {"reporting", "hung"}
    BY DEF TypeOK, Begin
  <2>6. \A m \in inflight : m.task \in Tasks
    BY DEF TypeOK, Delivery
  <2>7. \A u \in Tasks : \A k \in ran'[u] : k \in 1 .. claim'[u]
    BY <1>2, <2>1, <2>2 DEF RunsBelongToClaims
  <2>8. \A m \in inflight' : m.claim \in ran'[m.task]
    BY <1>2, <2>2, <2>6 DEF RunsBelongToClaims
  <2>9. ASSUME NEW b \in Agents, b # a
        PROVE  /\ pc'[b] = "holding" => work'[b].claim \notin ran'[work'[b].task]
               /\ pc'[b] \in {"hung", "reporting", "awaiting"}
                    => work'[b].claim \in ran'[work'[b].task]
    <3>1. CASE Working(b)
      <4>. work[b].task \in Tasks
        BY <3>1 DEF WorkIsClaimed
      <4>. QED BY <1>2, <2>2, <2>3, <2>4, <2>9, <3>1 DEF RunsBelongToClaims
    <3>2. CASE ~ Working(b)
      BY <2>4, <2>9, <3>2 DEF Working
    <3>. QED BY <3>1, <3>2
  <2>. QED BY <1>2, <2>2, <2>5, <2>7, <2>8, <2>9 DEF RunsBelongToClaims
<1>6. FreshClaimsAreCurrent'
  BY <1>1, <1>2 DEF FreshClaimsAreCurrent
<1>. QED BY <1>3, <1>4, <1>5, <1>6

\* Time passes alike for a row and for the process that holds its claim.
LEMMA TickBookkeeping ==
  ASSUME TypeOK, Bookkeeping, Tick
  PROVE  Bookkeeping'
<1>. USE DEF Bookkeeping
<1>1. \A a \in Agents : Working(a)' = Working(a)
  BY DEF Tick, Working
<1>2. WorkIsClaimed'
  BY <1>1 DEF Tick, WorkIsClaimed
<1>3. ClaimsAreDistinct'
  BY <1>1 DEF Tick, ClaimsAreDistinct
<1>4. RunsBelongToClaims'
  BY DEF Tick, RunsBelongToClaims
<1>5. FreshClaimsAreCurrent'
  <2>1. SUFFICES ASSUME NEW a \in Agents, Working(a), workAge'[a] <= Lease - Skew
                 PROVE  /\ workAge[a] <= Lease - Skew
                        /\ status[work[a].task] = "claimed" /\ age[work[a].task] = workAge[a]
                             => age'[work[a].task] = workAge'[a]
    BY <1>1 DEF FreshClaimsAreCurrent, Tick
  <2>2. work[a].task \in Tasks
    BY <2>1 DEF WorkIsClaimed
  <2>3. workAge'[a] = Older(workAge[a])
    BY <2>1 DEF Tick
  <2>4. workAge[a] <= Lease - Skew
    BY <2>1, <2>3, ExpiredIsNat, LeaseAssumption DEF TypeOK, Older
  <2>5. status[work[a].task] = "claimed" => age'[work[a].task] = Older(age[work[a].task])
    BY <2>2 DEF Tick
  <2>. QED BY <2>3, <2>4, <2>5
<1>. QED BY <1>2, <1>3, <1>4, <1>5

LEMMA NextBookkeeping ==
  ASSUME TypeOK, Bookkeeping, [Next]_vars
  PROVE  Bookkeeping'
<1>1. ASSUME NEW t \in Tasks, Dispatch(t) PROVE Bookkeeping'
  BY <1>1, DispatchBookkeeping
<1>2. ASSUME NEW t \in Tasks, DispatchTick(t) \/ DispatchGone(t) PROVE Bookkeeping'
  <2>1. UNCHANGED <<table, agents, inflight, ran>>
    BY <1>2 DEF DispatchTick, DispatchGone
  <2>. QED BY <2>1, IdleNoNewWork, NoNewWorkBookkeeping DEF table, Bookkeeping, RunsBelongToClaims
<1>3. ASSUME NEW a \in Agents, Poll(a) PROVE Bookkeeping'
  BY <1>3, PollBookkeeping
<1>4. ASSUME NEW a \in Agents, PollClaim(a) PROVE Bookkeeping'
  BY <1>4, PollClaimBookkeeping
<1>5. ASSUME NEW a \in Agents, PollClaimLost(a) PROVE Bookkeeping'
  BY <1>5, PollClaimLostBookkeeping
<1>6. ASSUME NEW a \in Agents, PollEmpty(a) \/ PollFails(a) \/ Crash(a) PROVE Bookkeeping'
  <2>1. NoNewWork /\ UNCHANGED <<table, inflight, ran>>
    BY <1>6, ReleaseNoNewWork, StopNoNewWork DEF PollEmpty, PollFails, Crash
  <2>. QED BY <2>1, NoNewWorkBookkeeping DEF table, Bookkeeping, RunsBelongToClaims
<1>7. ASSUME NEW a \in Agents, Execute(a) \/ Hang(a) PROVE Bookkeeping'
  BY <1>7, BeginBookkeeping DEF Execute, Hang
<1>8. ASSUME NEW a \in Agents, SendResult(a) PROVE Bookkeeping'
  <2>1. NoNewWork
    BY <1>8 DEF TypeOK, SendResult, NoNewWork, Working
  <2>2. \A m \in inflight' : m.claim \in ran[m.task]
    BY <1>8 DEF SendResult, Bookkeeping, RunsBelongToClaims
  <2>. QED BY <1>8, <2>1, <2>2, NoNewWorkBookkeeping DEF SendResult, table
<1>9. ASSUME NEW a \in Agents, DeliveryTimeout(a) PROVE Bookkeeping'
  <2>1. NoNewWork /\ UNCHANGED <<table, ran>> /\ inflight' \subseteq inflight
    BY <1>9, DeliveryFailedNoNewWork DEF DeliveryTimeout
  <2>. QED BY <2>1, NoNewWorkBookkeeping DEF table, Bookkeeping, RunsBelongToClaims
<1>10. ASSUME NEW m \in inflight, Complete(m) PROVE Bookkeeping'
  <2>1. NoNewWork
    BY <1>10, AnswerNoNewWork DEF Complete
  <2>2. m.task \in Tasks
    BY DEF TypeOK, Delivery
  <2>3. \A t \in Tasks : \/ status'[t] = status[t] /\ age'[t] = age[t]
                         \/ status[t] = "claimed" /\ status'[t] = "completed"
    BY <1>10, <2>2 DEF TypeOK, Complete
  <2>. QED
    BY <1>10, <2>1, <2>3, NoNewWorkBookkeeping DEF Complete, Bookkeeping, RunsBelongToClaims
<1>11. ASSUME NEW m \in inflight, CompleteMissed(m) PROVE Bookkeeping'
  <2>1. [m EXCEPT !.stage = "missed"].claim = m.claim /\ [m EXCEPT !.stage = "missed"].task = m.task
    BY DEF TypeOK, Delivery
  <2>2. \A k \in inflight' : k.claim \in ran[k.task]
    BY <1>11, <2>1 DEF CompleteMissed, Bookkeeping, RunsBelongToClaims
  <2>. QED BY <1>11, <2>2, IdleNoNewWork, NoNewWorkBookkeeping DEF CompleteMissed, table
<1>12. ASSUME NEW m \in inflight, CompleteRecheck(m) PROVE Bookkeeping'
  <2>. DEFINE ok == status[m.task] = "completed" /\ RunnerOf[m.task] = IdentityOf[m.agent]
  <2>1. ok \in BOOLEAN /\ Answer(m, ok) /\ UNCHANGED <<table, ran>> /\ inflight' \subseteq inflight
    BY <1>12 DEF CompleteRecheck
  <2>. HIDE DEF ok
  <2>2. NoNewWork
    BY <2>1, AnswerNoNewWork
  <2>. QED BY <2>1, <2>2, NoNewWorkBookkeeping DEF table, Bookkeeping, RunsBelongToClaims
<1>13. CASE Tick
  BY <1>13, TickBookkeeping
<1>14. CASE UNCHANGED vars
  BY <1>14, IdleNoNewWork, NoNewWorkBookkeeping DEF vars, table, Bookkeeping, RunsBelongToClaims
<1>. QED
  BY <1>1, <1>2, <1>3, <1>4, <1>5, <1>6, <1>7, <1>8, <1>9, <1>10, <1>11, <1>12, <1>13, <1>14
  DEF Next, AgentStep, Deliver

-----------------------------------------------------------------------------
(* Callers, results and attempts *)

\* Once completed, a row keeps its status and its result.
LEMMA CompletedStays ==
  ASSUME TypeOK, [Next]_vars, NEW t \in Tasks, status[t] = "completed"
  PROVE  status'[t] = "completed" /\ result'[t] = result[t]
<1>1. ASSUME NEW u \in Tasks, Dispatch(u) \/ DispatchTick(u) \/ DispatchGone(u)
      PROVE  status'[t] = "completed" /\ result'[t] = result[t]
  BY <1>1 DEF TypeOK, Dispatch, DispatchTick, DispatchGone, table
<1>2. ASSUME NEW a \in Agents, AgentStep(a)
      PROVE  status'[t] = "completed" /\ result'[t] = result[t]
  <2>1. CASE Poll(a)
    BY <2>1 DEF TypeOK, Poll, Lapsed
  <2>2. CASE PollClaim(a) \/ PollClaimLost(a)
    BY <2>2 DEF TypeOK, PollClaim, PollClaimLost, Claim, Oldest, Queued
  <2>3. CASE UNCHANGED table
    BY <2>3 DEF table
  <2>. QED
    BY <1>2, <2>1, <2>2, <2>3
    DEF AgentStep, PollEmpty, PollFails, Execute, Hang, Begin, SendResult, DeliveryTimeout, Crash
<1>3. ASSUME NEW m \in inflight, Complete(m) \/ CompleteMissed(m) \/ CompleteRecheck(m)
      PROVE  status'[t] = "completed" /\ result'[t] = result[t]
  BY <1>3 DEF TypeOK, Complete, CompleteMissed, CompleteRecheck, table
<1>4. CASE Tick \/ UNCHANGED vars
  BY <1>4 DEF Tick, vars, table
<1>. QED BY <1>1, <1>2, <1>3, <1>4 DEF Next, Deliver

\* A run once made stays made, and only a run made is ever stored as a result.
LEMMA StoredResultRan ==
  ASSUME TypeOK, Bookkeeping, ResultsFollowRuns, [Next]_vars,
         NEW t \in Tasks, status'[t] = "completed"
  PROVE  result'[t] \in ran'[t]
<1>1. ran[t] \subseteq ran'[t]
  <2>1. ASSUME NEW a \in Agents, Begin(a) PROVE ran[t] \subseteq ran'[t]
    BY <2>1 DEF TypeOK, Begin
  <2>2. ASSUME UNCHANGED ran PROVE ran[t] \subseteq ran'[t]
    BY <2>2
  <2>. QED
    BY <2>1, <2>2
    DEF Next, AgentStep, Deliver, vars, Dispatch, DispatchTick, DispatchGone, Poll, PollClaim,
        PollClaimLost, PollEmpty, PollFails, Execute, Hang, SendResult, DeliveryTimeout, Crash, Complete,
        CompleteMissed, CompleteRecheck, Tick
<1>2. CASE status[t] = "completed"
  BY <1>1, <1>2, CompletedStays DEF ResultsFollowRuns
<1>3. CASE status[t] # "completed"
  <2>1. ASSUME NEW u \in Tasks, Dispatch(u) \/ DispatchTick(u) \/ DispatchGone(u)
        PROVE  status'[t] # "completed"
    BY <1>3, <2>1 DEF TypeOK, Dispatch, DispatchTick, DispatchGone, table
  <2>2. ASSUME NEW a \in Agents, AgentStep(a) PROVE status'[t] # "completed"
    BY <1>3, <2>2
    DEF TypeOK, AgentStep, Poll, PollClaim, PollClaimLost, Claim, PollEmpty, PollFails, Execute, Hang, Begin,
        SendResult, DeliveryTimeout, Crash, table
  <2>3. ASSUME NEW m \in inflight, Complete(m) PROVE result'[t] \in ran'[t]
    BY <1>3, <2>3 DEF TypeOK, Complete, Bookkeeping, RunsBelongToClaims
  <2>4. ASSUME UNCHANGED status PROVE FALSE
    BY <1>3, <2>4
  <2>. QED
    BY <2>1, <2>2, <2>3, <2>4
    DEF Next, Deliver, CompleteMissed, CompleteRecheck, Tick, vars, table
<1>. QED BY <1>2, <1>3

LEMMA NextGenuine ==
  ASSUME TypeOK, Bookkeeping, ResultsFollowRuns, UnansweredIsZero, [Next]_vars
  PROVE  ResultsFollowRuns' /\ UnansweredIsZero'
<1>1. ASSUME NEW t \in Tasks
      PROVE  /\ caller'[t] = "returned" => status'[t] = "completed" /\ answer'[t] = result'[t]
             /\ caller'[t] # "returned" => answer'[t] = 0
  <2>1. CASE UNCHANGED callers
    BY <2>1, CompletedStays DEF callers, ResultsFollowRuns, UnansweredIsZero
  <2>2. ASSUME NEW u \in Tasks, Dispatch(u) \/ DispatchTick(u) \/ DispatchGone(u)
        PROVE  /\ caller'[t] = "returned" => status'[t] = "completed" /\ answer'[t] = result'[t]
               /\ caller'[t] # "returned" => answer'[t] = 0
    BY <2>2, CompletedStays
    DEF TypeOK, Dispatch, DispatchTick, DispatchGone, table, ResultsFollowRuns, UnansweredIsZero
  <2>. QED
    BY <2>1, <2>2
    DEF Next, AgentStep, Deliver, vars, Poll, PollClaim, PollClaimLost, PollEmpty, PollFails,
        Execute, Hang, Begin, SendResult, DeliveryTimeout, Crash, Complete, CompleteMissed, CompleteRecheck, Tick
<1>. QED BY <1>1, StoredResultRan DEF ResultsFollowRuns, UnansweredIsZero

LEMMA ReleaseAttempts ==
  ASSUME TypeOK, AttemptsLeft, NEW a \in Agents, Release(a)
  PROVE  AttemptsLeft'
BY BoundsAssumption DEF TypeOK, AttemptsLeft, Release, LetGo

LEMMA DeliveryFailedAttempts ==
  ASSUME TypeOK, AttemptsLeft, NEW a \in Agents, DeliveryFailed(a)
  PROVE  AttemptsLeft'
<1>1. CASE attempt[a] < MaxAttempts
  BY <1>1 DEF TypeOK, AttemptsLeft, DeliveryFailed
<1>2. CASE ~ (attempt[a] < MaxAttempts)
  BY <1>2, ReleaseAttempts DEF DeliveryFailed
<1>. QED BY <1>1, <1>2

LEMMA NextAttempts ==
  ASSUME TypeOK, AttemptsLeft, [Next]_vars
  PROVE  AttemptsLeft'
<1>1. ASSUME NEW a \in Agents, Release(a) \/ DeliveryFailed(a) \/ Crash(a) PROVE AttemptsLeft'
  <2>1. CASE Crash(a)
    BY <2>1, BoundsAssumption DEF Crash, LetGo, TypeOK, AttemptsLeft
  <2>. QED BY <1>1, <2>1, ReleaseAttempts, DeliveryFailedAttempts
<1>2. ASSUME UNCHANGED agents PROVE AttemptsLeft'
  BY <1>2 DEF agents, AttemptsLeft
<1>3. ASSUME NEW a \in Agents, Poll(a) \/ PollClaim(a) \/ Execute(a) \/ Hang(a)
                           \/ SendResult(a)
      PROVE  AttemptsLeft'
  BY <1>3 DEF TypeOK, AttemptsLeft, Poll, PollClaim, Execute, Hang, Begin, SendResult
<1>4. ASSUME Tick PROVE AttemptsLeft'
  BY <1>4 DEF AttemptsLeft, Tick
<1>5. ASSUME NEW m \in inflight, NEW ok \in BOOLEAN, Answer(m, ok) PROVE AttemptsLeft'
  <2>1. m.agent \in Agents
    BY DEF TypeOK, Delivery
  <2>. QED BY <1>1, <1>2, <1>5, <2>1 DEF Answer
<1>6. ASSUME NEW m \in inflight, CompleteRecheck(m) PROVE AttemptsLeft'
  <2>. DEFINE ok == status[m.task] = "completed" /\ RunnerOf[m.task] = IdentityOf[m.agent]
  <2>1. ok \in BOOLEAN /\ Answer(m, ok)
    BY <1>6 DEF CompleteRecheck
  <2>. HIDE DEF ok
  <2>. QED BY <1>5, <2>1
<1>. QED
  BY <1>1, <1>2, <1>3, <1>4, <1>5, <1>6
  DEF Next, AgentStep, Deliver, vars, Dispatch, DispatchTick, DispatchGone, PollClaimLost,
      PollEmpty, PollFails, DeliveryTimeout, Complete, CompleteMissed

-----------------------------------------------------------------------------
(* Deliveries that found no claimed row, and what claims cost *)

\* What any step may do to a row: it is never removed, and it is claimed anew only
\* under a new claim.
LEMMA RowStep ==
  ASSUME TypeOK, [Next]_vars, NEW t \in Tasks
  PROVE  /\ claim'[t] \in {claim[t], claim[t] + 1}
         /\ status[t] # "absent" => status'[t] # "absent"
         /\ status[t] \in {"queued", "completed"} /\ claim'[t] = claim[t]
              => status'[t] \in {"queued", "completed"}
<1>. DEFINE Kept == /\ claim'[t] \in {claim[t], claim[t] + 1}
                    /\ status[t] # "absent" => status'[t] # "absent"
                    /\ status[t] \in {"queued", "completed"} /\ claim'[t] = claim[t]
                         => status'[t] \in {"queued", "completed"}
<1>1. ASSUME UNCHANGED table PROVE Kept
  BY <1>1 DEF table
<1>2. ASSUME NEW u \in Tasks, Dispatch(u) PROVE Kept
  BY <1>2 DEF TypeOK, Dispatch
<1>3. ASSUME NEW a \in Agents, Poll(a) PROVE Kept
  BY <1>3 DEF TypeOK, Poll, Lapsed
<1>4. ASSUME NEW u \in Tasks, Claim(u) PROVE Kept
  BY <1>4 DEF TypeOK, Claim
<1>5. ASSUME NEW a \in Agents, PollClaim(a) \/ PollClaimLost(a) PROVE Kept
  BY <1>4, <1>5 DEF PollClaim, PollClaimLost, Oldest, Queued
<1>6. ASSUME NEW m \in inflight, Complete(m) PROVE Kept
  BY <1>6 DEF TypeOK, Complete
<1>7. CASE Tick
  BY <1>7 DEF Tick
<1>. QED
  BY <1>1, <1>2, <1>3, <1>5, <1>6, <1>7
  DEF Next, AgentStep, Deliver, vars, DispatchTick, DispatchGone, PollEmpty, PollFails, Execute, Hang, Begin,
      SendResult, DeliveryTimeout, Crash, CompleteMissed, CompleteRecheck

LEMMA NextMissed ==
  ASSUME TypeOK, Bookkeeping, MissedIsLate, [Next]_vars
  PROVE  MissedIsLate'
<1>. DEFINE Late(m) ==
              /\ RunnerOf[m.task] = IdentityOf[m.agent] /\ status'[m.task] # "absent"
              /\ m.stage = "missed" /\ m.claim = claim'[m.task]
                   => status'[m.task] \in {"queued", "completed"}
<1>1. ASSUME NEW m \in inflight PROVE Late(m)
  <2>1. m.task \in Tasks /\ m.claim \in Nat
    BY DEF TypeOK, Delivery
  <2>2. m.claim \in 1 .. claim[m.task] /\ claim[m.task] \in Nat
    BY <2>1 DEF Bookkeeping, RunsBelongToClaims, TypeOK
  <2>. QED BY <2>1, <2>2, RowStep DEF MissedIsLate
<1>2. ASSUME NEW a \in Agents, SendResult(a) PROVE \A m \in inflight' : Late(m)
  <2>1. work[a].task \in Tasks /\ RunnerOf[work[a].task] = IdentityOf[a]
        /\ status[work[a].task] # "absent"
    BY <1>2 DEF SendResult, Bookkeeping, WorkIsClaimed, Working
  <2>2. UNCHANGED table
    BY <1>2 DEF SendResult
  <2>. QED BY <1>1, <1>2, <2>1, <2>2 DEF SendResult, table
<1>3. ASSUME NEW m \in inflight, CompleteMissed(m) PROVE \A n \in inflight' : Late(n)
  <2>. DEFINE n == [m EXCEPT !.stage = "missed"]
  <2>1. /\ n.task = m.task /\ n.agent = m.agent /\ n.claim = m.claim
        /\ m.task \in Tasks
    BY DEF TypeOK, Delivery
  <2>2. status[m.task] \in {"queued", "completed"}
    BY <1>3, <2>1 DEF CompleteMissed, MissedIsLate, TypeOK
  <2>3. inflight' \subseteq inflight \cup {n} /\ UNCHANGED table
    BY <1>3 DEF CompleteMissed
  <2>4. Late(n)
    BY <1>1, <2>1, <2>2, <2>3 DEF table
  <2>. HIDE DEF n
  <2>. QED BY <1>1, <2>3, <2>4
<1>4. ASSUME inflight' \subseteq inflight PROVE \A m \in inflight' : Late(m)
  BY <1>1, <1>4
<1>5. \A m \in inflight' : Late(m)
  BY <1>2, <1>3, <1>4
  DEF Next, AgentStep, Deliver, vars, Dispatch, DispatchTick, DispatchGone, Poll, PollClaim,
      PollClaimLost, PollEmpty, PollFails, Execute, Hang, Begin, DeliveryTimeout, Crash, Complete,
      CompleteRecheck, Tick
<1>. QED BY <1>5 DEF MissedIsLate

\* A step that keeps the claims keeps them paid for if whoever lets go of a row's last
\* claim too early is struck by a fault or leaves the row completed.
LEMMA PaidStays ==
  ASSUME TypeOK, ClaimsArePaid, UNCHANGED claim, faults' \in {faults, faults + 1},
         \A t \in Tasks : status'[t] = status[t] \/ status'[t] = "completed",
         \A t \in Tasks, a \in Agents :
           Holds(a, t) => \/ Holds(a, t)' \/ faults' = faults + 1
                          \/ status'[t] = "completed" \/ status[t] # "claimed"
  PROVE  ClaimsArePaid'
<1>. SUFFICES ASSUME NEW t \in Tasks
              PROVE  /\ claim[t] <= 1 + faults'
                     /\ status'[t] = "absent" => claim[t] = 0
                     /\ \/ claim[t] <= faults'
                        \/ status'[t] = "completed"
                        \/ status'[t] = "claimed" /\ \E a \in Agents : Holds(a, t)'
  BY DEF ClaimsArePaid
<1>1. claim[t] \in Nat /\ faults \in Nat
  BY BoundsAssumption DEF TypeOK
<1>2. claim[t] <= 1 + faults'
  BY <1>1 DEF ClaimsArePaid
<1>3. status'[t] = "absent" => claim[t] = 0
  BY DEF ClaimsArePaid
<1>4. CASE claim[t] <= faults
  BY <1>1, <1>2, <1>3, <1>4
<1>5. CASE status[t] = "completed"
  BY <1>2, <1>3, <1>5
<1>6. CASE status[t] = "claimed" /\ \E a \in Agents : Holds(a, t)
  <2>1. PICK a \in Agents : Holds(a, t)
    BY <1>6
  <2>2. CASE Holds(a, t)'
    BY <1>2, <1>3, <1>6, <2>2
  <2>3. CASE faults' = faults + 1
    BY <1>1, <1>2, <1>3, <2>3 DEF ClaimsArePaid
  <2>. QED BY <1>2, <1>3, <1>6, <2>1, <2>2, <2>3
<1>. QED BY <1>4, <1>5, <1>6 DEF ClaimsArePaid

\* Releasing a process concerns no other.
LEMMA ReleaseHolds ==
  ASSUME TypeOK, NEW b \in Agents, Release(b), NEW a \in Agents, a # b, NEW t \in Tasks,
         Holds(a, t), UNCHANGED claim
  PROVE  Holds(a, t)'
BY DEF TypeOK, Release, LetGo, Holds, Working

LEMMA DeliveryFailedHolds ==
  ASSUME TypeOK, NEW b \in Agents, pc[b] = "awaiting", DeliveryFailed(b), NEW a \in Agents,
         NEW t \in Tasks, Holds(a, t), UNCHANGED claim, a # b \/ attempt[b] < MaxAttempts
  PROVE  Holds(a, t)'
<1>1. CASE attempt[b] < MaxAttempts
  BY <1>1 DEF TypeOK, DeliveryFailed, Holds, Working
<1>2. CASE ~ (attempt[b] < MaxAttempts)
  BY <1>2, ReleaseHolds DEF DeliveryFailed
<1>. QED BY <1>1, <1>2

\* An answer only makes a process let go of a claim that is not the present one of a
\* claimed row, unless it is lost, which is a fault.
LEMMA AnswerHolds ==
  ASSUME TypeOK, NEW m \in inflight, NEW ok \in BOOLEAN, Answer(m, ok), UNCHANGED claim,
         NEW a \in Agents, NEW t \in Tasks, Holds(a, t)
  PROVE  \/ Holds(a, t)' \/ faults' = faults + 1
         \/ m.task = t /\ m.claim = claim[t]
<1>1. m.agent \in Agents /\ m.task \in Tasks
  BY DEF TypeOK, Delivery
<1>2. CASE Awaited(m) /\ Release(m.agent)
  BY <1>1, <1>2, ReleaseHolds DEF Awaited, Holds
<1>3. CASE Awaited(m) /\ DeliveryFailed(m.agent)
  BY <1>1, <1>3, DeliveryFailedHolds DEF Awaited, Holds
<1>4. CASE UNCHANGED agents
  BY <1>4 DEF agents, Holds, Working
<1>. QED BY <1>2, <1>3, <1>4 DEF Answer

LEMMA AnswerFaults ==
  ASSUME TypeOK, NEW m, NEW ok, Answer(m, ok) PROVE faults' \in {faults, faults + 1}
BY DEF Answer, Fault

LEMMA NextPaid ==
  ASSUME IInv, [Next]_vars
  PROVE  ClaimsArePaid'
<1>. USE DEF IInv
<1>1. ASSUME NEW t \in Tasks, Dispatch(t) PROVE ClaimsArePaid'
  <2>1. claim[t] <= faults
    BY <1>1, BoundsAssumption DEF Dispatch, ClaimsArePaid, TypeOK
  <2>2. \A a \in Agents, u \in Tasks : Holds(a, u) => Holds(a, u)'
    BY <1>1 DEF Dispatch, Holds, Working, agents
  <2>. QED BY <1>1, <2>1, <2>2 DEF TypeOK, Dispatch, ClaimsArePaid
<1>2. ASSUME NEW t \in Tasks, DispatchTick(t) \/ DispatchGone(t) PROVE ClaimsArePaid'
  <2>1. UNCHANGED <<table, agents, faults>>
    BY <1>2 DEF DispatchTick, DispatchGone
  <2>. QED BY <2>1, PaidStays DEF table, agents, Holds, Working
<1>3. ASSUME NEW a \in Agents, Poll(a) PROVE ClaimsArePaid'
  <2>1. PICK limit \in (Lease - Skew) .. (Lease + Skew) :
          status' = [t \in Tasks |-> IF t \in Lapsed(IdentityOf[a], limit) THEN "queued" ELSE status[t]]
    BY <1>3 DEF Poll
  <2>2. UNCHANGED <<claim, faults>>
    BY <1>3 DEF Poll
  <2>3. \A b \in Agents, t \in Tasks : Holds(b, t) => Holds(b, t)'
    BY <1>3 DEF TypeOK, Poll, Holds, Working
  <2>4. ASSUME NEW t \in Tasks, t \in Lapsed(IdentityOf[a], limit)
        PROVE  claim[t] <= faults
    <3>1. status[t] = "claimed" /\ ~ (age[t] <= Lease - Skew)
      BY <2>4, LeaseAssumption DEF Lapsed, TypeOK
    <3>2. \A b \in Agents : ~ Holds(b, t)
      BY <3>1 DEF Holds, FreshClaimsAreCurrent
    <3>. QED BY <3>1, <3>2 DEF ClaimsArePaid
  <2>. QED BY <2>1, <2>2, <2>3, <2>4 DEF ClaimsArePaid, Lapsed
<1>4. ASSUME NEW a \in Agents, PollClaim(a) PROVE ClaimsArePaid'
  <2>1. PICK t \in Tasks :
          /\ status[t] = "queued" /\ Claim(t)
          /\ work' = [work EXCEPT ![a] = [task |-> t, claim |-> claim[t] + 1]]
    BY <1>4 DEF PollClaim, Oldest, Queued
  <2>2. claim[t] <= faults /\ claim[t] \in Nat /\ faults \in Nat /\ UNCHANGED faults
    BY <1>4, <2>1, BoundsAssumption DEF PollClaim, ClaimsArePaid, TypeOK
  <2>3. claim'[t] = claim[t] + 1 /\ status'[t] = "claimed"
    BY <2>1 DEF TypeOK, Claim
  <2>4. Holds(a, t)'
    BY <1>4, <2>1, <2>3, LeaseAssumption DEF TypeOK, PollClaim, Holds, Working
  <2>5. ASSUME NEW u \in Tasks, u # t
        PROVE  /\ claim'[u] = claim[u] /\ status'[u] = status[u]
               /\ \A b \in Agents : Holds(b, u) => Holds(b, u)'
    BY <1>4, <2>1, <2>5 DEF TypeOK, PollClaim, Claim, Holds, Working
  <2>. QED BY <2>2, <2>3, <2>4, <2>5 DEF ClaimsArePaid
<1>5. ASSUME NEW a \in Agents, PollClaimLost(a) PROVE ClaimsArePaid'
  <2>1. PICK t \in Tasks : status[t] = "queued" /\ Claim(t)
    BY <1>5 DEF PollClaimLost, Oldest, Queued
  <2>2. claim[t] <= faults /\ claim[t] \in Nat /\ faults \in Nat /\ faults' = faults + 1
    BY <1>5, <2>1, BoundsAssumption DEF PollClaimLost, Fault, ClaimsArePaid, TypeOK
  <2>3. /\ claim'[t] = claim[t] + 1 /\ status'[t] = "claimed"
        /\ \A u \in Tasks : u # t => claim'[u] = claim[u] /\ status'[u] = status[u]
    BY <2>1 DEF TypeOK, Claim
  <2>4. \A u \in Tasks : claim[u] \in Nat /\ claim[u] <= 1 + faults
    BY DEF TypeOK, ClaimsArePaid
  <2>. QED BY <2>2, <2>3, <2>4 DEF ClaimsArePaid
<1>6. ASSUME NEW a \in Agents, PollEmpty(a) \/ PollFails(a) PROVE ClaimsArePaid'
  <2>1. UNCHANGED table /\ faults' \in {faults, faults + 1} /\ Release(a) /\ ~ Working(a)
    BY <1>6 DEF PollEmpty, PollFails, Fault, Working
  <2>2. \A b \in Agents, t \in Tasks : Holds(b, t) => Holds(b, t)'
    BY <2>1, ReleaseHolds DEF Holds, table
  <2>. QED BY <2>1, <2>2, PaidStays DEF table
<1>7. ASSUME NEW a \in Agents, Execute(a) \/ SendResult(a) PROVE ClaimsArePaid'
  <2>1. UNCHANGED <<table, faults, work, workAge>>
    BY <1>7 DEF Execute, Begin, SendResult
  <2>2. \A b \in Agents : Working(b) /\ pc[b] # "hung" => (Working(b) /\ pc[b] # "hung")'
    BY <1>7 DEF TypeOK, Execute, Begin, SendResult, Working
  <2>3. \A b \in Agents, t \in Tasks : Holds(b, t) => Holds(b, t)'
    BY <2>1, <2>2 DEF Holds, table
  <2>. QED BY <2>1, <2>3, PaidStays DEF table
<1>8. ASSUME NEW a \in Agents, DeliveryTimeout(a) \/ Crash(a) \/ Hang(a) PROVE ClaimsArePaid'
  <2>1. UNCHANGED table /\ faults' = faults + 1
    BY <1>8 DEF DeliveryTimeout, Crash, Hang, Begin, Fault
  <2>. QED BY <2>1, PaidStays DEF table
<1>9. ASSUME NEW m \in inflight, Complete(m) PROVE ClaimsArePaid'
  <2>1. m.task \in Tasks
    BY DEF TypeOK, Delivery
  <2>2. Answer(m, TRUE) /\ UNCHANGED claim /\ status' = [status EXCEPT ![m.task] = "completed"]
    BY <1>9 DEF Complete
  <2>3. \A t \in Tasks : status'[t] = status[t] \/ status'[t] = "completed"
    BY <2>1, <2>2 DEF TypeOK
  <2>4. ASSUME NEW a \in Agents, NEW t \in Tasks, Holds(a, t)
        PROVE  Holds(a, t)' \/ faults' = faults + 1 \/ status'[t] = "completed"
    BY <2>1, <2>2, <2>4, AnswerHolds DEF TypeOK
  <2>. QED BY <2>2, <2>3, <2>4, AnswerFaults, PaidStays
<1>10. ASSUME NEW m \in inflight, CompleteRecheck(m) PROVE ClaimsArePaid'
  <2>. DEFINE ok == status[m.task] = "completed" /\ RunnerOf[m.task] = IdentityOf[m.agent]
  <2>1. ok \in BOOLEAN /\ Answer(m, ok) /\ UNCHANGED table /\ m.stage = "missed"
    BY <1>10 DEF CompleteRecheck
  <2>. HIDE DEF ok
  <2>2. ASSUME NEW a \in Agents, NEW t \in Tasks, Holds(a, t)
        PROVE  Holds(a, t)' \/ faults' = faults + 1 \/ status[t] # "claimed"
    <3>1. CASE m.task = t /\ m.claim = claim[t]
      BY <2>1, <3>1 DEF MissedIsLate
    <3>. QED BY <2>1, <2>2, <3>1, AnswerHolds DEF table
  <2>3. faults' \in {faults, faults + 1}
    BY <2>1, AnswerFaults
  <2>. QED BY <2>1, <2>2, <2>3, PaidStays DEF table
<1>11. CASE Tick
  <2>1. UNCHANGED <<claim, status, pc, work>> /\ faults' \in {faults, faults + 1}
    BY <1>11 DEF Tick, Fault
  <2>2. ASSUME NEW a \in Agents, NEW t \in Tasks, Holds(a, t), status[t] = "claimed"
        PROVE  Holds(a, t)' \/ faults' = faults + 1
    <3>1. CASE workAge[a] = Lease - Skew
      <4>1. AtLimit(a)
        BY <2>2, <3>1 DEF AtLimit, Holds
      <4>. QED BY <1>11, <4>1 DEF Tick, Fault
    <3>2. CASE workAge[a] # Lease - Skew
      <4>1. workAge[a] \in Nat /\ workAge[a] < Lease - Skew
        <5>1. workAge[a] \in 0 .. Expired
          BY DEF TypeOK
        <5>2. workAge[a] <= Lease - Skew
          BY <2>2 DEF Holds
        <5>. QED BY <3>2, <5>1, <5>2, ExpiredIsNat
      <4>2. workAge'[a] \in {workAge[a], workAge[a] + 1}
        BY <1>11 DEF Tick, Older
      <4>3. workAge'[a] <= Lease - Skew
        BY <4>1, <4>2, ExpiredIsNat
      <4>. QED BY <2>1, <2>2, <4>3 DEF Holds, Working
    <3>. QED BY <3>1, <3>2
  <2>. QED BY <2>1, <2>2, PaidStays
<1>12. ASSUME UNCHANGED <<table, agents, faults>> PROVE ClaimsArePaid'
  BY <1>12, PaidStays DEF table, agents, Holds, Working
<1>. QED
  BY <1>1, <1>2, <1>3, <1>4, <1>5, <1>6, <1>7, <1>8, <1>9, <1>10, <1>11, <1>12
  DEF Next, AgentStep, Deliver, CompleteMissed, vars

-----------------------------------------------------------------------------
(* The theorems *)

LEMMA InitInvariant == Init => IInv
<1>. SUFFICES ASSUME Init PROVE IInv
  OBVIOUS
<1>1. TypeOK
  BY InitType
<1>2. WorkIsClaimed /\ ClaimsAreDistinct /\ FreshClaimsAreCurrent
  BY DEF Init, WorkIsClaimed, ClaimsAreDistinct, FreshClaimsAreCurrent, Working
<1>3. RunsBelongToClaims
  BY DEF Init, RunsBelongToClaims
<1>4. AttemptsLeft /\ UnansweredIsZero /\ ResultsFollowRuns
  BY BoundsAssumption DEF Init, AttemptsLeft, UnansweredIsZero, ResultsFollowRuns
<1>5. MissedIsLate /\ ClaimsArePaid
  BY BoundsAssumption DEF Init, MissedIsLate, ClaimsArePaid
<1>. QED BY <1>1, <1>2, <1>3, <1>4, <1>5 DEF IInv

LEMMA NextInvariant == IInv /\ [Next]_vars => IInv'
BY NextType, NextBookkeeping, NextGenuine, NextAttempts, NextMissed, NextPaid DEF IInv, Bookkeeping

\* The inductive invariant holds throughout, and with it the type of every
\* variable and the agreement of rows, claims, processes, runs and reports.
THEOREM Invariance == Spec => []IInv
BY InitInvariant, NextInvariant, PTL DEF Spec

\* Every variable keeps its type.
THEOREM TypeCorrect == Spec => []TypeOK
<1>1. IInv => TypeOK
  BY DEF IInv
<1>. QED BY <1>1, Invariance, PTL

\* For any lease and skew: no two processes are at work on one task while both
\* are within the safe time of their claims.
THEOREM Exclusive == Spec => []LeaseExclusive
<1>1. IInv => LeaseExclusive
  BY LeaseAssumption
  DEF IInv, TypeOK, LeaseExclusive, FreshClaimsAreCurrent, ClaimsAreDistinct, WorkIsClaimed
<1>. QED BY <1>1, Invariance, PTL

\* For any number of processes, tasks and attempts, whatever their clocks and leases: a
\* task is run once, and once more for a fault at most.
THEOREM RepeatsArePaid == Spec => []RepeatsNeedFaults
<1>1. ASSUME IInv, NEW t \in Tasks PROVE Cardinality(ran[t]) <= 1 + faults
  <2>1. ran[t] \subseteq 1 .. claim[t] /\ claim[t] \in Nat /\ faults \in Nat
    BY <1>1, BoundsAssumption DEF IInv, TypeOK, RunsBelongToClaims
  <2>2. IsFiniteSet(1 .. claim[t]) /\ Cardinality(1 .. claim[t]) <= claim[t]
    <3>1. ASSUME NEW n \in Nat
          PROVE  IsFiniteSet(1 .. n) /\ Cardinality(1 .. n) <= n
      BY FS_Interval
    <3>. QED BY <2>1, <3>1
  <2>3. Cardinality(ran[t]) <= Cardinality(1 .. claim[t]) /\ IsFiniteSet(ran[t])
    BY <2>1, <2>2, FS_Subset
  <2>4. Cardinality(ran[t]) \in Nat /\ Cardinality(1 .. claim[t]) \in Nat
    BY <2>2, <2>3, FS_CardinalityType
  <2>5. claim[t] <= 1 + faults
    BY <1>1 DEF IInv, ClaimsArePaid
  <2>. QED BY <2>1, <2>2, <2>3, <2>4, <2>5
<1>2. IInv => RepeatsNeedFaults
  BY <1>1 DEF RepeatsNeedFaults
<1>. QED BY <1>2, Invariance, PTL

\* A process only works for the environment it was enrolled for.
THEOREM OwnHost == Spec => []OwnHostOnly
<1>1. IInv => OwnHostOnly
  BY DEF IInv, OwnHostOnly, WorkIsClaimed
<1>. QED BY <1>1, Invariance, PTL

\* A completed row is never changed again.
THEOREM Settled == Spec => SettledForGood
<1>1. TypeOK /\ [Next]_vars =>
        [\A t \in Tasks : status[t] = "completed" =>
            status'[t] = "completed" /\ result'[t] = result[t]]_vars
  BY CompletedStays
<1>. QED BY <1>1, TypeCorrect, PTL DEF Spec, SettledForGood

LEMMA AnswerRemembers ==
  ASSUME TypeOK, NEW m \in inflight, NEW ok \in BOOLEAN, Answer(m, ok), NEW a \in Agents,
         pc[a] = "awaiting", pc'[a] = "idle", attempt[a] < MaxAttempts
  PROVE  ok /\ m.task = work[a].task
<1>1. m.agent \in Agents
  BY DEF TypeOK, Delivery
<1>2. m.agent = a /\ Awaited(m)
  BY <1>1 DEF Answer, Release, DeliveryFailed, agents, TypeOK
<1>3. ~ DeliveryFailed(a)
  BY DEF DeliveryFailed, TypeOK
<1>. QED BY <1>2, <1>3 DEF Answer, Awaited, agents

LEMMA NextRemembers ==
  ASSUME TypeOK, [Next]_vars, NEW a \in Agents, pc[a] = "awaiting", pc'[a] = "idle",
         attempt[a] < MaxAttempts, faults' = faults
  PROVE  status'[work[a].task] = "completed"
<1>1. ASSUME NEW m \in inflight, Complete(m) PROVE status'[work[a].task] = "completed"
  <2>1. m.task = work[a].task /\ m.task \in Tasks
    BY <1>1, AnswerRemembers DEF Complete, TypeOK, Delivery
  <2>. QED BY <1>1, <2>1 DEF Complete, TypeOK
<1>2. ASSUME NEW m \in inflight, CompleteRecheck(m) PROVE status'[work[a].task] = "completed"
  <2>. DEFINE ok == status[m.task] = "completed" /\ RunnerOf[m.task] = IdentityOf[m.agent]
  <2>1. ok \in BOOLEAN /\ Answer(m, ok) /\ UNCHANGED table
    BY <1>2 DEF CompleteRecheck
  <2>2. ok /\ m.task = work[a].task
    <3>. HIDE DEF ok
    <3>. QED BY <2>1, AnswerRemembers
  <2>. QED BY <2>1, <2>2 DEF table
<1>3. ASSUME Fault PROVE FALSE
  BY <1>3, BoundsAssumption DEF Fault, TypeOK
<1>4. ASSUME NEW b \in Agents, AgentStep(b) PROVE FALSE
  <2>1. CASE PollEmpty(b)
    BY <2>1 DEF TypeOK, PollEmpty, Release
  <2>2. CASE Poll(b) \/ PollClaim(b) \/ Execute(b) \/ SendResult(b)
    BY <2>2 DEF TypeOK, Poll, PollClaim, Execute, Begin, SendResult
  <2>. QED
    BY <1>3, <1>4, <2>1, <2>2
    DEF AgentStep, PollClaimLost, PollFails, DeliveryTimeout, Crash, Hang
<1>5. ASSUME UNCHANGED pc PROVE FALSE
  BY <1>5
<1>. QED
  BY <1>1, <1>2, <1>4, <1>5
  DEF Next, Deliver, vars, agents, Dispatch, DispatchTick, DispatchGone, CompleteMissed, Tick

\* A process only stops delivering a result early, if no fault made it, when the task has
\* a stored result.
THEOREM NothingForgotten == Spec => ResultsNotForgotten
<1>1. TypeOK /\ [Next]_vars =>
        [\A a \in Agents : /\ pc[a] = "awaiting" /\ pc'[a] = "idle"
                           /\ attempt[a] < MaxAttempts
                           /\ faults' = faults
                           => status'[work[a].task] = "completed"]_vars
  BY NextRemembers
<1>. QED BY <1>1, TypeCorrect, PTL DEF Spec, ResultsNotForgotten

-----------------------------------------------------------------------------
(* The queue implements the task board *)

LEMMA InitRefines == Init => Board!Init
BY DEF Init, Board!Init, BoardState, BoardTold

\* A step that keeps every row's place on the board, the runs and the callers
\* is invisible there.
LEMMA Invisible ==
  ASSUME \A t \in Tasks : /\ (status'[t] = "absent") <=> (status[t] = "absent")
                          /\ (status'[t] = "completed") <=> (status[t] = "completed"),
         UNCHANGED <<ran, result, callers>>
  PROVE  UNCHANGED Board!vars
BY DEF Board!vars, BoardState, BoardTold, callers

\* Every step of the queue is a step of the board, or invisible there.
LEMMA NextRefines ==
  ASSUME IInv, [Next]_vars
  PROVE  [Board!Next]_(Board!vars)
<1>. USE DEF IInv
<1>1. ASSUME NEW t \in Tasks, Dispatch(t) PROVE Board!Post(t)
  <2>1. BoardState' = [BoardState EXCEPT ![t] = "open"]
    BY <1>1 DEF TypeOK, Dispatch, BoardState
  <2>2. BoardTold' = [BoardTold EXCEPT ![t] = [caller |-> "waiting", answer |-> 0]]
    BY <1>1 DEF TypeOK, Dispatch, BoardTold, UnansweredIsZero, ResultsFollowRuns
  <2>. QED BY <1>1, <2>1, <2>2 DEF Board!Post, Dispatch, BoardState
<1>2. ASSUME NEW t \in Tasks, DispatchTick(t) PROVE Board!Tell(t)
  <2>1. BoardState' = BoardState
    BY <1>2 DEF DispatchTick, BoardState, table
  <2>2. BoardTold' = [BoardTold EXCEPT ![t] = [caller |-> "returned", answer |-> result[t]]]
    BY <1>2 DEF TypeOK, DispatchTick, BoardTold
  <2>. QED BY <1>2, <2>1, <2>2 DEF Board!Tell, DispatchTick, BoardState, BoardTold, table
<1>3. ASSUME NEW t \in Tasks, DispatchGone(t) PROVE Board!Leave(t)
  <2>1. BoardState' = BoardState
    BY <1>3 DEF DispatchGone, BoardState, table
  <2>2. BoardTold' = [BoardTold EXCEPT ![t] = [caller |-> "gone", answer |-> 0]]
    BY <1>3 DEF TypeOK, DispatchGone, BoardTold, UnansweredIsZero
  <2>. QED BY <1>3, <2>1, <2>2 DEF Board!Leave, DispatchGone, BoardTold, table
<1>4. ASSUME NEW a \in Agents, Begin(a) PROVE Board!Try(work[a].task)
  <2>. DEFINE t == work[a].task
             n == work[a].claim
  <2>1. t \in Tasks /\ status[t] # "absent" /\ n \notin ran[t]
    BY <1>4 DEF Begin, Working, WorkIsClaimed, RunsBelongToClaims
  <2>2. ran' = [ran EXCEPT ![t] = @ \cup {n}] /\ n \in ran'[t] \ ran[t]
    BY <1>4, <2>1 DEF TypeOK, Begin
  <2>3. UNCHANGED <<BoardState, result, BoardTold>>
    BY <1>4 DEF Begin, BoardState, BoardTold, table, callers
  <2>. QED BY <2>1, <2>2, <2>3 DEF Board!Try, BoardState
<1>5. ASSUME NEW m \in inflight, Complete(m) PROVE Board!Settle(m.task, m.claim)
  <2>1. m.task \in Tasks
    BY DEF TypeOK, Delivery
  <2>2. BoardState[m.task] = "open"
    BY <1>5, <2>1 DEF Complete, BoardState
  <2>3. BoardState' = [BoardState EXCEPT ![m.task] = "settled"]
    BY <1>5, <2>1 DEF TypeOK, Complete, BoardState
  <2>. QED BY <1>5, <2>2, <2>3 DEF Board!Settle, Complete, BoardTold, callers
<1>6. ASSUME NEW a \in Agents, Poll(a) PROVE UNCHANGED Board!vars
  BY <1>6, Invisible DEF TypeOK, Poll, Lapsed
<1>7. ASSUME NEW a \in Agents, PollClaim(a) \/ PollClaimLost(a) PROVE UNCHANGED Board!vars
  BY <1>7, Invisible DEF TypeOK, PollClaim, PollClaimLost, Claim, Oldest, Queued
<1>8. ASSUME UNCHANGED <<status, ran, result, callers>> PROVE UNCHANGED Board!vars
  BY <1>8, Invisible
<1>9. \A m \in inflight : m.task \in Tasks /\ m.claim \in ran[m.task]
  BY DEF TypeOK, Delivery, RunsBelongToClaims
<1>10. \A a \in Agents : pc[a] = "holding" => work[a].task \in Tasks
  BY DEF WorkIsClaimed, Working
<1>11. CASE \E t \in Tasks : Dispatch(t) \/ DispatchTick(t) \/ DispatchGone(t)
  BY <1>1, <1>2, <1>3, <1>11 DEF Board!Next
<1>12. CASE \E a \in Agents : AgentStep(a)
  <2>1. ASSUME NEW a \in Agents, Begin(a) PROVE Board!Next
    BY <1>4, <1>10, <2>1 DEF Board!Next, Begin
  <2>. QED
    BY <1>6, <1>7, <1>8, <1>12, <2>1
    DEF AgentStep, PollEmpty, PollFails, Execute, Hang, SendResult, DeliveryTimeout, Crash, table
<1>13. CASE Deliver
  <2>1. ASSUME NEW m \in inflight, Complete(m) PROVE Board!Next
    BY <1>5, <1>9, <2>1 DEF Board!Next
  <2>. QED BY <1>8, <1>13, <2>1 DEF Deliver, CompleteMissed, CompleteRecheck, table
<1>14. CASE Tick \/ UNCHANGED vars
  BY <1>8, <1>14 DEF Tick, vars, table
<1>. QED BY <1>11, <1>12, <1>13, <1>14 DEF Next

\* For any number of processes, tasks, attempts and faults the outbound queue is
\* a task board: one of the runs made is adopted, for good, and a caller that is
\* answered is told that one.
THEOREM QueueImplementsBoard == Spec => ImplementsBoard
BY InitRefines, NextRefines, Invariance, PTL DEF Spec, ImplementsBoard, Board!Spec

=============================================================================
