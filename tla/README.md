# Xentra: specification and verification

TLA+ models of Xentra's control plane and runners, the TLC runs that check them
on small instances and the theorems that TLAPS proves about them for every
instance. Every definition is translated from the code; `PROJECT.json` ("map")
says from which lines. "Control plane" is `backend/control-plane` and "runner"
is `backend/runner` below; `application/…` and `persistence/…` are directories
of the control plane's `internal/`.

## 1. The system

Xentra watches environments (hosts), investigates failures with an AI model that
may only read, proposes remediation actions, and executes them after an owner
approved them.

```
 GitHub ──webhook──▶ ┌───────────────── control plane ────────────────┐
 browser ──API────▶  │ auth · projects · environments · integrations  │──▶ AI service
                     │ webhooks ▶ incidents ▶ investigation ▶ memory  │
                     │ actions ▶ executor ▶ connection clients        │──SSH/SSM/HTTP──▶ host
                     │ runner control: Dispatch, poll, complete       │◀──poll─── runner ▶ host
                     └───────────────┬────────────────────────────────┘
                                 PostgreSQL
```

### Inventory

| component | state | operations | hard behaviour | what makes it correct |
|---|---|---|---|---|
| **outbound runner channel** (`application/runner_control_service.go`, `persistence/runner_control.go`, runner `control/`) | `runner_tasks` rows, waiting `Dispatch` calls, agent processes | Dispatch, Poll (re-queue + claim), Execute, Complete | leases, two processes with one identity, lost and late calls, crashes, tools that hang, two-statement handlers, clocks of two machines | one holder per task within the lease, one result adopted for good, repeats only after faults, every task settles |
| **remediation actions and audit** (`application/action_service.go`, `persistence/actions.go`) | `actions` rows, audit events, executor goroutines, `incidents` row | Propose, Approve, Reject, executor | read–check–save without a lock, ignored errors, whole-row saves from stale copies, 2-minute limit on a call that may still take effect, crash | nothing runs unapproved, a decision is exclusive, the row and the trail tell the truth, incidents resolved only after verification |
| **incidents** (`application/incident_service.go`) | `incidents` rows | Create, List | a chain of calls with discarded errors, two saves around the memory call, racing the executor | an incident says what failed, and is remembered or says that it is not |
| **webhook intake** (`application/github_webhook_service.go`) | `github_webhook_deliveries` | Process | redelivery, concurrent duplicates, claim before processing | at most one incident per delivery; a failure not lost |
| **integrations** (`application/integration_service.go`) | `repository_integrations`, credentials | ConnectGitHub, lookups | partial failure, reconnect, upsert against id | the path and secret handed out work |
| **investigation** (`application/investigation_service.go`) | per-call evidence, tool budget | InvestigateWithEvidence, streaming | parallel tool calls, deadline, byte bound, untrusted plans | only allowed tools, budget and bounds kept, ends unless the baseline's collection hangs |
| **incident memory** (`application/memory_service.go`) | `incident_memories` | Remember, Recall | concurrent incidents, an approximate index, limit before the distance filter | same environment only, no two incidents each other's evidence |
| **GitHub client, token cache** (`clients/github_*.go`) | installation tokens | token, FetchContext | concurrent refresh, expiry margin, revocation, a repository that moves between calls | never an expired token, evidence of one commit |
| **auth and sessions** (`application/auth_service.go`, `persistence/auth.go`, `httpapi/auth.go`) | users, organizations, memberships, sessions | Register, CreateMember, Login, Authenticate, Logout | account committed before its session, concurrent creation, expiry | one maker per account, members added by owners, a logout final |
| **rate limiter** (`httpapi/middleware.go`) | windows per address and scope | Allow | clock read before the lock, collection of old entries | bounded admission, no refusal without a full window |
| **workspace** (`ui/src/app/WorkspaceProvider.tsx`, `ui/src/api.ts`) | token, principal, lists, loading gate of a tab | sign in and out, reload, run, refresh | answers out of order, sign-outs overlapping sign-ins, answers lost | a page shows its own organization and its own changes, no session is left alive for no reason |
| **environments, enrollment, projects, credentials** (`environment_service.go`, `runner_control_service.go`, …) | `projects`, `credentials`, `environments`, `outbound_runners` | Create, CreateEnrollment, poll's Save | several writes without a transaction, discovery in between, whole-row save from a stale read | no row without the rows it names, runners known when they poll, reports not undone |
| **connection clients** (`clients/ssh_client.go`, `ssm_client.go`, `runner_client.go`, `outbound_runner_client.go`) | one SSM client per region, commands on hosts | Discover, Collect, ExecuteAction, VerifyAction | commands that outlive their callers, polling, limits, a client created outside the lock | a healthy verdict was earned, nothing waited for is left behind, calls with a limit return |
| runner tools, inbound runner API, AI service, telemetry, migrations, TLS, redaction | – | – | I/O, stateless or text | see section 7 |

## 2. Modules

| module | what it is |
|---|---|
| `TaskBoard` | abstract promise of the outbound queue: post, try, settle once, tell |
| `OutboundRunner` | the queue in detail: Dispatch, table, leases, agents, network |
| `MCOutboundRunner`, `OutboundRunner_*.cfg` | instances for TLC |
| `OutboundRunner_proofs` | its theorems |
| `Remediation` | abstract promise of executing an action: order once, act at any time, one verdict |
| `ActionLifecycle` | one action: row, Approve/Reject requests, executors, host, audit, incident |
| `MCActionLifecycle`, `ActionLifecycle_*.cfg` | instances for TLC |
| `ActionLifecycle_proofs` | its theorems |
| `WebhookIntake` | ConnectGitHub set-ups, GitHub's deliveries, the webhook calls that process them, incidents |
| `MCWebhookIntake`, `WebhookIntake_*.cfg` | instances for TLC |
| `WebhookIntake_proofs` | its theorems |
| `Investigation` | one investigation: AI steps, concurrent tool calls, budget, deadline, evidence bounds |
| `MCInvestigation`, `Investigation_*.cfg` | instances for TLC |
| `Investigation_proofs` | its theorems |
| `RateLimiter` | the fixed windows of one limiter, as operators |
| `FrontDoor` | tabs, the limiter, authentication, accounts and sessions; composes `RateLimiter` |
| `MCFrontDoor`, `FrontDoor.cfg`, `FrontDoor_proofs` | instance for TLC, theorems |
| `ConnectionClients` | jobs that discover, collect, execute and verify over four kinds of connections |
| `HostAccess` | projects, credentials, environments, enrollments and polls; composes `ConnectionClients` |
| `MCHostAccess`, `HostAccess.cfg`, `HostAccess_proofs` | instance for TLC, theorems about both |
| `InstallationTokens` | the cache of installation tokens |
| `IncidentContext` | fetching a repository's context, recalling, saving and remembering incidents; composes `InstallationTokens` |
| `MCIncidentContext`, `IncidentContext.cfg` | instance for TLC |
| `InstallationTokens_proofs`, `IncidentContext_proofs` | lemmas about the cache, theorems about both |

Operators named `X_Something` right before `X` are mutated forms of `X`: the bug
each of them stands for must break a property, which is how the properties are
tested (`PROJECT.json`, "mutants"). They are part of no specification.

### OutboundRunner

State. `status`, `age`, `result` and `claim` are a `runner_tasks` row: its
status, the time since `claimed_at`, whose result is stored, and (history) how
often it was claimed. `caller` and `answer` are the `Dispatch` calls. `pc`,
`work`, `workAge` and `attempt` are the runner processes (`agent.go`). `inflight`
holds result deliveries the control plane has not answered. `ran` records under
which claims the tool ran on the host: one entry is one restart of a container.

Actions and code:

| action | code |
|---|---|
| `Dispatch` | `Dispatch` up to the insert; `created_at` is stamped first, hence tasks are named by the rank of their stamp and may be inserted in any order |
| `DispatchTick`, `DispatchGone` | the 100 ms wait loop, the end of the caller's context |
| `Poll` | agent's call, `Poll` handler, discovery, first statement of `ClaimNextTask` (re-queue lapsed rows) |
| `PollClaim`, `PollClaimLost`, `PollEmpty`, `PollFails` | second statement (`FOR UPDATE SKIP LOCKED`, oldest first) and how the answer reaches the agent |
| `Execute`, `Hang` | `ToolService.Execute`, in the agent's only loop and without a deadline: it comes back or it never does |
| `SendResult`, `DeliveryFailed`, `DeliveryTimeout` | `completeWithRetry`: the same result up to five times |
| `Complete`, `CompleteMissed`, `CompleteRecheck` | `CompleteTask`: UPDATE of a claimed row, else a separate SELECT that accepts a completed one |
| `Crash` | a runner process dies and is restarted, or is not heard of again (nobody restarts it, or its first `Discover` hangs) |
| `Tick` | time |

The row names no holder and a claim carries no token: any process of the runner
may complete a claimed row with whatever result it has. The model keeps the
claim's number with each run and each delivery, which the code does not store,
so that runs can be told from each other.

A faulty step (lost response, failed delivery, crash, handler failure, a tool that hangs, a
process at work when the safe time of its claim ends) spends one unit of `MaxFaults`.

### ActionLifecycle

State. `row` is the stored action, with the request whose copy was saved last.
`pc` follows a request through its handler and, for an approval, on through the
goroutine it starts. `effect` is the tool call on the host: `"outstanding"` as
long as it may still take effect, which it can do before or after its caller
gave up (`HostActs`). `verdict` is what the executor found. `audit` is the set of
events, `incident` and `creator` are the incident and the end of its `Create`.
`decided` and `overlapped` are history.

`Load` is the owner check of the handler, the read of the row and the status
check; `SaveDecision` the save of the handler's copy; `AuditDecision` the audit
event and, for an approval, the `go executeApproved`. `StartExecution` …
`ResolveIncident` are the executor from save to call to save. Where the code discards an
error (`_ =`), the action goes on with the row, the event or the incident as it
was (`SaveRow`, `Append`); where the code returns it, there is an action for the
failure. `Crash` is a stop of the control plane: nothing resumes its goroutines.

The executor's tool call is one step here (`CallTool` to `ToolSucceeds`, `ToolFails` or `HostHangs`),
and over four kinds of connections a series of commands in `ConnectionClients`. `Remediation`
is what the one takes for granted and the other has to keep, the contract of the
`RemediationClient` interface: the host is asked once, what it does may come after the caller
gave up, a verdict is given once, and only a restart that took place is judged. Both modules
implement it: `Executor` maps `effect` and `verdict` to it as they are, `Client`
(in `HostAccess`) the command `restart` of every job that acts and what the job returned.

### WebhookIntake

State. A set-up is one `ConnectGitHub` call and names all it creates: the
integration's id, which is the webhook path, and its secret. `rows` is
`repository_integrations`: per environment, whose id the row has and whose other
fields. `claims` is `github_webhook_deliveries`. `pc` and `held` are the webhook calls,
each with the row it read; `context` is the set-up whose repository `Create` read for
its evidence. `event` is what a call carries: what happened is the same for all calls of a
delivery id, while path and secret are those of the hook it came over, of which a repository
may have several. `moved` (history) are the calls whose environment was reconnected while
they were at work.

| action | code |
|---|---|
| `StoreSecret`, `SaveIntegration`, `ConnectFails` | `ConnectGitHub`: credentials first, then the upsert by environment, which keeps the id of the row it meets |
| `Send` | external: GitHub, for the first time, again, or over another hook of the repository; a hook has a path and a secret that were handed out, possibly not of one set-up |
| `Find`, `Verify`, `Claim`, `Examine` | `Process`: look-up by path, signature, claim, decoding and the checks of the event |
| `CollectContext`, `SaveIncident`, `Remember` | `IncidentService.Create` as a webhook calls it |
| `HostHangs` | `Create`'s collection over SSH, which a handshake without a deadline may keep forever |
| `CallFails`, `Crash` | an error or a hung-up caller (the request's context is used throughout), a stop of the control plane |

### Investigation

State. `stage` and `step` are where `investigate` is; `toolCalls`, `seen` and
`evidence` are its variables of these names (`safeEvidence`); `asked`, `running`,
`channel` and `awaited` are the present step's `validRequests`, its goroutines,
`resultCh` and what is left of the receiving loop. An item of evidence is its origin and
the length of its output. `ran` and `produced` are history.

`Collect` is everything up to the first step, and `CollectHangs` a collection that never
returns: `Collect` waits for all its commands, and over SSH not every one looks at the context. `DecideEnough`, `DecideOverBudget` and
`DecideTools` are what follows an answer of `Next`, whose content is arbitrary;
`ToolEnds` is a goroutine, which outlives the investigation; `Receive` and
`DeadlineSeen` are the two arms of the `select`, of which Go may take either when both
are ready. `BoundEvidence` is `boundEvidence`. An answer that arrives as the deadline
passes is a decision followed by `Expire`.

### RateLimiter and FrontDoor

State. `entries` and `lastGC` are the limiters of the scopes `auth` and `api`; `account` is
`users`, `organizations` and `memberships`, `session` is `sessions`; `token`,
`principal`, `shown` and `loading` are the workspace of a tab, `shown` naming the list call
that filled it. `call`, `pc` and `told` are a call: what it is and with which token,
how far the server has come with it, what its tab knows. A session and its token are named by the
call that created them. `over`, `entered`, `seen`, `version` and `closed` are history, by
which the properties tell calls that overlapped, windows and stale lists.

| action | code |
|---|---|
| `Enter` | `withRateLimits`, `Allow`: collection, window, count; `now` is a reading of the clock that may be `wait` old, since it is taken before the lock |
| `Authenticate` | `withAuthentication`: any error of the look-up is answered as a bad token |
| `Register`, `CreateSession`, `Login`, `CreateMember`, `HandleLogout`, `Me` | the handlers and `AuthService`; account and session are two statements |
| `List`, `Change` | the handlers a workspace refreshes from, and those that change what the lists show: one that only an owner may call (`"change"`), and `proposeAction` (`"propose"`), which any user may |
| `HandlerFails` | a statement fails or the caller is gone; a transaction is rolled back |
| `SignIn`, `SignedIn`, `SignOut`, `SignedOut`, `Reload`, `Remembered`, `Forgotten` | `authenticate`, `logout` and the effects of `WorkspaceProvider` up to and after their `await` |
| `Close` | a tab is closed, and with it the `sessionStorage` its token is in (`api.ts:22`); nothing is sent, and what was under way is heard by nobody |
| `Work`, `Changed`, `Finished`, `Refreshed`, `CallFailed` | `run` and `refresh`; members and proposals are added without a refresh (`Finished`), proposals because `run` is called with `shouldRefresh` false (`WorkspaceProvider.tsx:216`) |

The four list calls of a refresh are one call, which is what `Promise.all` makes of them
for the tab. A wrong password is answered like an unknown address and has no step
of its own. A commit whose acknowledgement is lost is not modelled. `webhook` and `runner`
scopes have limiters of the same kind and no state of their own besides.

### ConnectionClients and HostAccess

State. A job is one use of the clients, for an action, a collection or a discovery; `place`
and `phase` are how far it is, `command` is what it sent as the host sees it, and `heard` what
the job knows of it. `cached`, `client` and `creating` are `SSMClient.clients` and the calls
that look for a region's client. `up` is whether what a restart starts is up, and `again` whose
restart was carried out by a further run of its task. `projects`,
`credentials`, `environments` and `runners` are tables whose rows are named by the request that
wrote them; `fields` says for each field of an environment's row which poll's report it is
from; `copy` and `readAt` are what a poll read and when.

| action | code |
|---|---|
| `Begin`, `Connect`, `ConnectFails` | `ConnectionClient`'s dispatch by type; `SSHClient.connect` |
| `LookUpClient`, `CreateClient` | `SSMClient.client`: look, create outside the lock, look again |
| `Send`, `SendFails`, `Hear`, `GiveUp`, `LoseTrack` | `SSMClient.run`, `runSSHContext`, `executeTool`, `Dispatch`: a command is handed over, its end is heard, its time is up, or its connection or status call fails |
| `Starts`, `Ends`, `Expires`, `HostFails` | external: the host carries commands out whoever waits |
| `RunsAgain` | a task whose lease lapsed is claimed and run by another process (`ClaimNextTask`), before or after the row got its result; which processes do so is `OutboundRunner`'s |
| `Verify`, `Finish` | `ExecuteAction` has succeeded and `VerifyAction` reaches the host again; the results of a job |
| `Submit` … `SaveRunner`, `StepFails` | `EnvironmentService.Create` and `CreateEnrollmentWithHealthURL`, a write each; one that fails may have been committed |
| `PollReads`, `PollSaves`, `PollFails` | `Poll`: authenticate and read the row, write all of it |

A job sends a command once and hears one end of it. Over a task the host may run the tool more
often, which changes something for a restart only, and then what the host made of it may be more than
the job heard.

The series of commands an SSH discovery sends is one command. `LoseTrack` is also a caller
that hangs up. `PollSaves` ends a poll; what follows in the handler, the claim of a task,
is `OutboundRunner`'s `Poll`, and its failure changes nothing here. The credential of
a request that failed stays behind; nothing reads it.

### InstallationTokens and IncidentContext

State. `cached` is `GitHubAuthProvider.cache`; `holds`, `token`, `since` and `expires` follow a
request's token, and `log` keeps the misses and stores in their order. `runs` is what
GitHub lists of a workflow's runs; `page`, `diff` and `pulls` are what a request has fetched,
by the commit it belongs to. `incidents` and `memories` are the tables, `recalled` the
memories a request was shown.

| action | code |
|---|---|
| `Look`, `Mint`, `Store` | `installationToken`: the look under the lock, the call outside it, the store under it |
| `Revoke`, `Push`, `RunEnds` | external: GitHub |
| `FetchCommits`, `FetchRuns`, `FetchDiff`, `FetchPulls`, `ContextFails` | `FetchContext`: the first two calls fail the whole, the others leave a note |
| `Overlook` | a failing look-up of the integration is taken for none |
| `Recall`, `RecallFails` | `Recall` from an investigation: what the search answers (`Searched`), then the distance. The search goes through an HNSW index (`migrations/008_incident_memory.sql:16`), which is approximate and whose candidates are filtered by environment afterwards, so it may leave out any memory and the model lets it |
| `Investigate`, `SaveIncident`, `Remember`, `RememberFails`, `StepFails` | the rest of `Create`; a write that fails may have been committed |

The list of commits is fetched but says nothing the properties need. GitHub's clock
is the control plane's: the margin is five minutes where all calls of a fetch take less
than one, and that difference is what a skew may eat up. A commit has one run.

## 3. Runs

| run | instance | shows |
|---|---|---|
| `queue_shared` | 2 tasks, 2 processes of one identity, lease 1, 2 attempts, 2 faults; 389,598 states | repeats cost faults, results are not forgotten, and the queue implements `TaskBoard` |
| `queue_mixed` | 2 identities, 2 processes for the one and 1 for the other, a task each, lease 2, clocks off by up to 1, 1 fault, fair; 107,166 states | exclusion holds for the lease less the skew; every task settles and every caller that stays is answered, unless every process of the runner hangs in a tool or is dead |
| `action_race` | approvals by two owners and by a member, a rejection, 1 fault, fair; 768,454 states | no mutation without an owner's approval, one decision, the row tells what happened, a healthy verdict before a resolution, a true and complete audit trail, stages only advance, executors implement `Remediation`, and an approved action reaches a final status unless a fault struck or its host hangs |
| `action_rejected` | 2 approvals, a rejection, no fault | **violated**: a rejected action is executed |
| `action_audit` | 1 fault | **violated**: an execution with no audit event |
| `intake` | 2 environments, 3 set-ups (one a reconnect), one delivery called twice, 2 faults, fair; 370,045 states | one incident per delivery, earned, with the right repository's evidence; duplicates are covered; a claimed failed run gets its incident unless a fault strikes or a host hangs |
| `intake_setup` | 2 set-ups of one environment | **violated**: the path handed out is not found |
| `intake_redelivery` | 2 calls, 1 fault | **violated**: the redelivery of a lost failure is a "duplicate" |
| `investigation` | 4 read tools and a request that is none, 3 steps of at most 2 requests, a baseline of 2 in a budget of 5, 3 items in 9 bytes, fair; 157,870 states | budget, steps kept apart, no blocked goroutine, bounded evidence with the newest kept; an investigation returns though tools may never answer, unless its collection hangs |
| `front_door` | six scenarios of up to 5 calls and 3 tabs: overlapping sign-ins and sign-outs; a closed tab; work, proposals and reloads; accounts; expiry; calls over three windows; 1,499,226 states | the limiter, accounts and sessions, and what a page shows |
| `host_access` | seven groups: an enrollment with a refused one and four polls, requests over SSH, SSM and HTTP, actions over all four connections, pairs that share a region; 2 faults, fair; 289,887 states | what jobs return, rows and reports are true, jobs that act implement `Remediation`; calls with a limit and requests end |
| `incident_context` | five scenarios: three fetches sharing the cache, a revocation, a moving repository, one incident from end to end, four incidents that recall each other; 1,974,490 states | tokens, one commit, failures shown; what is recalled was saved, is of the environment, like the question and within the limit, and no two incidents are each other's evidence |

The properties of a run are named in its `.cfg` and explained above their definitions. Some
are conjunctions of parts with names of their own, which the proofs treat one by one:
`AuditTrail`, `RecordsTellOutcome` (`RowTellsOutcome`, `ResolvedNeedsHealthy`), `EvidenceIsKept`,
`LimiterIsFair`, `AccountsAreEarned`, `RowsAreWhole`, `ReturnsAreTrue` (`HealthyMeansRestarted`,
`NothingLeftBehind`), `AllEnds`, `TokensServe`. Type correctness, the inductive invariants and `OwnHostOnly`, `SettledForGood`,
`NoToolTwice` and `OneClientPerRegion` are proved (section 5), so no run repeats them.

Bounds and why they are enough. Two processes are what it takes for a lapsed
holder and its successor; with two faults a third process adds only repetitions
of that. Two tasks make the order of the queue and cross-talk visible. Leases
are compared with ages only, so a lease of one tick reaches every outcome of the
comparison and a lease of two with a skew of one every outcome with skew. Two
attempts show "more are left" and "none is left". In `ActionLifecycle` three
approvals and a rejection give every pair of racing decisions, and a fault can be any
failed save, event or crash; that more faults break no invariant is proved. In `WebhookIntake`
three set-ups are what it takes for a reconnect and a bystander, and two calls for a duplicate
before, during and after the first. In `Investigation` the budget of three tools over steps of two is cut
in the middle of a step, decisions of three requests are cut to two, and outputs of
lengths 1 and 6 against a limit of 2 and a total of 9 make every comparison of
`boundEvidence` go both ways. `FrontDoor`, `HostAccess` and
`IncidentContext` would be too large with everything active at once: a *scenario* or *group*
names who takes part, which calls they make and how far clock and faults go, and a run
starts in each of them. A scenario holds what can interfere. The calls of one tab share
its token and its page, so `Sessions` and `Pages` need one tab, and it takes five calls for a
sign-in, two sign-outs, another sign-in and its list; `Accounts` has the three ways to create one
account race; `Crowd` needs windows of two ticks and a clock that passes three of
them for a late reading, a new window and a collection to meet. Two faults in `HostAccess` are
a failing write or call, a failing host or a further run of a task. In `IncidentContext` a token lasts three ticks
and is used for two, so one minted first is stale when one minted last is not; of three runs
two are listed, so that a failing run leaves the page. The proofs are of any scenarios. What
is proved (section 5) does not depend on any of these bounds.

`CHECK_DEADLOCK FALSE` appears where the model really stops: the runs of
`ActionLifecycle`, `WebhookIntake`, `HostAccess` and `IncidentContext` have finitely many requests,
which all end, so does an investigation, and tabs of `FrontDoor` stop calling.

## 4. Fairness

`OutboundRunner`: agents loop until their process dies or its tool hangs (`agent.go`, `Run`), HTTP
handlers answer, the wait loop has a ticker, time passes: weak fairness of each of
these. The agent calls the tool in its only loop, under the context of its process
and without a deadline (`agent.go:65`): a tool that never returns is the step `Hang`, which
`Execute`'s fairness does not exclude, and after it the process polls no more. So
`EveryTaskSettles` and `CallersAnswered` promise nothing once every process of a task's
runner hangs or is dead (`Deserted`); with a second process, as in `queue_mixed`, the lease
brings the task back. There is no fairness on faults, on `Dispatch`, or on a caller's leaving. Weak fairness of
`PollClaim \/ PollEmpty` is per process, since each is a loop of its own.

`ActionLifecycle`: a handler that has read the row runs to its end and an
executor keeps going; a tool call that looks at its context ends because of
`context.WithTimeout(…, 2 minutes)`. Over SSH the handshake (`ssh_client.go:302`) and the
opening of a session (line 317) do not look: that is the step `HostHangs`, which happens without
a fault, and `ApprovedFinishes` promises nothing once an executor hangs. Nothing is assumed of the host (`HostActs` has no fairness) or of owners.

`WebhookIntake`: the handler of a call goes on from step to step, since the AI service,
GitHub and most hosts are called with time limits. A host reached over SSH may keep the
collection in its handshake: that is the step `HostHangs`, which happens without a fault, and
`ClaimedRunsOpenIncidents` promises nothing of a call that hangs. Nothing is assumed of GitHub
(`Send`, repeated calls) or of owners.

`Investigation`: its goroutine goes on and the timer goes off. The baseline is collected
before the loop first looks at the deadline (`investigation_service.go:127`) and waits for all its
commands, of which one over SSH may stay in a handshake that does not look at the context: that is
`CollectHangs`, and `Returns` promises nothing after it. Nothing is assumed of the AI service's
tools: the `select` returns at the deadline even if one never answers.

`HostAccess`: a job goes on where it can and its timers fire (`ClientsFairness`: one weak
fairness condition per job over the steps that are its own), and a handler runs
on to its end. Nothing is assumed of hosts, which may never take up a command or end it, nor of
owners and runners. `SSHClient` puts a deadline on dialling and on a command, but none on
the handshake (`ssh_client.go:302`) nor on the opening of a session (line 317): `Advance`
leaves these out, and `JobsReturn` and `RequestsEnd` promise nothing of jobs that are
stuck there.

`FrontDoor` and `IncidentContext` state safety only, and have no fairness.

## 5. Proofs

`OutboundRunner_proofs` (for any sets of tasks, runners and processes, any lease,
any skew up to it, any number of attempts and faults; assumptions
`TasksAssumption`, `RunnersAssumption`, `LeaseAssumption`, `BoundsAssumption`):
`TypeCorrect`, `Invariance` (`IInv`), `Exclusive`, `OwnHost`,
`Settled`, `RepeatsArePaid`, `NothingForgotten` and `QueueImplementsBoard`.

The inductive invariant. "No two processes hold one task within the safe time" is
not inductive: a poll's re-queueing looks at the row's age, not at the processes.
What links the two is `FreshClaimsAreCurrent`: a process within the safe time of
its claim holds the row's last claim and the row's age is the age of that claim.
So re-queueing, which needs an age above the lease less the skew, only ever takes
rows from processes past their safe time. Two fresh processes on one task would
both hold the last claim, which `ClaimsAreDistinct` excludes; that rests on claims
counting up (`WorkIsClaimed`). `RunsBelongToClaims` says that a run is recorded
before its delivery is sent, so that a stored result is one of the runs made
(`ResultsFollowRuns`), and that a held claim has not run yet, which makes each run a new try of
the task board. `RepeatsArePaid` is about
claims, since a run is recorded under its claim: `ClaimsArePaid` says that a task has had
no more claims than faults, but for the last, which is paid for when its process lets go
of it. A process lets go for nothing only if a delivery found its row not claimed, and
`MissedIsLate` says that the row is then completed or claimed by another; the same fact
gives `NothingForgotten`. The refinement
maps `Execute` and `Hang` to `Try`, `Complete` to `Settle`, the three `Dispatch` actions to
`Post`, `Tell` and `Leave`, and everything else to a stutter.

`ActionLifecycle_proofs` (any sets of requests, any owners, any number of faults;
`RequestsAssumption`, `FaultsAssumption`): `TypeCorrect`, `Invariance`, `Approved`,
`OneDecision`, `TrueRow`, `Healthy`, `RecordsTrue` (the two before), `TrueAudit`, `CompleteAudit`,
`AuditHolds` (the two before), `Advance`, `ExecutorsImplementRemediation`.

Its invariant. `RowTellsOutcome` speaks of the row only; an executor that
writes it needs to know what its place implies: `EffectsFollowPlaces` and
`VerdictsFollowPlaces`. `PlacesAreEarned` carries "decided by an owner" from the
save to the end. `PendingIsUndecided` is what makes decisions exclusive: without
an overlap a request that holds the pending row is alone with it, so the
first save closes the door to all others. `RowIsBehind` (an executor's own last
save is never ahead of it) is what `Advance` needs. `PlacesAudited` extends
`AuditIsComplete` from requests that are done to every place after an event was due.
The refinement maps `CallTool`, `HostActs`, `ToolFails` and `Verify` to the four steps
of `Remediation` and everything else, crashes and racing saves included, to a stutter; that no
verdict is ever given twice is what `VerdictsFollowPlaces` says of the places before one.

`WebhookIntake_proofs` (any environments, set-ups, deliveries and calls, any number of
faults; the four assumptions of the module): `TypeCorrect`, `Invariance`,
`OncePerDelivery`, `Earned`, `RightEvidence`, `Covered`.

Its invariant. What a call checked is only good later if the place it is at remembers
it: `ChecksFollowPlaces` ties every place to the claim, the signature and the
event's examination, over the row the call read (`HeldIsFound`) and not the row there is
now. `UnmovedIsCurrent` says the two agree for calls nobody reconnected under, which is
what the second read of the row in `Create` rests on; it needs `RowsAreOwn`, since the
upsert leaves one set-up's id with another's fields. `ClaimsAreAnswered` follows a claim
to its call's end.

`Investigation_proofs` (any requests, bounds, outputs and steps; `RequestsAssumption`,
`BudgetAssumption`, `EvidenceAssumption`): `TypeCorrect`, `Invariance`, `Budgeted`, `Separate`,
`Unblocked`, `RunOnce`, `EvidenceKept`.

Its invariant. The budget is kept because a decision is cut to what is left before
repetitions and invalid requests are taken out of it, and `Charged` equates the counter
with the baseline and the number of requests run, which needs `ran` to be among `seen`:
then a step's requests are new and their number adds up. `Outstanding` counts
the results of a step: those awaited are in the channel or have a goroutine, and there
are at most as many as the channel was made for, so a send never blocks and after the
last receive nothing is left.

`EvidenceKept` is an induction over sequences. The library's induction theorems take an
operator, which the installed provers cannot instantiate; `SetInduction` and `Recursion` state
the same of a set and of a function, from the well-foundedness of the natural numbers. With
them `TotalExists` and `WalkExists` show that the recursive functions in `TotalBytes` and
`BoundEvidence` have the values their equations say. Along the walk from the newest item to the
oldest the bytes kept and those left add up to `MaxBytes` (`Within`), and as long as
the newest items fit they are kept whole (`BoundKeepsNewest`). That the bounds are applied
to what they left before loses nothing, because cutting a cut output again changes nothing
(`CutTypes`, `KeepsAppend`). The proof needs sources with names: with an item of
no bytes at all and no bytes left the newest would be dropped. The code's sources are literals or
tool names, which are never empty, and `EvidenceAssumption` says so.

`FrontDoor_proofs` (any tabs, emails, team and scenarios, any limits, windows and lifetimes;
`SetsAssumption`, `StartAssumption`, `BoundsAssumption`, `ScenarioAssumption`,
`WindowAssumption`): `TypeCorrect`, `AccountsAreMadeOnce`, `ConflictsAreReal`, `MembersWereAdded`,
`AccountsHold` (the three together), `LogoutIsFinal`, `LimiterFair`, `OwnShown`, `ChangesShow`,
`SessionsLeft`.

Its invariant. `OneCreator` counts calls that committed; what excludes a second one is that an
account once committed stays (`AccountsHaveMakers`) and that `Taken` is evaluated with
the commit. `MembersBelong` needs the owner of an authorized call to have an account, which
follows its session from its sign-in (`UsersExist`). A logout is final because sessions are created
under new names only: `TokensFollow` says that no tab and no call knows a token before
its sign-in was answered, so that none is created again after its logout.

`LimiterInv`. An entry counts at most the calls of its window that got through (`EntriesCount`).
That a window's length sees at most two limits is not inductive: it has to hold of every
span still open. `Spans` says that the calls of an open span are those its address's entry has
counted and, if that window began within the span, at most a limit's worth of one older window:
an entry is replaced only a window's length after it began, and a call that read the clock
before the window began is counted in it, never in one of its own.

`WorkspaceInv` ties the pages to the server. A call overlaps the calls its tab waits for when it is
sent (`CallsInOrder`). `PageFollows` says that a page knows the user of the token it
holds unless it waits for `me`, and that one gated operation is under way at a time. `ListsAreOwn`:
a list was asked for with the token its tab still holds or overlapped a logout, because
whatever replaces the token of a tab with lists under way is a sign-in, which only starts when
there is no user, or a logout. `ChangesFollow` orders the versions that changes make and lists
see, and `ChangesAreShown` accounts for a page that is behind. `SessionsAreHeld` follows every
session from its sign-in to the tab that holds its token or was closed with it, or to the call that went wrong;
`LogoutsForget` is what it needs of a logout that overlaps a sign-in.

`HostAccess_proofs` (any jobs, tools, regions, hosts, requests, polls and groups, any number of
faults; the six assumptions of both modules): `TypeCorrect`, `HealthIsVerified`,
`JobsLeaveNothing`, `TrueReturns` (the two before), `ClientsAreShared`, `RowsRefer`, `EnrollmentsWhole`, `PollsAreKnown`,
`RowsHold` (the three before), `SavedReportsStand`, `JobsImplementRemediation`.

Its invariant has two halves. `JobsInv`: what a job heard is true unless it gave up
(`HeardIsTrue`); a command still waited for belongs to the phase the job is in and was not
skipped (`WaitingIsNeeded`), so that a job that finds all it needs over has nothing open;
checks are sent in the verifying phase only, which begins after a restart that succeeded
(`VerifiesRestarted`). `AccessInv`: what each stage of a request has written
(`StagesFollow`), what a row says of its request, which may have failed after writing it (`RowsFollow`), and, for the polls, that a
field's report missing from the row or from a copy is covered by a later save that either
reports it or was read earlier (`PollsFollow`, `Covers`): a copy is a past state of the row,
and `ReportsStand` of the row needs the same of every copy that may be written back.
The refinement needs `JobsInv` alone: a restart is sent by a job that is ready, which has
returned nothing yet, and a job verifies after a restart that succeeded (`VerifiesRestarted`), so
what it returns then is a `Judge` of a restart applied; a further run of a task is an `Act`, or a
stutter if the restart had taken place already (only one that was sent is run again, `RunsFollow`); a connection that fails is a `Fail` of
one never sent, or a `Judge`, depending on the phase.

`IncidentContext_proofs`, over `InstallationTokens_proofs` (any requests, installations,
distances, scenarios and times with `Fetch <= Margin < Lifetime`; `TokensAssumption`, `TimesAssumption`,
`IncidentsAssumption`): `TypeCorrect`, `TokensLast`, `RevocationIsBounded`, `TokensHold` (the two together),
`MintsHaveCause`, `ContextIsOfOneCommit`, `FailuresAreShown`, `PrecedentsHold`.

Its invariant. `TokensInv` bounds the age of what a request holds (`HeldLasts`) and when a
revoked token was minted (`RevokedEarlier`). `LogInv` says that the cache holds what its installation
stored last (`CacheIsLast`) and that a token's expiry lies between its request's
miss and its store, each plus a lifetime (`LogTellsExpiry`): if the last stored is stale while an
earlier stored is not, its miss must be older than that store. `ContextInv` ties the
parts of a context to the stage of its request and to the run selected from its page
(`PartsOfSelected`), and memories to saved incidents (`SavedFollows`). `RecallStands` adds that what
an incident was shown had been remembered by then: an incident that recalls is not remembered
itself, so that nothing it is shown can have been shown it.

### Model-checked only

- `EveryTaskSettles`, `CallersAnswered`, `ApprovedFinishes`, `ClaimedRunsOpenIncidents`,
  `Returns`, `AllEnds` (`JobsReturn` and `RequestsEnd`): liveness under fairness is out of the prover's reach.

Every invariant and every action property that a run checks is proved. What a run shows beyond the
proofs is that the instances are not empty: every action fires and every property has a
mutant of the model that breaks it.

## 6. Where the code departs from what is said of it

- `action_rejected`. `TestRejectedActionNeverExecutesAndIsAudited`
  (`action_service_test.go:89`) says a rejected action never executes. `Approve` and
  `Reject` each read the row, check `pending_approval` and save a whole copy, with nothing
  held in between (`persistence/actions.go:23` updates unconditionally). An
  Approve and a Reject that both read the pending row both succeed: the
  rejection is reported and audited, and the executor runs.
- `action_audit`. `docs/architecture/approval-remediation-audit.md:19` says proposals,
  approvals and execution results are persisted in the audit trail;
  `appendActionAudit`'s error is discarded at every call, so one failed insert
  leaves a restart without its event.
- `intake_setup`. The page of a connected repository says "Configure a GitHub webhook for
  workflow_run events" and shows path and secret (`ui/src/pages/IntegrationsPage.tsx:42`).
  The upsert keeps the id of an environment's row (`persistence/operations.go:19`)
  while `ConnectGitHub` hands out the path of the new id: after a reconnect neither the
  new path nor the old one with its old secret works. (The in-memory store, used when no
  database is configured, keeps both ids.)
- `intake_redelivery`. The same page says "Failed workflow → incident"
  (line 38). `Process` claims a delivery before it opens the incident and never gives
  the claim back, so after a failure in between every redelivery is a duplicate.

Departures that a property allows for instead of a run of their own:

- `docs/architecture/auth-rbac.md:45` says "Logout revokes the server-side session". A
  logout that is answered with success does (`LogoutRevokes`, proved). The tab signs out
  locally whatever the answer (`WorkspaceProvider.tsx:132`), and a logout can be refused by the
  limiter or be lost: the session then lives until it expires, and so does that of a tab that is
  closed (`LeftSessionsHaveCause`).
- A revoked installation token stays cached and in use until it is nearly expired: no
  answer of GitHub removes it (`RevocationHeals` says for how long).
- Of two polls of a runner that overlap, the later save writes the fields it did not report back
  to what they were before the other (`ReportsStand`).
- A proposal does not refresh its page: the audit event it adds
  (`action_service.go:77`) shows with the next refresh (`OwnChangesShow` is about the other changes).
- A delivery is claimed by its id alone (`persistence/webhooks.go:16`). GitHub gives all hooks
  of a repository the same id for one event, so of two environments connected to one repository
  only the first opens an incident, and the other is answered "duplicate"
  (`DuplicateIsCovered` asks for an incident of the delivery, not of the environment).
- A restart over an outbound runner may be carried out twice (`RunsAgain`, and `RepeatsNeedFaults`
  of `OutboundRunner`), and may take place although its action is recorded as failed.
- The nearest memories may be missing from what an incident is shown (`Searched`).
- An environment whose runner could not be saved is listed and can neither be polled for nor
  deleted (`EnrollmentsAreWhole`).

## 7. Not modelled

- The runner's tools (reads of docker, systemd and nginx: I/O, one call per tool) and the legacy
  inbound runner API (a stateless facade over them); what a control plane sees of
  them is a command of `ConnectionClients`.
- The AI service: stateless; its answers are arbitrary input to `Investigation`, its failures
  steps of `Investigation` and `IncidentContext`.
- Of the middleware: headers, CORS, body limits, request ids and metrics, which keep nothing
  between requests. Of the credentials: AES-GCM. Of passwords and tokens: their hashes.
- Of the UI: the stream of an investigation, the approval of an action on its page, and layout.
- Of evidence: that `boundEvidence` may drop the note of a failed part of an incident's context.
  `Investigation` shows what it keeps, `IncidentContext` that the note is made.
- Telemetry, TLS set-up, redaction (regular expressions over text), wiring and migrations
  (idempotent statements before the server listens).
- In-memory repositories, which replace the database when none is configured: the models
  follow PostgreSQL; section 6 names the one difference that matters.

## 8. Plan

Done: the modules of section 2, a proof of every safety property and of the three
refinements (`TaskBoard`, and `Remediation` from both of its sides). What is left is out of
the provers' reach (section 5, "Model-checked only") or of the models' (section 7).
