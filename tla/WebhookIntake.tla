--------------------------- MODULE WebhookIntake ----------------------------
(***************************************************************************)
(* From a connected repository to an incident: ConnectGitHub calls that    *)
(* store an environment's integration row and hand out a webhook path and  *)
(* secret, GitHub's deliveries over hooks configured with them, and the    *)
(* handlers that process those calls, each delivery possibly several times *)
(* and at once.  GitHub gives what happens one delivery id, whichever of   *)
(* the repository's hooks it goes out over and however often.              *)
(*                                                                         *)
(* A setup is one ConnectGitHub call.  It names all that the call creates: *)
(* the integration's id, which is the webhook path, and the secret.        *)
(***************************************************************************)
EXTENDS Naturals

CONSTANTS
  Environments,
  Repos,
  Setups,       \* ConnectGitHub calls
  EnvOf,        \* the environment a setup connects
  RepoOf,       \* the repository it connects it to
  Deliveries,   \* GitHub's delivery ids
  Calls,        \* HTTP calls, redeliveries included
  DeliveryOf,   \* the delivery a call carries
  None,         \* no setup, no call
  MaxFaults     \* bound: failed steps, hung-up callers and crashes

ASSUME SetupsAssumption ==
  EnvOf \in [Setups -> Environments] /\ RepoOf \in [Setups -> Repos]
ASSUME CallsAssumption == DeliveryOf \in [Calls -> Deliveries]
ASSUME NoneAssumption == None \notin Setups /\ None \notin Calls
ASSUME FaultsAssumption == MaxFaults \in Nat

VARIABLES
  connect,    \* where a ConnectGitHub call is
  rows,       \* repository_integrations: whose id, and whose fields, a row has
  event,      \* what GitHub sends with a call, and over which hook
  pc,         \* where a webhook call is, and in the end what it was answered
  held,       \* whose fields of the row a call has read
  context,    \* the setup whose repository a call's incident drew on
  claims,     \* github_webhook_deliveries, and (history) the call that inserted
  incidents,  \* incidents opened by webhooks
  moved,      \* history: calls whose environment was reconnected under them
  faults

vars == <<connect, rows, event, pc, held, context, claims, incidents, moved, faults>>

Kinds == {"failed_run", "other_run", "other"}
AtWork == {"found", "verified", "claimed", "creating", "investigating", "hung", "saved"}
Answers == {"created", "duplicate", "ignored", "refused", "lost"}
NoRow == [id |-> None, by |-> None]
Event == [path : Setups, secret : Setups, repo : Repos, kind : Kinds]
NoEvent == [kind |-> "none"]
Incident == [call : Calls, env : Environments, context : Setups \cup {None}]

TypeOK ==
  /\ connect \in [Setups -> {"idle", "stored", "returned", "failed"}]
  /\ rows \in [Environments -> [id : Setups, by : Setups] \cup {NoRow}]
  /\ event \in [Calls -> Event \cup {NoEvent}]
  /\ pc \in [Calls -> {"idle"} \cup AtWork \cup Answers]
  /\ held \in [Calls -> Setups \cup {None}]
  /\ context \in [Calls -> Setups \cup {None}]
  /\ claims \in [Deliveries -> Calls \cup {None}]
  /\ incidents \subseteq Incident
  /\ moved \subseteq Calls
  /\ faults \in 0 .. MaxFaults

Init ==
  /\ connect = [k \in Setups |-> "idle"]
  /\ rows = [e \in Environments |-> NoRow]
  /\ event = [c \in Calls |-> NoEvent]
  /\ pc = [c \in Calls |-> "idle"]
  /\ held = [c \in Calls |-> None]
  /\ context = [c \in Calls |-> None]
  /\ claims = [d \in Deliveries |-> None]
  /\ incidents = {}
  /\ moved = {}
  /\ faults = 0

Fault == faults < MaxFaults /\ faults' = faults + 1
Goto(c, place) == pc' = [pc EXCEPT ![c] = place]
EventOf(c) == event[c]

-----------------------------------------------------------------------------
(* ConnectGitHub *)

\* The environment and the installation are found and the credentials stored.
StoreSecret(k) ==
  /\ connect[k] = "idle"
  /\ connect' = [connect EXCEPT ![k] = "stored"]
  /\ UNCHANGED <<rows, event, pc, held, context, claims, incidents, moved, faults>>

\* The upsert: an environment's second setup keeps the row's id and replaces
\* all else.  The caller is handed its own id and secret, unless the answer of
\* the database is lost.
SaveIntegration(k) ==
  LET e == EnvOf[k] IN
  /\ connect[k] = "stored"
  /\ rows' = [rows EXCEPT ![e] = [id |-> IF @ = NoRow THEN k ELSE @.id, by |-> k]]
  /\ moved' = moved \cup {c \in Calls : pc[c] \in AtWork /\ held[c] # None /\ EnvOf[held[c]] = e}
  /\ \/ connect' = [connect EXCEPT ![k] = "returned"] /\ UNCHANGED faults
     \/ connect' = [connect EXCEPT ![k] = "failed"] /\ Fault
  /\ UNCHANGED <<event, pc, held, context, claims, incidents>>

ConnectFails(k) ==
  /\ connect[k] = "stored"
  /\ Fault
  /\ connect' = [connect EXCEPT ![k] = "failed"]
  /\ UNCHANGED <<rows, event, pc, held, context, claims, incidents, moved>>

-----------------------------------------------------------------------------
(* GitHub *)

HandedOut == {k \in Setups : connect[k] = "returned"}

\* Something that happened in a repository is sent over a hook, for the first
\* time, again, or over another hook of the repository.  A hook has a path and
\* a secret that were handed out; an edit may have left them from two setups.
Send(c) ==
  /\ event[c] = NoEvent
  /\ \E path, secret \in HandedOut, repo \in Repos, kind \in Kinds :
       /\ \A b \in Calls : event[b] # NoEvent /\ DeliveryOf[b] = DeliveryOf[c] =>
            event[b].repo = repo /\ event[b].kind = kind
       /\ event' = [event EXCEPT ![c] =
                      [path |-> path, secret |-> secret, repo |-> repo, kind |-> kind]]
  /\ UNCHANGED <<connect, rows, pc, held, context, claims, incidents, moved, faults>>

-----------------------------------------------------------------------------
(* Process *)

\* FindByID, for the path of the call.
Find(c) ==
  /\ pc[c] = "idle"
  /\ EventOf(c) # NoEvent
  /\ \/ \E e \in Environments :
          /\ rows[e].id = EventOf(c).path
          /\ held' = [held EXCEPT ![c] = rows[e].by]
          /\ Goto(c, "found")
     \/ /\ \A e \in Environments : rows[e].id # EventOf(c).path
        /\ Goto(c, "refused")
        /\ UNCHANGED held
  /\ UNCHANGED <<connect, rows, event, context, claims, incidents, moved, faults>>

\* The signature is checked with the secret of the row that was read.
Verify(c) ==
  /\ pc[c] = "found"
  /\ Goto(c, IF EventOf(c).secret = held[c] THEN "verified" ELSE "refused")
  /\ UNCHANGED <<connect, rows, event, held, context, claims, incidents, moved, faults>>

\* Mutated Claim: a delivery counts as seen once its incident exists.
Claim_AfterIncident(c) ==
  LET d == DeliveryOf[c] IN
  /\ pc[c] = "verified"
  /\ IF \A i \in incidents : DeliveryOf[i.call] # d
     THEN /\ claims' = [claims EXCEPT ![d] = c]
          /\ Goto(c, "claimed")
     ELSE Goto(c, "duplicate") /\ UNCHANGED claims
  /\ UNCHANGED <<connect, rows, event, held, context, incidents, moved, faults>>

\* One insert decides who processes a delivery.  Its answer may be lost.
Claim(c) ==
  LET d == DeliveryOf[c] IN
  /\ pc[c] = "verified"
  /\ IF claims[d] = None
     THEN /\ claims' = [claims EXCEPT ![d] = c]
          /\ \/ Goto(c, "claimed") /\ UNCHANGED faults
             \/ Goto(c, "refused") /\ Fault
     ELSE Goto(c, "duplicate") /\ UNCHANGED <<claims, faults>>
  /\ UNCHANGED <<connect, rows, event, held, context, incidents, moved>>

\* Mutated Examine: the event's repository is not compared.
Examine_AnyRepo(c) ==
  /\ pc[c] = "claimed"
  /\ Goto(c, IF EventOf(c).kind = "failed_run" THEN "creating" ELSE "ignored")
  /\ UNCHANGED <<connect, rows, event, held, context, claims, incidents, moved, faults>>

\* Mutated Examine: completed runs are dropped whatever their conclusion.
Examine_NoRuns(c) ==
  /\ pc[c] = "claimed"
  /\ Goto(c, "ignored")
  /\ UNCHANGED <<connect, rows, event, held, context, claims, incidents, moved, faults>>

\* Only a failed workflow run of the connected repository is of interest.
Examine(c) ==
  LET ev == EventOf(c) IN
  /\ pc[c] = "claimed"
  /\ Goto(c, CASE ev.kind = "other" -> "ignored"
               [] ev.kind # "other" /\ ev.repo # RepoOf[held[c]] -> "refused"
               [] ev.kind = "other_run" /\ ev.repo = RepoOf[held[c]] -> "ignored"
               [] OTHER -> "creating")
  /\ UNCHANGED <<connect, rows, event, held, context, claims, incidents, moved, faults>>

\* Mutated CollectContext: the row of any environment will do.
CollectContext_AnyRow(c) ==
  /\ pc[c] = "creating"
  /\ \E e \in Environments : context' = [context EXCEPT ![c] = rows[e].by]
  /\ Goto(c, "investigating")
  /\ UNCHANGED <<connect, rows, event, held, claims, incidents, moved, faults>>

\* Create reads the environment's row anew and fetches that repository's
\* context.  Without it, it goes on.
CollectContext(c) ==
  /\ pc[c] = "creating"
  /\ context' \in {context, [context EXCEPT ![c] = rows[EnvOf[held[c]]].by]}
  /\ Goto(c, "investigating")
  /\ UNCHANGED <<connect, rows, event, held, claims, incidents, moved, faults>>

\* The investigation has ended and its incident is saved.
SaveIncident(c) ==
  /\ pc[c] = "investigating"
  /\ incidents' = incidents \cup
       {[call |-> c, env |-> EnvOf[held[c]], context |-> context[c]]}
  /\ Goto(c, "saved")
  /\ UNCHANGED <<connect, rows, event, held, context, claims, moved, faults>>

\* The incident is remembered, or an error of the memory noted in it.
Remember(c) ==
  /\ pc[c] = "saved"
  /\ Goto(c, "created")
  /\ UNCHANGED <<connect, rows, event, held, context, claims, incidents, moved, faults>>

\* The investigation reaches its host over SSH, and the host stops answering
\* in a handshake, which no time limit and no hanging up of the caller ends.
HostHangs(c) ==
  /\ pc[c] = "investigating"
  /\ Goto(c, "hung")
  /\ UNCHANGED <<connect, rows, event, held, context, claims, incidents, moved, faults>>

\* An error of the database, of the investigation, or the caller's hanging up
\* ends the call; what was claimed stays claimed.
CallFails(c) ==
  /\ pc[c] \in {"found", "verified", "claimed", "creating", "investigating"}
  /\ Fault
  /\ Goto(c, "refused")
  /\ UNCHANGED <<connect, rows, event, held, context, claims, incidents, moved>>

\* The control plane stops.
Crash ==
  /\ Fault
  /\ pc' = [c \in Calls |-> IF pc[c] \in AtWork THEN "lost" ELSE pc[c]]
  /\ connect' = [k \in Setups |-> IF connect[k] = "stored" THEN "failed" ELSE connect[k]]
  /\ UNCHANGED <<rows, event, held, context, claims, incidents, moved>>

-----------------------------------------------------------------------------
Connecting(k) == StoreSecret(k) \/ SaveIntegration(k) \/ ConnectFails(k)

Processing(c) ==
  Verify(c) \/ Claim(c) \/ Examine(c) \/ CollectContext(c) \/ SaveIncident(c) \/ Remember(c)

Next ==
  \/ \E k \in Setups : Connecting(k)
  \/ \E c \in Calls : Send(c) \/ Find(c) \/ Processing(c) \/ HostHangs(c) \/ CallFails(c)
  \/ Crash

Spec == Init /\ [][Next]_vars

(* A handler that has begun runs to its end, unless its host hangs.  Nothing
   obliges GitHub to call again, or a user to connect. *)
FairSpec == Spec /\ \A c \in Calls : WF_vars(Processing(c))

-----------------------------------------------------------------------------
(* Properties *)

\* A delivery opens at most one incident, however often GitHub repeats it and
\* over however many hooks, with calls at once, failures between claim and
\* incident, and restarts.
IncidentOncePerDelivery ==
  \A i, j \in incidents : DeliveryOf[i.call] = DeliveryOf[j.call] => i = j

\* A webhook incident is opened for the environment whose secret signed the
\* delivery and whose path it came in on, and only by a failed run of the
\* repository that secret's setup connected, although the row is read first,
\* checked later, used later still, and may be reconnected in between.
IncidentIsEarned ==
  \A i \in incidents :
    LET ev == EventOf(i.call) IN
    /\ ev.kind = "failed_run"
    /\ ev.repo = RepoOf[ev.secret]
    /\ i.env = EnvOf[ev.secret]
    /\ i.env = EnvOf[ev.path]

\* Process reads the integration row and Create reads it again much later:
\* the repository evidence of an incident is of the repository whose run
\* failed, unless the environment was reconnected during the call.
EvidenceIsOfTheFailedRun ==
  \A i \in incidents :
    i.context # None /\ i.call \notin moved => RepoOf[i.context] = EventOf(i.call).repo

\* A failed run of the repository the call's row is connected to.
Reportable(c) ==
  EventOf(c).kind = "failed_run" /\ EventOf(c).repo = RepoOf[held[c]]

\* Without a fault, a call is answered "duplicate" only if another call of the
\* delivery, over whichever hook, is still processing it, or has opened its
\* incident, or found nothing in it to report.
DuplicateIsCovered ==
  faults = 0 => \A c \in Calls : pc[c] = "duplicate" =>
    LET b == claims[DeliveryOf[c]] IN
    /\ b \in Calls /\ b # c
    /\ pc[b] \in {"ignored", "refused"} => ~ Reportable(b)
    /\ pc[b] = "created" => \E i \in incidents : i.call = b

\* A claimed failed run gets its incident, unless a fault strikes or the host
\* it is investigated on hangs.
ClaimedRunsOpenIncidents ==
  \A c \in Calls : pc[c] = "claimed" /\ Reportable(c) ~>
    faults > 0 \/ pc[c] = "hung" \/ \E i \in incidents : i.call = c

-----------------------------------------------------------------------------
(* The inductive invariant behind the safety properties. *)

\* A row's id and its fields are of setups of its own environment.
RowsAreOwn ==
  \A e \in Environments :
    rows[e] # NoRow => EnvOf[rows[e].id] = e /\ EnvOf[rows[e].by] = e

\* A call past the look-up holds a setup of the environment of its path.
HeldIsFound ==
  \A c \in Calls :
    /\ pc[c] # "idle" => EventOf(c) # NoEvent
    /\ pc[c] \in AtWork \cup {"created"} => held[c] \in Setups
    /\ held[c] # None => EventOf(c) # NoEvent /\ EnvOf[held[c]] = EnvOf[EventOf(c).path]

PastClaim == {"claimed", "creating", "investigating", "hung", "saved", "created"}

\* Where a call is tells what it checked, and whose claim it works under.
ChecksFollowPlaces ==
  \A c \in Calls :
    /\ pc[c] \in {"verified"} \cup PastClaim => EventOf(c).secret = held[c]
    /\ pc[c] \in PastClaim => claims[DeliveryOf[c]] = c
    /\ pc[c] \in PastClaim \ {"claimed"} => Reportable(c)
    /\ pc[c] \in {"idle", "found", "verified", "claimed", "creating"} => context[c] = None

\* A call at work that nobody reconnected under still holds what the row has.
UnmovedIsCurrent ==
  \A c \in Calls \ moved :
    /\ pc[c] \in AtWork => rows[EnvOf[held[c]]].by = held[c]
    /\ context[c] # None => context[c] = held[c]

IncidentsFollowCalls ==
  \A i \in incidents :
    /\ claims[DeliveryOf[i.call]] = i.call
    /\ pc[i.call] \in {"saved", "created", "lost"}
    /\ held[i.call] \in Setups
    /\ EventOf(i.call) # NoEvent
    /\ i = [call |-> i.call, env |-> EnvOf[held[i.call]], context |-> context[i.call]]
    /\ EventOf(i.call).secret = held[i.call] /\ Reportable(i.call)

\* A claim stands for a call of its delivery that got past it, and an answer
\* that mentions an incident or an earlier call has one to show for it.
ClaimsAreAnswered ==
  /\ \A d \in Deliveries : claims[d] # None =>
       /\ DeliveryOf[claims[d]] = d
       /\ pc[claims[d]] \in PastClaim \cup {"ignored", "refused", "lost"}
       /\ faults = 0 /\ pc[claims[d]] \in {"ignored", "refused"} => ~ Reportable(claims[d])
  /\ \A c \in Calls : pc[c] = "duplicate" => claims[DeliveryOf[c]] # None
  /\ \A c \in Calls : pc[c] \in {"saved", "created"} => \E i \in incidents : i.call = c

\* What the rows, the calls under way, the claims and the incidents agree on
\* between any two steps.
IInv ==
  /\ TypeOK
  /\ RowsAreOwn
  /\ HeldIsFound
  /\ ChecksFollowPlaces
  /\ UnmovedIsCurrent
  /\ IncidentsFollowCalls
  /\ ClaimsAreAnswered

-----------------------------------------------------------------------------
(* What the product says, and a second setup or a fault refutes. *)

\* "Configure a GitHub webhook ... Webhook path ... Webhook secret": the setup
\* an environment was connected with last is found under the path it handed out.
SetupPathWorks ==
  \A k \in HandedOut : rows[EnvOf[k]].by = k => rows[EnvOf[k]].id = k

\* "Failed workflow -> incident": a repeated delivery of a failed run is not
\* turned away while it has no incident and no call that works on one.
RedeliveryRecovers ==
  \A c \in Calls : pc[c] = "duplicate" /\ Reportable(c) =>
    \/ \E i \in incidents : DeliveryOf[i.call] = DeliveryOf[c]
    \/ \E b \in Calls : DeliveryOf[b] = DeliveryOf[c] /\ pc[b] \in AtWork

=============================================================================
