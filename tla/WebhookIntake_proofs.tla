------------------------ MODULE WebhookIntake_proofs ------------------------
(***************************************************************************)
(* Proofs about WebhookIntake, for any environments, repositories, setups, *)
(* deliveries and calls, and any number of faults.                         *)
(***************************************************************************)
EXTENDS WebhookIntake, TLAPS

-----------------------------------------------------------------------------
(* Type correctness *)

LEMMA FaultType == ASSUME faults \in 0 .. MaxFaults, Fault \/ UNCHANGED faults
                   PROVE  faults' \in 0 .. MaxFaults /\ (faults' = 0 => faults = 0)
BY FaultsAssumption DEF Fault

LEMMA GotoType ==
  ASSUME TypeOK, NEW c \in Calls, NEW place \in AtWork \cup Answers, Goto(c, place)
  PROVE  /\ pc' \in [Calls -> {"idle"} \cup AtWork \cup Answers]
         /\ pc'[c] = place
         /\ \A b \in Calls : b # c => pc'[b] = pc[b]
BY DEF TypeOK, Goto

\* Either a call was not sent or all it carries is known.
LEMMA EventType ==
  ASSUME TypeOK, NEW c \in Calls, EventOf(c) # NoEvent
  PROVE  EventOf(c) \in Event
BY DEF TypeOK, EventOf

\* A row that is there has an id and fields.
LEMMA RowType ==
  ASSUME TypeOK, NEW e \in Environments, rows[e] # NoRow
  PROVE  rows[e].id \in Setups /\ rows[e].by \in Setups
BY DEF TypeOK

LEMMA InitType == Init => TypeOK
BY FaultsAssumption DEF Init, TypeOK, NoRow, NoEvent, AtWork, Answers

LEMMA NextType == ASSUME TypeOK, HeldIsFound, [Next]_vars PROVE TypeOK'
<1>1. ASSUME NEW k \in Setups, StoreSecret(k) PROVE TypeOK'
  BY <1>1 DEF TypeOK, StoreSecret
<1>2. ASSUME NEW k \in Setups, SaveIntegration(k) PROVE TypeOK'
  <2>1. EnvOf[k] \in Environments
    BY SetupsAssumption
  <2>2. rows' \in [Environments -> [id : Setups, by : Setups] \cup {NoRow}]
    BY <1>2, <2>1, RowType DEF TypeOK, SaveIntegration
  <2>3. /\ connect' \in [Setups -> {"idle", "stored", "returned", "failed"}]
        /\ faults' \in 0 .. MaxFaults
    BY <1>2, FaultType DEF TypeOK, SaveIntegration
  <2>. QED BY <1>2, <2>2, <2>3 DEF TypeOK, SaveIntegration
<1>3. ASSUME NEW k \in Setups, ConnectFails(k) PROVE TypeOK'
  BY <1>3, FaultType DEF TypeOK, ConnectFails
<1>4. ASSUME NEW c \in Calls, Send(c) PROVE TypeOK'
  <2>1. PICK path \in HandedOut, secret \in HandedOut, repo \in Repos, kind \in Kinds :
          event' = [event EXCEPT ![c] =
                      [path |-> path, secret |-> secret, repo |-> repo, kind |-> kind]]
    BY <1>4 DEF Send
  <2>2. [path |-> path, secret |-> secret, repo |-> repo, kind |-> kind] \in Event
    BY DEF HandedOut, Event
  <2>. QED BY <1>4, <2>1, <2>2 DEF TypeOK, Send
<1>5. ASSUME NEW c \in Calls, Find(c) PROVE TypeOK'
  <2>1. CASE \A e \in Environments : rows[e].id # EventOf(c).path
    BY <1>5, <2>1, GotoType DEF TypeOK, Find, AtWork, Answers
  <2>2. CASE \E e \in Environments :
               /\ rows[e].id = EventOf(c).path
               /\ held' = [held EXCEPT ![c] = rows[e].by]
               /\ Goto(c, "found")
    <3>1. PICK e \in Environments :
            /\ held' = [held EXCEPT ![c] = rows[e].by]
            /\ Goto(c, "found")
      BY <2>2
    <3>2. rows[e].by \in Setups \cup {None}
      BY RowType DEF NoRow
    <3>. QED BY <1>5, <3>1, <3>2, GotoType DEF TypeOK, Find, AtWork
  <2>. QED BY <1>5, <2>1, <2>2 DEF Find
<1>6. ASSUME NEW c \in Calls, Processing(c) PROVE TypeOK'
  <2>1. CASE Verify(c)
    BY <2>1, GotoType DEF TypeOK, Verify, AtWork, Answers
  <2>2. CASE Claim(c)
    <3>1. pc' \in [Calls -> {"idle"} \cup AtWork \cup Answers]
      BY <2>2, GotoType DEF Claim, AtWork, Answers
    <3>2. claims' \in [Deliveries -> Calls \cup {None}]
      BY <2>2, CallsAssumption DEF TypeOK, Claim
    <3>3. faults' \in 0 .. MaxFaults
      BY <2>2, FaultType DEF TypeOK, Claim
    <3>. QED BY <2>2, <3>1, <3>2, <3>3 DEF TypeOK, Claim
  <2>3. CASE Examine(c)
    BY <2>3, GotoType DEF TypeOK, Examine, AtWork, Answers
  <2>4. CASE CollectContext(c)
    <3>1. EnvOf[held[c]] \in Environments
      BY <2>4, SetupsAssumption DEF HeldIsFound, CollectContext, AtWork
    <3>2. rows[EnvOf[held[c]]].by \in Setups \cup {None}
      BY <3>1, RowType DEF NoRow
    <3>. QED BY <2>4, <3>2, GotoType DEF TypeOK, CollectContext, AtWork
  <2>5. CASE SaveIncident(c)
    <3>1. EnvOf[held[c]] \in Environments
      BY <2>5, SetupsAssumption DEF HeldIsFound, SaveIncident, AtWork
    <3>2. [call |-> c, env |-> EnvOf[held[c]], context |-> context[c]] \in Incident
      BY <3>1 DEF TypeOK, Incident
    <3>. QED BY <2>5, <3>2, GotoType DEF TypeOK, SaveIncident, AtWork
  <2>6. CASE Remember(c)
    BY <2>6, GotoType DEF TypeOK, Remember, Answers
  <2>. QED BY <1>6, <2>1, <2>2, <2>3, <2>4, <2>5, <2>6 DEF Processing
<1>7. ASSUME NEW c \in Calls, CallFails(c) PROVE TypeOK'
  BY <1>7, GotoType, FaultType DEF TypeOK, CallFails, Answers
<1>8. CASE Crash
  BY <1>8, FaultType DEF TypeOK, Crash, Answers
<1>9. CASE UNCHANGED vars
  BY <1>9 DEF TypeOK, vars
<1>10. ASSUME NEW c \in Calls, HostHangs(c) PROVE TypeOK'
  BY <1>10, GotoType DEF TypeOK, HostHangs, AtWork
<1>. QED
  BY <1>1, <1>2, <1>3, <1>4, <1>5, <1>6, <1>7, <1>8, <1>9, <1>10 DEF Next, Connecting

-----------------------------------------------------------------------------
(* The invariant *)

LEMMA InitInvariant == Init => IInv
<1>. SUFFICES ASSUME Init PROVE IInv
  OBVIOUS
<1>1. RowsAreOwn /\ HeldIsFound /\ ChecksFollowPlaces
  BY DEF Init, RowsAreOwn, HeldIsFound, ChecksFollowPlaces, AtWork, PastClaim
<1>2. UnmovedIsCurrent /\ IncidentsFollowCalls /\ ClaimsAreAnswered
  BY CallsAssumption DEF Init, UnmovedIsCurrent, IncidentsFollowCalls, ClaimsAreAnswered, AtWork
<1>. QED BY <1>1, <1>2, InitType DEF IInv

\* Connecting changes rows only, and marks the calls it moves.
LEMMA ConnectStep ==
  ASSUME IInv, NEW k \in Setups, Connecting(k)
  PROVE  IInv'
<1>1. TypeOK'
  BY NextType DEF Next, IInv
<1>2. UNCHANGED <<event, pc, held, context, claims, incidents>>
  BY DEF Connecting, StoreSecret, SaveIntegration, ConnectFails
<1>3. HeldIsFound' /\ ChecksFollowPlaces' /\ IncidentsFollowCalls'
  BY <1>2 DEF IInv, HeldIsFound, ChecksFollowPlaces, IncidentsFollowCalls, EventOf, Reportable
<1>4. faults' = 0 => faults = 0
  BY FaultType DEF IInv, TypeOK, Connecting, StoreSecret, SaveIntegration, ConnectFails
<1>5. ClaimsAreAnswered'
  BY <1>2, <1>4 DEF IInv, ClaimsAreAnswered, EventOf, Reportable
<1>6. CASE UNCHANGED <<rows, moved>>
  BY <1>1, <1>2, <1>3, <1>5, <1>6 DEF IInv, RowsAreOwn, UnmovedIsCurrent
<1>7. CASE SaveIntegration(k)
  <2>1. RowsAreOwn'
    BY <1>7, RowType DEF IInv, RowsAreOwn, SaveIntegration, TypeOK, NoRow
  <2>2. UnmovedIsCurrent'
    BY <1>2, <1>7, NoneAssumption, SetupsAssumption
       DEF IInv, UnmovedIsCurrent, SaveIntegration, TypeOK, HeldIsFound
  <2>. QED BY <1>1, <1>3, <1>5, <2>1, <2>2 DEF IInv
<1>. QED BY <1>6, <1>7 DEF Connecting, StoreSecret, ConnectFails

\* A call is sent only once, so its handler has not begun.
LEMMA SendStep ==
  ASSUME IInv, NEW c \in Calls, Send(c)
  PROVE  IInv'
<1>1. TypeOK'
  BY NextType DEF Next, IInv
<1>2. UNCHANGED <<rows, pc, held, context, claims, incidents, moved, faults>>
  BY DEF Send
<1>3. \A b \in Calls : EventOf(b) # NoEvent => EventOf(b)' = EventOf(b)
  BY DEF Send, EventOf, IInv, TypeOK
<1>4. RowsAreOwn' /\ UnmovedIsCurrent'
  BY <1>2 DEF IInv, RowsAreOwn, UnmovedIsCurrent
<1>5. HeldIsFound'
  BY <1>2, <1>3 DEF IInv, HeldIsFound
<1>6. ChecksFollowPlaces'
  BY <1>2, <1>3 DEF IInv, ChecksFollowPlaces, HeldIsFound, Reportable, PastClaim, AtWork
<1>7. IncidentsFollowCalls'
  BY <1>2, <1>3 DEF IInv, IncidentsFollowCalls, Reportable, TypeOK, Incident
<1>8. ClaimsAreAnswered'
  BY <1>2, <1>3 DEF IInv, ClaimsAreAnswered, HeldIsFound, Reportable, PastClaim, TypeOK
<1>. QED BY <1>1, <1>4, <1>5, <1>6, <1>7, <1>8 DEF IInv

\* The row a call finds is of the environment of its path.
LEMMA FindStep ==
  ASSUME IInv, NEW c \in Calls, Find(c)
  PROVE  IInv'
<1>1. TypeOK'
  BY NextType DEF Next, IInv
<1>2. /\ UNCHANGED <<rows, event, context, claims, incidents, moved, faults>>
      /\ pc[c] = "idle" /\ EventOf(c) # NoEvent
      /\ \A b \in Calls : b # c => pc'[b] = pc[b] /\ held'[b] = held[b]
      /\ pc'[c] \in {"found", "refused"}
  BY GotoType DEF Find, IInv, TypeOK, Goto
<1>3. \/ pc'[c] = "refused" /\ held' = held
      \/ \E e \in Environments :
           /\ pc'[c] = "found" /\ held'[c] = rows[e].by
           /\ rows[e].id = EventOf(c).path /\ EventOf(c) # NoEvent
           /\ rows[e] # NoRow
           /\ EnvOf[rows[e].by] = e /\ EnvOf[EventOf(c).path] = e /\ rows[e].by \in Setups
  <2>1. CASE pc'[c] = "refused"
    BY <2>1 DEF Find, Goto, IInv, TypeOK
  <2>2. CASE pc'[c] = "found"
    <3>1. PICK e \in Environments :
            rows[e].id = EventOf(c).path /\ held' = [held EXCEPT ![c] = rows[e].by]
      BY <2>2 DEF Find, Goto, IInv, TypeOK
    <3>2. EventOf(c) # NoEvent /\ EventOf(c).path \in Setups
      BY EventType DEF Find, IInv, Event
    <3>3. rows[e] # NoRow
      BY <3>1, <3>2, NoneAssumption DEF NoRow
    <3>. QED BY <2>2, <3>1, <3>2, <3>3, RowType DEF IInv, RowsAreOwn, TypeOK
  <2>. QED BY <1>2, <2>1, <2>2
<1>4. RowsAreOwn'
  BY <1>2 DEF IInv, RowsAreOwn
<1>5. HeldIsFound'
  BY <1>2, <1>3 DEF IInv, HeldIsFound, EventOf, AtWork
<1>6. ChecksFollowPlaces'
  BY <1>2, <1>3 DEF IInv, ChecksFollowPlaces, EventOf, Reportable, PastClaim
<1>7. UnmovedIsCurrent'
  BY <1>2, <1>3 DEF IInv, UnmovedIsCurrent, ChecksFollowPlaces, AtWork
<1>8. \A i \in incidents : i.call # c
  BY <1>2 DEF IInv, IncidentsFollowCalls
<1>9. IncidentsFollowCalls'
  BY <1>2, <1>8 DEF IInv, IncidentsFollowCalls, EventOf, Reportable, TypeOK, Incident
<1>10. \A d \in Deliveries : claims[d] # c
  BY <1>2, NoneAssumption DEF IInv, ClaimsAreAnswered, PastClaim
<1>11. ClaimsAreAnswered'
  BY <1>2, <1>10 DEF IInv, ClaimsAreAnswered, EventOf, Reportable, TypeOK
<1>. QED BY <1>1, <1>4, <1>5, <1>6, <1>7, <1>9, <1>11 DEF IInv

\* A call past its look-up moves to a place it has earned, without changing a
\* row, an incident or a claim.
LEMMA QuietStep ==
  ASSUME IInv, TypeOK', NEW c \in Calls, NEW place \in AtWork \cup Answers, Goto(c, place),
         UNCHANGED <<rows, event, held, context, claims, incidents, moved>>,
         faults' = 0 => faults = 0,
         pc[c] \in AtWork,
         \A i \in incidents : i.call = c => place \in {"saved", "created", "lost"},
         place \in {"verified"} \cup PastClaim => EventOf(c).secret = held[c],
         place \in PastClaim => claims[DeliveryOf[c]] = c,
         place \in PastClaim \ {"claimed"} => Reportable(c),
         place \in {"found", "verified", "claimed", "creating"} => context[c] = None,
         pc[c] \in PastClaim => place \in PastClaim \cup {"ignored", "refused", "lost"},
         faults' = 0 /\ claims[DeliveryOf[c]] = c /\ place \in {"ignored", "refused"} => ~ Reportable(c),
         place = "duplicate" => claims[DeliveryOf[c]] # None,
         place \in {"saved", "created"} => \E i \in incidents : i.call = c
  PROVE  IInv'
<1>1. /\ pc'[c] = place
      /\ \A b \in Calls : b # c => pc'[b] = pc[b]
  BY GotoType DEF IInv
<1>2. RowsAreOwn'
  BY DEF IInv, RowsAreOwn
<1>3. HeldIsFound'
  BY <1>1 DEF IInv, HeldIsFound, EventOf, AtWork
<1>4. ChecksFollowPlaces'
  BY <1>1 DEF IInv, ChecksFollowPlaces, EventOf, Reportable, AtWork, Answers
<1>5. UnmovedIsCurrent'
  BY <1>1 DEF IInv, UnmovedIsCurrent
<1>6. IncidentsFollowCalls'
  BY <1>1 DEF IInv, IncidentsFollowCalls, EventOf, Reportable, TypeOK, Incident
<1>7. \A d \in Deliveries : claims[d] = c => pc[c] \in PastClaim /\ d = DeliveryOf[c]
  BY NoneAssumption DEF IInv, ClaimsAreAnswered, AtWork
<1>8. ClaimsAreAnswered'
  BY <1>1, <1>7, CallsAssumption DEF IInv, ClaimsAreAnswered, EventOf, Reportable, TypeOK
<1>. QED BY <1>2, <1>3, <1>4, <1>5, <1>6, <1>8 DEF IInv

\* Before its claim and before its incident a call has neither.
LEMMA NothingYet ==
  ASSUME IInv, NEW c \in Calls
  PROVE  /\ pc[c] \in {"found", "verified"} => claims[DeliveryOf[c]] # c
         /\ pc[c] \in {"found", "verified", "claimed", "creating", "investigating"} =>
              \A i \in incidents : i.call # c
<1>1. pc[c] \in {"found", "verified"} => claims[DeliveryOf[c]] # c
  BY NoneAssumption, CallsAssumption DEF IInv, ClaimsAreAnswered, PastClaim
<1>2. pc[c] \in {"found", "verified", "claimed", "creating", "investigating"} =>
        \A i \in incidents : i.call # c
  BY DEF IInv, IncidentsFollowCalls
<1>. QED BY <1>1, <1>2

\* The insert makes the call the delivery's only processor.
LEMMA ClaimStep ==
  ASSUME IInv, NEW c \in Calls, Claim(c)
  PROVE  IInv'
<1>1. TypeOK'
  BY NextType DEF Next, Processing, IInv
<1>2. CASE claims[DeliveryOf[c]] # None
  BY <1>1, <1>2, NothingYet, QuietStep DEF Claim, AtWork, Answers, PastClaim
<1>3. CASE claims[DeliveryOf[c]] = None
  <2>1. /\ UNCHANGED <<rows, event, held, context, incidents, moved>>
        /\ claims' = [claims EXCEPT ![DeliveryOf[c]] = c]
        /\ pc[c] = "verified"
        /\ pc'[c] \in {"claimed", "refused"}
        /\ faults' = 0 => faults = 0 /\ pc'[c] = "claimed"
        /\ \A b \in Calls : b # c => pc'[b] = pc[b]
    BY <1>3, GotoType, FaultsAssumption DEF Claim, IInv, TypeOK, AtWork, Answers, Goto, Fault
  <2>2. /\ claims'[DeliveryOf[c]] = c
        /\ \A d \in Deliveries : d # DeliveryOf[c] => claims'[d] = claims[d]
    BY <2>1, CallsAssumption DEF IInv, TypeOK
  <2>3. RowsAreOwn'
    BY <2>1 DEF IInv, RowsAreOwn
  <2>4. HeldIsFound'
    BY <2>1 DEF IInv, HeldIsFound, EventOf, AtWork
  <2>5. \A b \in Calls : b # c /\ pc[b] \in PastClaim => claims'[DeliveryOf[b]] = b
    BY <1>3, <2>2, CallsAssumption, NoneAssumption DEF IInv, ChecksFollowPlaces
  <2>6. ChecksFollowPlaces'
    BY <2>1, <2>2, <2>5 DEF IInv, ChecksFollowPlaces, EventOf, Reportable, PastClaim
  <2>7. UnmovedIsCurrent'
    BY <2>1 DEF IInv, UnmovedIsCurrent, AtWork
  <2>8. \A i \in incidents : i.call # c /\ claims'[DeliveryOf[i.call]] = i.call
    BY <1>3, <2>1, <2>2, NothingYet, CallsAssumption, NoneAssumption
       DEF IInv, IncidentsFollowCalls, TypeOK, Incident
  <2>9. IncidentsFollowCalls'
    BY <2>1, <2>8 DEF IInv, IncidentsFollowCalls, EventOf, Reportable, TypeOK, Incident
  <2>10. \A d \in Deliveries : claims[d] # c
    BY <2>1, NoneAssumption DEF IInv, ClaimsAreAnswered, PastClaim
  <2>11. ClaimsAreAnswered'
    BY <2>1, <2>2, <2>10, CallsAssumption, NoneAssumption
       DEF IInv, ClaimsAreAnswered, EventOf, Reportable, TypeOK, PastClaim
  <2>. QED BY <1>1, <2>3, <2>4, <2>6, <2>7, <2>9, <2>11 DEF IInv
<1>. QED BY <1>2, <1>3

LEMMA ProcessingStep ==
  ASSUME IInv, NEW c \in Calls, Processing(c)
  PROVE  IInv'
<1>1. TypeOK'
  BY NextType DEF Next, IInv
<1>2. CASE Verify(c)
  BY <1>1, <1>2, NothingYet, QuietStep
     DEF Verify, AtWork, Answers, PastClaim, IInv, ChecksFollowPlaces
<1>3. CASE Claim(c)
  BY <1>3, ClaimStep
<1>4. CASE Examine(c)
  <2>1. PICK place \in {"ignored", "refused", "creating"} :
          /\ Goto(c, place)
          /\ place = "creating" <=> Reportable(c)
    <3>1. EventOf(c).kind \in Kinds
      BY <1>4, EventType DEF Examine, IInv, HeldIsFound, AtWork, Event
    <3>. QED BY <1>4, <3>1 DEF Examine, Reportable, Kinds
  <2>. QED BY <1>1, <1>4, <2>1, NothingYet, QuietStep
       DEF Examine, AtWork, Answers, PastClaim, IInv, ChecksFollowPlaces
<1>5. CASE CollectContext(c)
  <2>1. /\ UNCHANGED <<rows, event, held, claims, incidents, moved, faults>>
        /\ pc[c] = "creating" /\ pc'[c] = "investigating"
        /\ \A b \in Calls : b # c => pc'[b] = pc[b] /\ context'[b] = context[b]
        /\ context'[c] \in {None, rows[EnvOf[held[c]]].by}
    BY <1>5, GotoType DEF CollectContext, IInv, TypeOK, AtWork, ChecksFollowPlaces
  <2>2. RowsAreOwn' /\ HeldIsFound' /\ ChecksFollowPlaces'
    BY <2>1 DEF IInv, RowsAreOwn, HeldIsFound, ChecksFollowPlaces, EventOf, Reportable,
                AtWork, PastClaim
  <2>3. UnmovedIsCurrent'
    BY <2>1 DEF IInv, UnmovedIsCurrent, AtWork
  <2>4. IncidentsFollowCalls'
    BY <2>1, NothingYet DEF IInv, IncidentsFollowCalls, EventOf, Reportable, TypeOK, Incident
  <2>5. ClaimsAreAnswered'
    BY <2>1 DEF IInv, ClaimsAreAnswered, EventOf, Reportable, TypeOK, PastClaim
  <2>. QED BY <1>1, <2>2, <2>3, <2>4, <2>5 DEF IInv
<1>6. CASE SaveIncident(c)
  <2>1. /\ UNCHANGED <<rows, event, held, context, claims, moved, faults>>
        /\ incidents' = incidents \cup
             {[call |-> c, env |-> EnvOf[held[c]], context |-> context[c]]}
        /\ pc[c] = "investigating" /\ pc'[c] = "saved"
        /\ \A b \in Calls : b # c => pc'[b] = pc[b]
    BY <1>6, GotoType DEF SaveIncident, IInv, AtWork
  <2>2. RowsAreOwn' /\ HeldIsFound' /\ ChecksFollowPlaces' /\ UnmovedIsCurrent'
    BY <2>1 DEF IInv, RowsAreOwn, HeldIsFound, ChecksFollowPlaces, UnmovedIsCurrent, EventOf,
                Reportable, AtWork, PastClaim
  <2>3. /\ claims[DeliveryOf[c]] = c /\ held[c] \in Setups /\ EventOf(c) # NoEvent
        /\ EventOf(c).secret = held[c] /\ Reportable(c)
    BY <2>1 DEF IInv, HeldIsFound, ChecksFollowPlaces, AtWork, PastClaim
  <2>4. IncidentsFollowCalls'
    BY <2>1, <2>3, NothingYet
       DEF IInv, IncidentsFollowCalls, EventOf, Reportable, TypeOK, Incident
  <2>5. (\E i \in incidents' : i.call = c) /\ incidents \subseteq incidents'
    <3>. DEFINE i == [call |-> c, env |-> EnvOf[held[c]], context |-> context[c]]
    <3>1. i \in incidents' /\ i.call = c
      BY <2>1
    <3>. QED BY <2>1, <3>1
  <2>6. \A b \in Calls : pc'[b] \in {"saved", "created"} => \E i \in incidents' : i.call = b
    BY <2>1, <2>5 DEF IInv, ClaimsAreAnswered
  <2>7. ClaimsAreAnswered'
    BY <2>1, <2>6 DEF IInv, ClaimsAreAnswered, EventOf, Reportable, TypeOK, PastClaim
  <2>. QED BY <1>1, <2>2, <2>4, <2>7 DEF IInv
<1>7. CASE Remember(c)
  BY <1>1, <1>7, QuietStep
     DEF Remember, AtWork, Answers, PastClaim, IInv, ChecksFollowPlaces, ClaimsAreAnswered
<1>. QED BY <1>2, <1>3, <1>4, <1>5, <1>6, <1>7 DEF Processing

LEMMA CrashStep == ASSUME IInv, Crash PROVE IInv'
<1>1. TypeOK'
  BY NextType DEF Next, IInv
<1>2. /\ UNCHANGED <<rows, event, held, context, claims, incidents, moved>>
      /\ faults' # 0
      /\ \A c \in Calls : pc'[c] = IF pc[c] \in AtWork THEN "lost" ELSE pc[c]
  BY FaultsAssumption DEF Crash, Fault, IInv, TypeOK
<1>3. RowsAreOwn' /\ HeldIsFound' /\ ChecksFollowPlaces' /\ UnmovedIsCurrent'
  BY <1>2 DEF IInv, RowsAreOwn, HeldIsFound, ChecksFollowPlaces, UnmovedIsCurrent, EventOf,
              Reportable, AtWork, PastClaim
<1>4. IncidentsFollowCalls'
  BY <1>2 DEF IInv, IncidentsFollowCalls, EventOf, Reportable, AtWork, TypeOK, Incident
<1>5. ClaimsAreAnswered'
  BY <1>2 DEF IInv, ClaimsAreAnswered, EventOf, Reportable, AtWork, PastClaim, TypeOK
<1>. QED BY <1>1, <1>3, <1>4, <1>5 DEF IInv

LEMMA NextInvariant == ASSUME IInv, [Next]_vars PROVE IInv'
<1>1. ASSUME NEW c \in Calls, CallFails(c) PROVE IInv'
  <2>1. TypeOK'
    BY <1>1, NextType DEF Next, IInv
  <2>2. faults' # 0
    BY <1>1, FaultsAssumption DEF CallFails, Fault, IInv, TypeOK
  <2>. QED BY <1>1, <2>1, <2>2, NothingYet, QuietStep DEF CallFails, AtWork, Answers, PastClaim
<1>2. ASSUME NEW c \in Calls, HostHangs(c) PROVE IInv'
  <2>1. TypeOK'
    BY <1>2, NextType DEF Next, IInv
  <2>. QED BY <1>2, <2>1, NothingYet, QuietStep
           DEF HostHangs, AtWork, Answers, PastClaim, IInv, ChecksFollowPlaces
<1>3. CASE UNCHANGED vars
  BY <1>3 DEF vars, IInv, TypeOK, RowsAreOwn, HeldIsFound, ChecksFollowPlaces,
              UnmovedIsCurrent, IncidentsFollowCalls, ClaimsAreAnswered, EventOf, Reportable
<1>. QED BY <1>1, <1>2, <1>3, ConnectStep, SendStep, FindStep, ProcessingStep, CrashStep DEF Next

\* The inductive invariant holds in every reachable state.
THEOREM Invariance == Spec => []IInv
BY InitInvariant, NextInvariant, PTL DEF Spec

-----------------------------------------------------------------------------
(* What follows from it *)

\* Every variable keeps its type.
THEOREM TypeCorrect == Spec => []TypeOK
<1>1. IInv => TypeOK
  BY DEF IInv
<1>. QED BY <1>1, Invariance, PTL

\* A delivery opens at most one incident, through any repetitions, hooks and
\* crashes.
THEOREM OncePerDelivery == Spec => []IncidentOncePerDelivery
<1>1. IInv => IncidentOncePerDelivery
  BY DEF IInv, IncidentsFollowCalls, IncidentOncePerDelivery
<1>. QED BY <1>1, Invariance, PTL

\* Incidents stem from failed runs of the repository the signing secret's setup
\* connected, for the environment of that secret and of the path.
THEOREM Earned == Spec => []IncidentIsEarned
<1>1. IInv => IncidentIsEarned
  BY NoneAssumption DEF IInv, IncidentsFollowCalls, HeldIsFound, IncidentIsEarned, Reportable,
     TypeOK, Incident
<1>. QED BY <1>1, Invariance, PTL

\* An incident's repository evidence is of the run's repository unless the
\* environment was reconnected while the call was at work.
THEOREM RightEvidence == Spec => []EvidenceIsOfTheFailedRun
<1>1. IInv => EvidenceIsOfTheFailedRun
  BY DEF IInv, IncidentsFollowCalls, UnmovedIsCurrent, EvidenceIsOfTheFailedRun, Reportable,
     TypeOK, Incident
<1>. QED BY <1>1, Invariance, PTL

\* Without a fault a "duplicate" has an original that is at work, has opened
\* its incident or found nothing to report.
THEOREM Covered == Spec => []DuplicateIsCovered
<1>1. IInv => DuplicateIsCovered
  BY CallsAssumption, NoneAssumption
     DEF IInv, ClaimsAreAnswered, DuplicateIsCovered, TypeOK, PastClaim
<1>. QED BY <1>1, Invariance, PTL

=============================================================================
