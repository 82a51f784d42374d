-------------------------- MODULE FrontDoor_proofs --------------------------
(***************************************************************************)
(* Proofs about FrontDoor, for any tabs, emails, calls, limits, windows,   *)
(* lifetimes and faults.                                                   *)
(***************************************************************************)
EXTENDS FrontDoor, FiniteSetTheorems, TLAPS

-----------------------------------------------------------------------------
(* The inductive invariant *)

CallsFollow ==
  /\ \A r \in Calls : r > issued => pc[r] = "unsent" /\ who[r] = None
  /\ \A r \in Calls : pc[r] # "unsent" => call[r] \in Call
  /\ \A r \in Calls : call[r].kind \in SignIns \cup {"member"} => call[r].user \in Emails
  /\ \A r \in Calls : pc[r] = "created" => call[r].kind \in SignIns

\* Who a call acts for, and whose a session is, has an account.
UsersExist ==
  /\ \A r \in Calls : pc[r] \in {"authorized", "created", "ok"} => who[r] # None
  /\ \A r \in Calls : pc[r] \in {"sent", "admitted"} => who[r] = None
  /\ \A r \in Calls : call[r].kind = "register" /\ pc[r] = "conflict" => who[r] = None
  /\ \A r \in Calls : who[r] # None => account[who[r]] # None
  /\ \A k \in Tokens : session[k] # NoSession => account[session[k].user] # None

\* An account was there at the start or a call made it.
AccountsHaveMakers ==
  /\ \A u \in Emails : Team[u] # None => account[u] = Team[u]
  /\ \A u \in Emails : account[u] # None /\ Team[u] = None =>
       \E q \in Calls : Creates(q, u) /\ Committed(q)
  /\ \A q \in Calls, u \in Emails : Creates(q, u) /\ Committed(q) => account[u] # None
  /\ \A r \in Calls : pc[r] = "conflict" =>
       call[r].user \in Emails /\ account[call[r].user] # None

\* A token is known only when its sign-in was answered; a logout's is gone with its answer.
TokensFollow ==
  /\ \A r \in Calls : call[r] \in Call /\ call[r].token \in Calls => pc[call[r].token] = "ok"
  /\ \A t \in Tabs : token[t] \in Calls => pc[token[t]] = "ok"
  /\ \A r \in Calls : call[r].kind = "logout" /\ pc[r] = "authorized" => call[r].token \in Tokens
  /\ \A r \in Calls : call[r].kind = "logout" /\ pc[r] = "ok" =>
       call[r].token \in Tokens /\ session[call[r].token] = NoSession

IInv ==
  /\ TypeOK /\ CallsFollow /\ UsersExist /\ AccountsHaveMakers /\ OneCreator /\ MembersBelong
  /\ TokensFollow

-----------------------------------------------------------------------------
(* Types *)

Entry == [windowStart : 0 .. MaxTime, count : Nat]
SessionRow == [user : Emails, expires : Nat] \cup {NoSession}
Place == {"unsent"} \cup AtWork \cup Answers

LEMMA ScenarioTypes ==
  ASSUME TypeOK
  PROVE  /\ scenario.calls \in 0 .. MaxCalls /\ scenario.time \in 1 .. MaxTime
         /\ scenario.limit \in [Scopes -> Nat \ {0}] /\ scenario.faults \in Nat
         /\ scenario.emails \subseteq Emails /\ scenario.tabs \subseteq Tabs
         /\ scenario.does \subseteq Uses
         /\ faults \in 0 .. scenario.faults /\ clock \in 1 .. MaxTime /\ issued \in 0 .. MaxCalls
         /\ MaxCalls \in Nat /\ MaxTime \in Nat \ {0} /\ Lifetime \in Nat \ {0}
<1>1. scenario \in Scenario
  BY ScenarioAssumption DEF TypeOK
<1>. QED BY <1>1, BoundsAssumption DEF TypeOK, Scenario

LEMMA FaultsType ==
  ASSUME TypeOK, UNCHANGED scenario, Fault \/ UNCHANGED faults
  PROVE  faults' \in 0 .. scenario'.faults
BY ScenarioTypes DEF Fault

LEMMA GotoStep ==
  ASSUME TypeOK, NEW r \in Calls, NEW p \in Place, Goto(r, p)
  PROVE  /\ pc' \in [Calls -> Place] /\ pc'[r] = p
         /\ \A q \in Calls : q # r => pc'[q] = pc[q]
BY DEF TypeOK, Goto, Place

\* Whoever sends, works or answers is one of the tabs and calls there are.
LEMMA CallTypes ==
  ASSUME TypeOK, NEW r \in Calls, call[r] \in Call
  PROVE  /\ call[r].kind \in Kinds /\ call[r].tab \in Tabs /\ Tab(r) \in Tabs
         /\ call[r].user \in Emails \cup {None} /\ call[r].token \in Tokens \cup {None}
         /\ call[r].over \subseteq Calls
         /\ Scope(call[r].kind) \in Scopes /\ AddressOf[call[r].tab] \in Addresses
BY SetsAssumption DEF Call, Tab, Scope, Scopes

LEMMA KindTypes == ASSUME TypeOK, NEW r \in Calls, call[r].kind \in Kinds
                   PROVE  call[r] \in Call
BY DEF TypeOK, NoCall, Kinds

\* A step of the handler of a call, which leaves the calls and the tabs alone.
LEMMA ServeTypes ==
  ASSUME TypeOK, NEW r \in Calls, NEW p \in Place, Goto(r, p),
         UNCHANGED <<scenario, clock, issued, call, told, workspace>>, Fault \/ UNCHANGED faults,
         entries' \in [Scopes -> [Addresses -> Entry]], lastGC' \in [Scopes -> 1 .. MaxTime],
         account' \in [Emails -> Account \cup {None}], session' \in [Tokens -> SessionRow],
         version' \in [Emails -> Nat], who' \in [Calls -> Emails \cup {None}],
         entered' \in [Calls -> [read : 0 .. MaxTime, lock : 0 .. MaxTime, win : 0 .. MaxTime]],
         seen' \in [Calls -> Nat]
  PROVE  TypeOK'
BY GotoStep, FaultsType DEF TypeOK, Entry, SessionRow, Place, workspace

LEMMA EnterTypes ==
  ASSUME TypeOK, CallsFollow, NEW r \in Calls, NEW now \in 1 .. MaxTime, Enter(r, now)
  PROVE  TypeOK'
<1> DEFINE s == Scope(call[r].kind)
           a == AddressOf[call[r].tab]
           entry == Current(Swept(s, now)[a], now)
<1>1. call[r] \in Call /\ s \in Scopes /\ a \in Addresses
  BY CallTypes DEF Enter, CallsFollow
<1>2. now \in 0 .. MaxTime /\ clock \in 0 .. MaxTime /\ NoEntry \in Entry /\ MaxTime \in Nat
  BY ScenarioTypes DEF NoEntry, Entry
<1>3. entries[s] \in [Addresses -> Entry]
  BY <1>1 DEF TypeOK, Entry
<1>4. Collected(entries[s], now) \in [Addresses -> Entry]
  BY <1>2, <1>3 DEF Collected
<1>5. Swept(s, now) \in [Addresses -> Entry]
  BY <1>3, <1>4 DEF Swept
<1>6. Swept(s, now)[a] \in Entry
  BY <1>1, <1>5
<1>7. entry \in Entry
  BY <1>2, <1>6 DEF Current, Entry
<1>8. Counted(entry, Limit[s]) \in Entry
  BY <1>7 DEF Counted, Entry
<1>9. entries' \in [Scopes -> [Addresses -> Entry]]
  <2>1. [Swept(s, now) EXCEPT ![a] = Counted(entry, Limit[s])] \in [Addresses -> Entry]
    BY <1>5, <1>8
  <2>. QED BY <1>1, <2>1 DEF Enter, TypeOK, Entry
<1>10. lastGC' \in [Scopes -> 1 .. MaxTime]
  BY DEF Enter, TypeOK
<1>11. entered' \in [Calls -> [read : 0 .. MaxTime, lock : 0 .. MaxTime, win : 0 .. MaxTime]]
  <2>1. entry.windowStart \in 0 .. MaxTime
    BY <1>7 DEF Entry
  <2>. QED BY <1>2, <2>1 DEF Enter, TypeOK
<1>12. /\ \E p \in Place : Goto(r, p)
       /\ UNCHANGED <<scenario, clock, account, session, version, issued, call, who, seen, told,
                      workspace, faults>>
  BY DEF Enter, Place, AtWork, Answers
<1>. QED BY <1>9, <1>10, <1>11, <1>12, ServeTypes DEF TypeOK, SessionRow

LEMMA WorkTypes ==
  ASSUME TypeOK, CallsFollow, UsersExist, NEW r \in Calls,
         \/ Authenticate(r) \/ Register(r) \/ Login(r) \/ CreateSession(r) \/ CreateMember(r)
         \/ HandleLogout(r) \/ Me(r) \/ List(r) \/ Change(r) \/ HandlerFails(r)
  PROVE  TypeOK'
<1>1. pc[r] \in AtWork /\ call[r] \in Call
  BY DEF Authenticate, Register, Login, CreateSession, CreateMember, HandleLogout, Me, List, Change,
         HandlerFails, Is, AtWork, CallsFollow
<1>2. /\ entries \in [Scopes -> [Addresses -> Entry]] /\ lastGC \in [Scopes -> 1 .. MaxTime]
      /\ account \in [Emails -> Account \cup {None}] /\ session \in [Tokens -> SessionRow]
      /\ version \in [Emails -> Nat] /\ who \in [Calls -> Emails \cup {None}]
      /\ entered \in [Calls -> [read : 0 .. MaxTime, lock : 0 .. MaxTime, win : 0 .. MaxTime]]
      /\ seen \in [Calls -> Nat]
  BY DEF TypeOK, Entry, SessionRow
<1>3. pc[r] = "authorized" => /\ who[r] \in Emails /\ account[who[r]] \in Account
                              /\ Organization(r) \in Emails
  <2>. SUFFICES ASSUME pc[r] = "authorized"
                PROVE  /\ who[r] \in Emails /\ account[who[r]] \in Account
                       /\ Organization(r) \in Emails
    OBVIOUS
  <2>1. who[r] \in Emails /\ account[who[r]] \in Account
    BY <1>2 DEF UsersExist
  <2>. QED BY <2>1 DEF Account, Organization
<1>4. pc[r] = "created" => who[r] \in Emails
  BY <1>2 DEF UsersExist
<1>. USE DEF Is
<1>5. ASSUME NEW u \in Emails, NEW role \in {"owner", "member"}, NEW o \in Emails
      PROVE  [account EXCEPT ![u] = [org |-> o, role |-> role]] \in [Emails -> Account \cup {None}]
  <2>1. [org |-> o, role |-> role] \in Account
    BY <1>5 DEF Account
  <2>. QED BY <1>2, <2>1
<1>6. CASE Authenticate(r)
  <2>1. who' \in [Calls -> Emails \cup {None}]
    <3>1. CASE Valid(call[r].token)
      <4>1. session[call[r].token] \in SessionRow \ {NoSession}
        BY <1>1, <1>2, <3>1, CallTypes DEF Valid
      <4>2. session[call[r].token].user \in Emails
        BY <4>1 DEF SessionRow
      <4>. QED BY <1>2, <1>6, <3>1, <4>2 DEF Authenticate
    <3>. QED BY <1>2, <1>6, <3>1 DEF Authenticate
  <2>2. \E p \in Place : Goto(r, p)
    BY <1>6 DEF Authenticate, Place, AtWork, Answers
  <2>. QED BY <1>2, <1>6, <2>1, <2>2, ServeTypes DEF Authenticate, server
<1>7. CASE Register(r)
  <2>1. call[r].user \in Emails
    BY <1>7 DEF Register, CallsFollow, SignIns
  <2>2. account' \in [Emails -> Account \cup {None}]
    BY <1>2, <1>5, <1>7, <2>1 DEF Register
  <2>3. who' \in [Calls -> Emails \cup {None}]
    BY <1>2, <1>7, <2>1 DEF Register
  <2>4. \E p \in Place : Goto(r, p)
    BY <1>7 DEF Register, Place, AtWork, Answers
  <2>. QED BY <1>2, <1>7, <2>2, <2>3, <2>4, ServeTypes DEF Register
<1>8. CASE Login(r)
  <2>1. call[r].user \in Emails
    BY <1>8 DEF Login, CallsFollow, SignIns
  <2>2. who' \in [Calls -> Emails \cup {None}]
    BY <1>2, <1>8, <2>1 DEF Login
  <2>3. \E p \in Place : Goto(r, p)
    BY <1>8 DEF Login, Place, AtWork, Answers
  <2>. QED BY <1>2, <1>8, <2>2, <2>3, ServeTypes DEF Login, server
<1>9. CASE CreateSession(r)
  <2>1. [user |-> who[r], expires |-> clock + Lifetime] \in SessionRow
    BY <1>4, <1>9, ScenarioTypes DEF CreateSession, SessionRow
  <2>2. session' \in [Tokens -> SessionRow]
    BY <1>2, <1>9, <2>1 DEF CreateSession
  <2>3. Goto(r, "ok") /\ "ok" \in Place
    BY <1>9 DEF CreateSession, Place, AtWork, Answers
  <2>. QED BY <1>2, <1>9, <2>2, <2>3, ServeTypes DEF CreateSession
<1>10. CASE CreateMember(r)
  <2>1. call[r].user \in Emails
    BY <1>10 DEF CreateMember, CallsFollow
  <2>2. account' \in [Emails -> Account \cup {None}]
    BY <1>2, <1>3, <1>5, <1>10, <2>1 DEF CreateMember, Organization
  <2>3. \E p \in Place : Goto(r, p)
    BY <1>10 DEF CreateMember, Place, AtWork, Answers
  <2>. QED BY <1>2, <1>10, <2>2, <2>3, ServeTypes DEF CreateMember
<1>11. CASE HandleLogout(r)
  <2>1. session' \in [Tokens -> SessionRow]
    BY <1>2, <1>11 DEF HandleLogout, Revoked, SessionRow
  <2>2. Goto(r, "ok") /\ "ok" \in Place
    BY <1>11 DEF HandleLogout, Place, AtWork, Answers
  <2>. QED BY <1>2, <1>11, <2>1, <2>2, ServeTypes DEF HandleLogout
<1>12. CASE Me(r)
  <2>1. Goto(r, "ok") /\ "ok" \in Place
    BY <1>12 DEF Me, Place, AtWork, Answers
  <2>. QED BY <1>2, <1>12, <2>1, ServeTypes DEF Me, server
<1>13. CASE List(r)
  <2>1. Goto(r, "ok") /\ "ok" \in Place /\ seen' \in [Calls -> Nat]
    BY <1>2, <1>3, <1>13 DEF List, Place, AtWork, Answers
  <2>. QED BY <1>2, <1>13, <2>1, ServeTypes DEF List, server
<1>14. CASE Change(r)
  <2>1. version[Organization(r)] + 1 \in Nat
    BY <1>2, <1>3, <1>14 DEF Change
  <2>2. version' \in [Emails -> Nat] /\ seen' \in [Calls -> Nat]
    BY <1>2, <1>3, <1>14, <2>1 DEF Change
  <2>3. \E p \in Place : Goto(r, p)
    BY <1>14 DEF Change, Place, AtWork, Answers
  <2>. QED BY <1>2, <1>14, <2>2, <2>3, ServeTypes DEF Change
<1>15. CASE HandlerFails(r)
  <2>1. account' \in [Emails -> Account \cup {None}]
    BY <1>2, <1>15 DEF HandlerFails, AfterRollback
  <2>2. \E p \in Place : Goto(r, p)
    BY <1>15 DEF HandlerFails, Place, AtWork, Answers
  <2>. QED BY <1>2, <1>15, <2>1, <2>2, ServeTypes DEF HandlerFails
<1>. QED BY <1>6, <1>7, <1>8, <1>9, <1>10, <1>11, <1>12, <1>13, <1>14, <1>15

\* What a tab sends.
ToldTo == {"nothing", "awaiting", "ok", "failed", "gone"}

LEMMA SendStep ==
  ASSUME TypeOK, NEW t \in Tabs, NEW kind \in Kinds, NEW user \in Emails \cup {None},
         NEW tok \in Tokens \cup {None}, NEW after \in [Calls -> ToldTo],
         Send(t, kind, user, tok, after)
  PROVE  /\ issued' = issued + 1 /\ issued' \in Calls /\ issued' \in 0 .. MaxCalls
         /\ call' \in [Calls -> Call \cup {NoCall}] /\ pc' \in [Calls -> Place]
         /\ told' \in [Calls -> ToldTo]
         /\ call'[issued'] \in Call /\ pc'[issued'] = "sent"
         /\ call'[issued'].kind = kind /\ call'[issued'].user = user
         /\ call'[issued'].token = tok
         /\ \A q \in Calls : q # issued' => call'[q] = call[q] /\ pc'[q] = pc[q]
<1> DEFINE new == [kind |-> kind, tab |-> t, user |-> user, token |-> tok,
                   over |-> {q \in Awaited(t) : after[q] = "awaiting"}]
<1>1. /\ issued' = issued + 1 /\ issued' \in 1 .. scenario.calls
      /\ call' = [call EXCEPT ![issued'] = new] /\ Goto(issued', "sent")
      /\ told' = [after EXCEPT ![issued'] = "awaiting"]
  BY DEF Send
<1>2. issued' \in Calls /\ issued' \in 0 .. MaxCalls
  BY <1>1, ScenarioTypes DEF Calls
<1>3. new \in Call /\ new.kind = kind /\ new.user = user /\ new.token = tok
  BY DEF Call, Awaited
<1>4. /\ pc' \in [Calls -> Place] /\ pc'[issued'] = "sent"
      /\ \A q \in Calls : q # issued' => pc'[q] = pc[q]
  BY <1>1, <1>2 DEF TypeOK, Place, Goto, AtWork
<1>. HIDE DEF new
<1>5. /\ call' \in [Calls -> Call \cup {NoCall}] /\ call'[issued'] = new
      /\ \A q \in Calls : q # issued' => call'[q] = call[q]
  BY <1>1, <1>2, <1>3 DEF TypeOK
<1>6. told' \in [Calls -> ToldTo]
  BY <1>1, <1>2 DEF ToldTo
<1>. QED BY <1>1, <1>2, <1>3, <1>4, <1>5, <1>6

LEMMA ToldStep == ASSUME TypeOK, NEW r \in Calls, NEW what \in {"ok", "failed"}
                  PROVE  Told(r, what) \in [Calls -> ToldTo]
BY DEF TypeOK, Told, ToldTo

\* The steps in which a tab sends a call, and what they send.
Sends(kind, user, tok) ==
  \E t \in Tabs, after \in [Calls -> ToldTo] :
    /\ Send(t, kind, user, tok, after)
    /\ UNCHANGED <<scenario, clock, server, entered, who, seen>>
    /\ kind \in Kinds /\ user \in Emails \cup {None} /\ tok \in Tokens \cup {None}
    /\ kind \in SignIns \cup {"member"} => user \in Emails
    /\ tok \in Calls => pc[tok] = "ok"
    /\ token' \in [Tabs -> Tokens \cup {None}]
    /\ \A s \in Tabs : token'[s] = token[s] \/ (token'[s] \in Calls => pc[token'[s]] = "ok")
    /\ principal' \in [Tabs -> Emails \cup {None}] /\ shown' \in [Tabs -> Calls \cup {None}]
    /\ loading' \in [Tabs -> BOOLEAN] /\ closed' = closed
    /\ Fault \/ UNCHANGED faults

LEMMA SendTypes ==
  ASSUME TypeOK, NEW kind, NEW user, NEW tok, Sends(kind, user, tok) PROVE TypeOK'
<1>1. PICK t \in Tabs, after \in [Calls -> ToldTo] : Send(t, kind, user, tok, after)
  BY DEF Sends
<1>2. /\ issued' \in 0 .. MaxCalls
      /\ call' \in [Calls -> Call \cup {NoCall}] /\ pc' \in [Calls -> Place]
      /\ told' \in [Calls -> ToldTo]
  BY <1>1, SendStep DEF Sends
<1>3. faults' \in 0 .. scenario'.faults
  BY FaultsType DEF Sends
<1>. QED BY <1>2, <1>3 DEF Sends, TypeOK, server, Place, ToldTo

\* Every step of a tab either sends a call or only changes what the tab has.
Hears ==
  /\ UNCHANGED <<scenario, server, issued, call, pc, entered, who, seen>>
  /\ clock' \in 1 .. MaxTime /\ clock <= clock'
  /\ told' \in [Calls -> ToldTo]
  /\ token' \in [Tabs -> Tokens \cup {None}]
  /\ \A s \in Tabs : token'[s] = token[s] \/ token'[s] = None
  /\ principal' \in [Tabs -> Emails \cup {None}] /\ shown' \in [Tabs -> Calls \cup {None}]
  /\ loading' \in [Tabs -> BOOLEAN] /\ closed' \in SUBSET Tokens
  /\ Fault \/ UNCHANGED faults

LEMMA HearTypes == ASSUME TypeOK, Hears PROVE TypeOK'
<1>1. faults' \in 0 .. scenario'.faults
  BY FaultsType DEF Hears
<1>. QED BY <1>1 DEF Hears, TypeOK, server, ToldTo

\* The calls of a page that is gone.
LEMMA GoneCalls ==
  ASSUME TypeOK, NEW t \in Tabs
  PROVE  /\ Gone(t) \in [Calls -> ToldTo]
         /\ \A q \in Calls : Gone(t)[q] = IF q \in Awaited(t) THEN "gone" ELSE told[q]
BY DEF TypeOK, Gone, ToldTo

LEMMA UseSends ==
  ASSUME TypeOK, TokensFollow, NEW t \in scenario.tabs, Use(t), ~Close(t)
  PROVE  \E kind, user, tok : Sends(kind, user, tok)
<1>1. /\ t \in Tabs /\ scenario.emails \subseteq Emails /\ scenario.does \subseteq Uses
      /\ token \in [Tabs -> Tokens \cup {None}] /\ principal \in [Tabs -> Emails \cup {None}]
      /\ shown \in [Tabs -> Calls \cup {None}] /\ loading \in [Tabs -> BOOLEAN]
      /\ told \in [Calls -> ToldTo] /\ token[t] \in Tokens \cup {None}
      /\ token[t] \in Calls => pc[token[t]] = "ok"
      /\ None \in Emails \cup {None} /\ SignIns \subseteq Kinds
      /\ {"member", "change", "propose", "logout", "me"} \subseteq Kinds
      /\ {"change", "propose", "logout", "me"} \cap (SignIns \cup {"member"}) = {}
  BY ScenarioTypes DEF TypeOK, ToldTo, TokensFollow, SignIns, Kinds
<1>2. ASSUME NEW k \in SignIns, NEW u \in scenario.emails, SignIn(t, k, u)
      PROVE  Sends(k, u, token[t])
  BY <1>1, <1>2 DEF SignIn, Sends
<1>3. ASSUME NEW u \in Emails, Work(t, "member", u) PROVE Sends("member", u, token[t])
  BY <1>1, <1>3 DEF Work, Sends
<1>4. ASSUME NEW k \in {"change", "propose"}, Work(t, k, None) PROVE Sends(k, None, token[t])
  BY <1>1, <1>4 DEF Work, Sends
<1>5. ASSUME SignOut(t) PROVE Sends("logout", None, token[t])
  BY <1>1, <1>5 DEF SignOut, Sends, workspace
<1>6. ASSUME Reload(t) PROVE Sends("me", None, token[t])
  <2>1. Gone(t) \in [Calls -> ToldTo]
    BY <1>1, GoneCalls
  <2>2. /\ Send(t, "me", None, token[t], Gone(t))
        /\ UNCHANGED <<scenario, clock, server, entered, who, seen, token, closed, faults>>
        /\ principal' \in [Tabs -> Emails \cup {None}] /\ shown' \in [Tabs -> Calls \cup {None}]
        /\ loading' \in [Tabs -> BOOLEAN]
    BY <1>1, <1>6 DEF Reload
  <2>. QED BY <1>1, <2>1, <2>2 DEF Sends
<1>. QED BY <1>1, <1>2, <1>3, <1>4, <1>5, <1>6 DEF Use

LEMMA CloseHears == ASSUME TypeOK, NEW t \in Tabs, Close(t) PROVE Hears
<1>1. /\ Gone(t) \in [Calls -> ToldTo] /\ clock \in 1 .. MaxTime /\ clock <= clock
      /\ token[t] \in Tokens \cup {None} /\ closed \in SUBSET Tokens
  BY GoneCalls, BoundsAssumption DEF TypeOK
<1>2. closed' \in SUBSET Tokens
  BY <1>1 DEF Close
<1>. QED BY <1>1, <1>2 DEF Close, Hears, TypeOK

LEMMA ReceiveSends ==
  ASSUME TypeOK, TokensFollow, NEW r \in Calls, SignedIn(r) \/ Remembered(r) \/ Changed(r)
  PROVE  \E kind, user, tok : Sends(kind, user, tok)
<1>1. call[r] \in Call /\ Tab(r) \in Tabs
  BY KindTypes, CallTypes DEF SignedIn, Remembered, Changed, SignIns, Kinds
<1>2. /\ pc[r] = "ok" /\ r \in Tokens
      /\ token \in [Tabs -> Tokens \cup {None}] /\ principal \in [Tabs -> Emails \cup {None}]
      /\ shown \in [Tabs -> Calls \cup {None}] /\ loading \in [Tabs -> BOOLEAN]
      /\ told \in [Calls -> ToldTo] /\ token[Tab(r)] \in Tokens \cup {None}
      /\ token[Tab(r)] \in Calls => pc[token[Tab(r)]] = "ok"
      /\ who[r] \in Emails \cup {None} /\ Told(r, "ok") \in [Calls -> ToldTo]
      /\ None \in Emails \cup {None} /\ {"list", "relist"} \subseteq Kinds
      /\ {"list", "relist"} \cap (SignIns \cup {"member"}) = {}
      /\ UNCHANGED faults
  BY <1>1, ToldStep DEF TypeOK, ToldTo, TokensFollow, SignIns, Kinds, SignedIn, Remembered, Changed,
                        Arrives, Tokens
<1>3. ASSUME SignedIn(r) PROVE Sends("list", None, r)
  <2>1. /\ token' \in [Tabs -> Tokens \cup {None}]
        /\ \A s \in Tabs : token'[s] = token[s] \/ (token'[s] \in Calls => pc[token'[s]] = "ok")
        /\ principal' \in [Tabs -> Emails \cup {None}] /\ loading' \in [Tabs -> BOOLEAN]
    BY <1>1, <1>2, <1>3 DEF SignedIn
  <2>. QED BY <1>1, <1>2, <1>3, <2>1 DEF SignedIn, Sends
<1>4. ASSUME Remembered(r) PROVE Sends("list", None, token[Tab(r)])
  <2>1. principal' \in [Tabs -> Emails \cup {None}]
    BY <1>1, <1>2, <1>4 DEF Remembered
  <2>. QED BY <1>1, <1>2, <1>4, <2>1 DEF Remembered, Sends
<1>5. ASSUME Changed(r) PROVE Sends("relist", None, token[Tab(r)])
  BY <1>1, <1>2, <1>5 DEF Changed, Sends, workspace
<1>. QED BY <1>3, <1>4, <1>5

LEMMA ReceiveHears ==
  ASSUME TypeOK, NEW r \in Calls,
         Forgotten(r) \/ SignedOut(r) \/ Refreshed(r) \/ Finished(r) \/ CallFailed(r)
  PROVE  Hears
<1>1. /\ token \in [Tabs -> Tokens \cup {None}] /\ principal \in [Tabs -> Emails \cup {None}]
      /\ shown \in [Tabs -> Calls \cup {None}] /\ loading \in [Tabs -> BOOLEAN]
      /\ Told(r, "ok") \in [Calls -> ToldTo] /\ Told(r, "failed") \in [Calls -> ToldTo]
      /\ clock \in 1 .. MaxTime /\ clock <= clock
  BY ToldStep, BoundsAssumption DEF TypeOK
<1>2. Refused(r) \/ Lost(r) \/ Arrives(r) => Fault \/ UNCHANGED faults
  BY DEF Refused, Lost, Arrives
<1>3. /\ UNCHANGED <<scenario, clock, server, issued, call, pc, entered, who, seen>>
      /\ Fault \/ UNCHANGED faults
      /\ told' \in [Calls -> ToldTo]
  BY <1>1, <1>2 DEF Forgotten, SignedOut, Refreshed, Finished, CallFailed
<1>4. /\ token' \in [Tabs -> Tokens \cup {None}]
      /\ \A s \in Tabs : token'[s] = token[s] \/ token'[s] = None
  BY <1>1 DEF Forgotten, SignedOut, Refreshed, Finished, CallFailed
<1>5. /\ principal' \in [Tabs -> Emails \cup {None}] /\ shown' \in [Tabs -> Calls \cup {None}]
      /\ loading' \in [Tabs -> BOOLEAN]
  <2>1. ASSUME NEW b \in BOOLEAN PROVE [loading EXCEPT ![Tab(r)] = @ /\ b] \in [Tabs -> BOOLEAN]
    BY <1>1, <2>1
  <2>. QED BY <1>1, <2>1 DEF Forgotten, SignedOut, Refreshed, Finished, CallFailed, Cleared
<1>6. closed' \in SUBSET Tokens
  BY DEF Forgotten, SignedOut, Refreshed, Finished, CallFailed, TypeOK
<1>. QED BY <1>1, <1>3, <1>4, <1>5, <1>6 DEF Hears

LEMMA TickHears == ASSUME TypeOK, Tick PROVE Hears
<1>1. clock' \in 1 .. MaxTime /\ clock <= clock'
  BY ScenarioTypes DEF Tick
<1>. QED BY <1>1 DEF Tick, Hears, TypeOK, workspace, ToldTo

-----------------------------------------------------------------------------
(* The invariant is kept *)

LEMMA InitInv == Init => IInv
<1>. SUFFICES ASSUME Init PROVE IInv
  OBVIOUS
<1>1. /\ \A r \in Calls : pc[r] = "unsent" /\ who[r] = None /\ call[r] = NoCall
      /\ account = Team
      /\ \A u \in Emails : Team[u] \in Account \cup {None}
      /\ \A k \in Tokens : session[k] # NoSession => k \in Tabs /\ session[k].user = Home[k]
                                                     /\ Home[k] # None
      /\ \A t \in Tabs : token[t] \in {t, None}
      /\ scenario \in Scenario
  BY StartAssumption, ScenarioAssumption DEF Init, NoSession
<1>2. TypeOK
  <2>1. /\ clock \in 1 .. MaxTime /\ issued \in 0 .. MaxCalls /\ faults \in 0 .. scenario.faults
        /\ NoEntry \in Entry /\ 0 \in 0 .. MaxTime
    BY <1>1, BoundsAssumption DEF Init, NoEntry, Entry, Scenario
  <2>2. \A k \in Tokens : session[k] \in SessionRow
    BY BoundsAssumption, StartAssumption DEF Init, SessionRow
  <2>3. session \in [Tokens -> SessionRow]
    BY <2>2 DEF Init
  <2>4. token \in [Tabs -> Tokens \cup {None}]
    BY DEF Init, Tokens
  <2>5. /\ lastGC \in [Scopes -> 1 .. MaxTime]
        /\ entries \in [Scopes -> [Addresses -> Entry]]
    BY <2>1, BoundsAssumption DEF Init
  <2>6. entered \in [Calls -> [read : 0 .. MaxTime, lock : 0 .. MaxTime, win : 0 .. MaxTime]]
    BY <2>1 DEF Init, NotEntered
  <2>. QED BY <2>1, <2>3, <2>4, <2>5, <2>6, StartAssumption DEF Init, TypeOK, Entry, SessionRow
<1>3. CallsFollow
  BY <1>1 DEF CallsFollow, NoCall, SignIns
<1>4. UsersExist
  BY <1>1, StartAssumption, SetsAssumption DEF UsersExist
<1>5. AccountsHaveMakers /\ OneCreator /\ MembersBelong
  BY <1>1 DEF AccountsHaveMakers, OneCreator, MembersBelong, Creates, Committed, NoCall
<1>6. TokensFollow
  <2>1. NoCall \notin Call
    BY DEF NoCall, Call, Kinds
  <2>2. \A t \in Tabs : token[t] \notin Calls
    BY <1>1, SetsAssumption DEF Tokens
  <2>. QED BY <1>1, <2>1, <2>2 DEF TokensFollow, NoCall
<1>. QED BY <1>2, <1>3, <1>4, <1>5, <1>6 DEF IInv

LEMMA HearInv == ASSUME IInv, Hears PROVE IInv'
<1>. USE DEF IInv
<1>1. TypeOK'
  BY HearTypes
<1>2. UNCHANGED <<account, session, issued, call, pc, who>>
  BY DEF Hears, server
<1>3. CallsFollow'
  BY <1>2 DEF CallsFollow
<1>4. UsersExist'
  BY <1>2 DEF UsersExist
<1>5. AccountsHaveMakers' /\ OneCreator' /\ MembersBelong'
  BY <1>2 DEF AccountsHaveMakers, OneCreator, MembersBelong, Creates, Committed
<1>6. TokensFollow'
  <2>1. \A t \in Tabs : token'[t] \in Calls => token'[t] = token[t]
    BY SetsAssumption DEF Hears, Tokens
  <2>. QED BY <1>2, <2>1 DEF TokensFollow
<1>. QED BY <1>1, <1>3, <1>4, <1>5, <1>6

LEMMA SendInv ==
  ASSUME IInv, NEW kind, NEW user, NEW tok, Sends(kind, user, tok) PROVE IInv'
<1>. USE DEF IInv
<1> DEFINE n == issued + 1
<1>1. TypeOK'
  BY SendTypes
<1>2. PICK t \in Tabs, after \in [Calls -> ToldTo] : Send(t, kind, user, tok, after)
  BY DEF Sends
<1>3. /\ issued' = n /\ n \in Calls
      /\ call'[n] \in Call /\ pc'[n] = "sent"
      /\ call'[n].kind = kind /\ call'[n].user = user /\ call'[n].token = tok
      /\ \A q \in Calls : q # n => call'[q] = call[q] /\ pc'[q] = pc[q]
  <2>1. kind \in Kinds /\ user \in Emails \cup {None} /\ tok \in Tokens \cup {None}
    BY DEF Sends
  <2>. QED BY <1>2, <2>1, SendStep
<1>4. /\ UNCHANGED <<account, session, who>>
      /\ kind \in SignIns \cup {"member"} => user \in Emails
      /\ tok \in Calls => pc[tok] = "ok"
      /\ \A s \in Tabs : token'[s] = token[s] \/ (token'[s] \in Calls => pc[token'[s]] = "ok")
  BY DEF Sends, server
<1>5. pc[n] = "unsent" /\ who[n] = None /\ issued \in Nat
  BY <1>3, ScenarioTypes DEF CallsFollow, Calls
<1>6. CallsFollow'
  <2>1. \A r \in Calls : r > n => pc'[r] = "unsent" /\ who[r] = None
    BY <1>3, <1>5 DEF CallsFollow, Calls
  <2>. QED BY <1>3, <1>4, <2>1 DEF CallsFollow
<1>7. UsersExist'
  BY <1>3, <1>4, <1>5 DEF UsersExist
<1>8. \A q \in Calls : \A u : (Creates(q, u) /\ Committed(q))' => Creates(q, u) /\ Committed(q)
  BY <1>3, <1>4, <1>5 DEF Creates, Committed
<1>9. \A q \in Calls : \A u : Creates(q, u) /\ Committed(q) => (Creates(q, u) /\ Committed(q))'
  BY <1>3, <1>4, <1>5 DEF Creates, Committed
<1>10. AccountsHaveMakers'
  <2>1. \A r \in Calls : pc'[r] = "conflict" => pc[r] = "conflict" /\ call'[r] = call[r]
    BY <1>3
  <2>. QED BY <1>4, <1>8, <1>9, <2>1 DEF AccountsHaveMakers
<1>11. OneCreator'
  BY <1>8 DEF OneCreator
<1>12. MembersBelong'
  <2>1. \A r \in Calls : pc[r] = "ok" => pc'[r] = "ok" /\ call'[r] = call[r]
    BY <1>3, <1>5
  <2>. QED BY <1>4, <2>1 DEF MembersBelong
<1>13. TokensFollow'
  <2>1. \A r \in Calls : pc[r] = "ok" => pc'[r] = "ok"
    BY <1>3, <1>5
  <2>2. \A r \in Calls : pc'[r] \in {"ok", "authorized"} =>
          pc'[r] = pc[r] /\ call'[r] = call[r]
    BY <1>3
  <2>3. \A r \in Calls : call'[r] \in Call /\ call'[r].token \in Calls => pc'[call'[r].token] = "ok"
    BY <1>3, <1>4, <2>1 DEF TokensFollow
  <2>4. \A s \in Tabs : token'[s] \in Calls => pc'[token'[s]] = "ok"
    BY <1>4, <2>1 DEF TokensFollow
  <2>. QED BY <1>4, <2>2, <2>3, <2>4 DEF TokensFollow
<1>. QED BY <1>1, <1>6, <1>7, <1>10, <1>11, <1>12, <1>13

\* A handler's step that is not the commit of an account: no account or call is
\* touched, and nothing that was answered is answered again.
LEMMA ServeInv ==
  ASSUME IInv, TypeOK', NEW r \in Calls, NEW p \in Place \ {"unsent", "sent"},
         pc[r] \in AtWork, Goto(r, p),
         UNCHANGED <<account, issued, call, token>>,
         who' \in [Calls -> Emails \cup {None}],
         \A q \in Calls : q # r => who'[q] = who[q],
         who'[r] # None => account[who'[r]] # None,
         p \in {"authorized", "created", "ok"} => who'[r] # None,
         p = "admitted" => who'[r] = None,
         p = "created" => call[r].kind \in SignIns,
         call[r].kind = "register" => who'[r] = who[r] /\ (p = "conflict" => who[r] = None),
         call[r].kind = "member" => p # "ok",
         p = "conflict" => call[r].user \in Emails /\ account[call[r].user] # None,
         call[r].kind = "logout" /\ p \in {"authorized", "ok"} => call[r].token \in Tokens,
         call[r].kind = "logout" /\ p = "ok" => session'[call[r].token] = NoSession,
         \A k \in Tokens : session'[k] # NoSession => account[session'[k].user] # None,
         \A k \in Tokens : session[k] = NoSession /\ session'[k] # NoSession => k = r
  PROVE  IInv'
<1>. USE DEF IInv
<1>1. /\ pc'[r] = p /\ \A q \in Calls : q # r => pc'[q] = pc[q]
      /\ pc[r] \notin {"unsent", "ok", "conflict"}
  BY GotoStep DEF AtWork
<1>2. CallsFollow'
  <2>1. ~(r > issued) /\ call[r] \in Call
    BY <1>1 DEF CallsFollow
  <2>. QED BY <1>1, <2>1 DEF CallsFollow
<1>3. UsersExist'
  BY <1>1 DEF UsersExist
<1>4. \A q \in Calls : \A u : Creates(q, u)' <=> Creates(q, u)
  BY DEF Creates
<1>5. \A q \in Calls : call[q].kind \in {"register", "member"} => (Committed(q)' <=> Committed(q))
  BY <1>1 DEF Committed
<1>6. \A q \in Calls : \A u : (Creates(q, u) /\ Committed(q))' <=> Creates(q, u) /\ Committed(q)
  BY <1>4, <1>5 DEF Creates
<1>7. AccountsHaveMakers'
  BY <1>1, <1>6 DEF AccountsHaveMakers
<1>8. OneCreator'
  BY <1>6 DEF OneCreator
<1>9. MembersBelong'
  <2>1. ASSUME NEW q \in Calls, call[q].kind = "member", pc[q] = "ok"
        PROVE  pc'[q] = "ok" /\ who'[q] = who[q]
    BY <1>1, <2>1
  <2>. QED BY <2>1 DEF MembersBelong
<1>10. TokensFollow'
  <2>1. \A q \in Calls : pc[q] = "ok" => pc'[q] = "ok" /\ q # r
    BY <1>1
  <2>2. ASSUME NEW q \in Calls, q # r, call[q].kind = "logout", pc[q] = "ok"
        PROVE  session'[call[q].token] = NoSession
    <3>1. call[q] \in Call
      BY <2>2 DEF CallsFollow
    <3>2. call[q].token \in Tokens /\ session[call[q].token] = NoSession
      BY <2>2 DEF TokensFollow
    <3>3. call[q].token # r
      BY <1>1, <3>1 DEF TokensFollow
    <3>. QED BY <3>2, <3>3
  <2>. QED BY <1>1, <2>1, <2>2 DEF TokensFollow
<1>. QED BY <1>2, <1>3, <1>7, <1>8, <1>9, <1>10

\* The commit of an account of u, for which there was none.
LEMMA CommitInv ==
  ASSUME IInv, TypeOK', NEW r \in Calls, NEW u \in Emails, call[r].user = u,
         account[u] = None, NEW row \in Account, account' = [account EXCEPT ![u] = row],
         UNCHANGED <<issued, call, token, session>>,
         \/ /\ call[r].kind = "register" /\ pc[r] = "admitted" /\ Goto(r, "created")
            /\ row.org = u /\ who' = [who EXCEPT ![r] = u]
         \/ /\ call[r].kind = "member" /\ pc[r] = "authorized" /\ Goto(r, "ok")
            /\ account[who[r]] = [org |-> row.org, role |-> "owner"] /\ who' = who
  PROVE  IInv'
<1>. USE DEF IInv
<1>1. /\ \A q \in Calls : q # r => pc'[q] = pc[q] /\ who'[q] = who[q]
      /\ call[r].kind = "register" => pc'[r] = "created" /\ who'[r] = u
      /\ call[r].kind = "member" => pc'[r] = "ok" /\ who'[r] = who[r] /\ who[r] # None
      /\ call[r].kind \in {"register", "member"}
      /\ pc[r] \in {"admitted", "authorized"} /\ pc'[r] \in {"created", "ok"}
  <2>1. "created" \in Place /\ "ok" \in Place
    BY DEF Place, AtWork, Answers
  <2>. QED BY <2>1, GotoStep DEF TypeOK, UsersExist
<1>2. /\ account'[u] = row /\ row # None /\ u # None
      /\ \A v \in Emails : v # u => account'[v] = account[v]
      /\ \A v \in Emails : account[v] # None => v # u /\ account'[v] = account[v]
  BY SetsAssumption DEF TypeOK
<1>3. \A q \in Calls : who'[q] # None => who'[q] \in Emails
  BY DEF TypeOK
<1>4. CallsFollow'
  <2>1. ~(r > issued) /\ call[r] \in Call
    BY <1>1 DEF CallsFollow
  <2>. QED BY <1>1, <2>1 DEF CallsFollow, SignIns
<1>5. UsersExist'
  <2>1. \A q \in Calls : who'[q] # None => account'[who'[q]] # None
    BY <1>1, <1>2, <1>3 DEF UsersExist, TypeOK
  <2>2. ASSUME NEW k \in Tokens, session[k] # NoSession PROVE account'[session[k].user] # None
    <3>1. session[k].user \in Emails /\ account[session[k].user] # None
      BY <2>2 DEF UsersExist, TypeOK
    <3>. QED BY <3>1, <1>2
  <2>. QED BY <1>1, <1>2, <2>1, <2>2 DEF UsersExist
<1>6. /\ \A q \in Calls : \A v : Creates(q, v)' <=> Creates(q, v)
      /\ \A q \in Calls : q # r => (Committed(q)' <=> Committed(q))
      /\ Creates(r, u) /\ ~Committed(r) /\ Committed(r)'
      /\ \A v : Creates(r, v) => v = u
  <2>1. call[r].kind = "register" => who[r] = None
    BY <1>1 DEF UsersExist
  <2>. QED BY <1>1, <1>2, <2>1 DEF Creates, Committed
<1>7. Team[u] = None
  BY <1>2 DEF AccountsHaveMakers
<1>8. \A q \in Calls : ~(Creates(q, u) /\ Committed(q))
  BY DEF AccountsHaveMakers
<1>9. AccountsHaveMakers'
  <2>1. \A v \in Emails : Team[v] # None => account'[v] = Team[v]
    BY <1>2, <1>7 DEF AccountsHaveMakers
  <2>2. ASSUME NEW v \in Emails, account'[v] # None, Team[v] = None
        PROVE  \E q \in Calls : (Creates(q, v) /\ Committed(q))'
    <3>1. CASE v = u
      BY <3>1, <1>6
    <3>2. CASE v # u
      <4>1. PICK q \in Calls : Creates(q, v) /\ Committed(q)
        BY <2>2, <3>2, <1>2 DEF AccountsHaveMakers
      <4>. QED BY <4>1, <1>6
    <3>. QED BY <3>1, <3>2
  <2>3. \A q \in Calls, v \in Emails : (Creates(q, v) /\ Committed(q))' => account'[v] # None
    BY <1>2, <1>6 DEF AccountsHaveMakers
  <2>4. ASSUME NEW q \in Calls, pc'[q] = "conflict"
        PROVE  call[q].user \in Emails /\ account'[call[q].user] # None
    <3>1. q # r /\ pc[q] = "conflict"
      BY <2>4, <1>1
    <3>. QED BY <3>1, <1>2 DEF AccountsHaveMakers
  <2>. QED BY <2>1, <2>2, <2>3, <2>4 DEF AccountsHaveMakers
<1>10. OneCreator'
  BY <1>6, <1>7, <1>8 DEF OneCreator
<1>11. MembersBelong'
  <2>1. SUFFICES ASSUME NEW v \in Emails, account'[v] # None, account'[v].org # v
                 PROVE  \/ Team[v] = account'[v]
                        \/ \E q \in Calls :
                             /\ call[q].kind = "member" /\ call[q].user = v /\ pc'[q] = "ok"
                             /\ account'[who'[q]] = [org |-> account'[v].org, role |-> "owner"]
    BY DEF MembersBelong
  <2>2. CASE v = u
    <3>1. /\ call[r].kind = "member" /\ pc'[r] = "ok" /\ who'[r] = who[r]
          /\ account[who[r]] = [org |-> row.org, role |-> "owner"]
      BY <2>1, <2>2, <1>1, <1>2
    <3>2. who[r] \in Emails /\ account[who[r]] # None
      BY <3>1, <1>1 DEF UsersExist, TypeOK
    <3>. QED BY <2>2, <3>1, <3>2, <1>2
  <2>3. CASE v # u
    <3>1. account'[v] = account[v]
      BY <2>3, <1>2
    <3>2. CASE Team[v] = account[v]
      BY <3>1, <3>2
    <3>3. CASE Team[v] # account[v]
      <4>1. PICK q \in Calls :
              /\ call[q].kind = "member" /\ call[q].user = v /\ pc[q] = "ok"
              /\ account[who[q]] = [org |-> account[v].org, role |-> "owner"]
        BY <2>1, <3>1, <3>3 DEF MembersBelong
      <4>2. q # r /\ pc'[q] = "ok" /\ who'[q] = who[q]
        BY <4>1, <1>1
      <4>3. who[q] # None
        BY <4>1 DEF UsersExist
      <4>4. account'[who[q]] = account[who[q]]
        BY <4>3, <1>2 DEF UsersExist, TypeOK
      <4>. QED BY <3>1, <4>1, <4>2, <4>4
    <3>. QED BY <3>2, <3>3
  <2>. QED BY <2>2, <2>3
<1>12. TokensFollow'
  <2>1. \A q \in Calls : pc[q] = "ok" => pc'[q] = "ok"
    BY <1>1
  <2>2. call[r].kind # "logout"
    BY <1>1
  <2>. QED BY <1>1, <2>1, <2>2 DEF TokensFollow
<1>. QED BY <1>4, <1>5, <1>9, <1>10, <1>11, <1>12

LEMMA SubmitWork ==
  ASSUME IInv, NEW r \in Calls,
         (\E now \in 1 .. MaxTime : Enter(r, now)) \/ Authenticate(r) \/ Login(r)
  PROVE  IInv'
<1>. USE DEF IInv
<1>1. call[r] \in Call /\ who[r] = None /\ pc[r] \in {"sent", "admitted"}
  BY DEF Enter, Authenticate, Login, Is, CallsFollow, UsersExist
<1>2. TypeOK' /\ who' \in [Calls -> Emails \cup {None}]
  BY EnterTypes, WorkTypes DEF TypeOK
<1>3. \A k \in Tokens : session[k] # NoSession => account[session[k].user] # None
  BY DEF UsersExist
<1>4. ASSUME NEW now \in 1 .. MaxTime, Enter(r, now) PROVE IInv'
  <2>1. PICK p \in {"admitted", "limited"} : Goto(r, p)
    BY <1>4 DEF Enter
  <2>2. UNCHANGED <<account, session, issued, call, who, token>>
    BY <1>4 DEF Enter, workspace
  <2>3. p \in Place \ {"unsent", "sent"} /\ pc[r] \in AtWork
    BY <1>1 DEF Place, AtWork, Answers
  <2>. QED BY <1>1, <1>2, <1>3, <2>1, <2>2, <2>3, ServeInv
<1>5. CASE Authenticate(r)
  <2>1. UNCHANGED <<account, session, issued, call, token>> /\ call[r].kind \notin SignIns
    BY <1>5 DEF Authenticate, server, workspace
  <2>2. CASE Valid(call[r].token)
    <3>1. call[r].token \in Tokens /\ session[call[r].token] # NoSession
      BY <1>1, <2>2, CallTypes DEF Valid
    <3>2. session[call[r].token].user \in Emails
      BY <3>1 DEF TypeOK
    <3>3. /\ Goto(r, "authorized") /\ who'[r] = session[call[r].token].user
          /\ \A q \in Calls : q # r => who'[q] = who[q]
      BY <1>5, <2>2 DEF Authenticate, TypeOK
    <3>4. who'[r] # None /\ account[who'[r]] # None
      BY <1>3, <3>1, <3>2, <3>3, SetsAssumption
    <3>5. "authorized" \in Place \ {"unsent", "sent"} /\ pc[r] \in AtWork
      BY <1>1 DEF Place, AtWork
    <3>. QED BY <1>1, <1>2, <1>3, <2>1, <3>1, <3>3, <3>4, <3>5, ServeInv DEF SignIns
  <2>3. CASE ~Valid(call[r].token)
    <3>1. Goto(r, "unauthorized") /\ UNCHANGED who
      BY <1>5, <2>3 DEF Authenticate
    <3>2. "unauthorized" \in Place \ {"unsent", "sent"} /\ pc[r] \in AtWork
      BY <1>1 DEF Place, AtWork, Answers
    <3>. QED BY <1>1, <1>2, <1>3, <2>1, <3>1, <3>2, ServeInv DEF SignIns
  <2>. QED BY <2>2, <2>3
<1>6. CASE Login(r)
  <2>1. /\ UNCHANGED <<account, session, issued, call, token>> /\ call[r].kind = "login"
        /\ call[r].user \in Emails
    BY <1>6 DEF Login, Is, server, workspace, CallsFollow, SignIns
  <2>2. CASE Taken(call[r].user)
    <3>1. /\ Goto(r, "created") /\ who'[r] = call[r].user
          /\ \A q \in Calls : q # r => who'[q] = who[q]
      BY <1>6, <2>2 DEF Login, TypeOK
    <3>2. who'[r] # None /\ account[who'[r]] # None
      BY <2>1, <2>2, <3>1, SetsAssumption DEF Taken
    <3>3. "created" \in Place \ {"unsent", "sent"} /\ pc[r] \in AtWork
      BY <1>1 DEF Place, AtWork
    <3>. QED BY <1>1, <1>2, <1>3, <2>1, <3>1, <3>2, <3>3, ServeInv DEF SignIns
  <2>3. CASE ~Taken(call[r].user)
    <3>1. Goto(r, "unauthorized") /\ UNCHANGED who
      BY <1>6, <2>3 DEF Login
    <3>2. "unauthorized" \in Place \ {"unsent", "sent"} /\ pc[r] \in AtWork
      BY <1>1 DEF Place, AtWork, Answers
    <3>. QED BY <1>1, <1>2, <1>3, <2>1, <3>1, <3>2, ServeInv
  <2>. QED BY <2>2, <2>3
<1>. QED BY <1>4, <1>5, <1>6

LEMMA CommitWork ==
  ASSUME IInv, NEW r \in Calls, Register(r) \/ CreateMember(r) PROVE IInv'
<1>. USE DEF IInv
<1> DEFINE u == call[r].user
<1>1. /\ u \in Emails /\ call[r] \in Call
      /\ \/ call[r].kind = "register" /\ pc[r] = "admitted" /\ who[r] = None
         \/ call[r].kind = "member" /\ pc[r] = "authorized" /\ who[r] # None
  BY DEF Register, CreateMember, Is, CallsFollow, UsersExist, SignIns
<1>2. TypeOK' /\ UNCHANGED <<issued, call, token, session>>
  BY WorkTypes DEF Register, CreateMember, workspace
<1>3. /\ \A k \in Tokens : session[k] # NoSession => account[session[k].user] # None
      /\ who[r] # None => account[who[r]] # None
      /\ who \in [Calls -> Emails \cup {None}]
  BY DEF UsersExist, TypeOK
<1>4. ASSUME NEW p \in {"conflict", "forbidden"}, Goto(r, p), UNCHANGED <<account, who>>,
             p = "conflict" => account[u] # None
      PROVE  IInv'
  <2>1. p \in Place \ {"unsent", "sent"} /\ pc[r] \in AtWork
    BY <1>1 DEF Place, AtWork, Answers
  <2>. QED BY <1>1, <1>2, <1>3, <1>4, <2>1, ServeInv
<1>5. CASE Register(r)
  <2>1. CASE Taken(u)
    BY <1>4, <1>5, <2>1 DEF Register, Taken
  <2>2. CASE ~Taken(u)
    <3> DEFINE row == [org |-> u, role |-> "owner"]
    <3>1. row \in Account /\ row.org = u
      BY <1>1 DEF Account
    <3>2. /\ account[u] = None /\ account' = [account EXCEPT ![u] = row]
          /\ who' = [who EXCEPT ![r] = u] /\ Goto(r, "created")
          /\ call[r].kind = "register" /\ pc[r] = "admitted"
      BY <1>5, <2>2 DEF Register, Taken, Is
    <3>. HIDE DEF row
    <3>. QED BY <1>1, <1>2, <3>1, <3>2, CommitInv
  <2>. QED BY <2>1, <2>2
<1>6. CASE CreateMember(r)
  <2>1. call[r].kind = "member" /\ pc[r] = "authorized" /\ UNCHANGED who
    BY <1>6 DEF CreateMember, Is
  <2>2. CASE UNCHANGED account /\ ~(Owner(r) /\ ~Taken(u))
    <3>1. \E p \in {"conflict", "forbidden"} : Goto(r, p) /\ (p = "conflict" => account[u] # None)
      BY <1>6, <2>2 DEF CreateMember, Taken
    <3>. QED BY <1>4, <2>1, <2>2, <3>1
  <2>3. CASE Owner(r) /\ ~Taken(u)
    <3> DEFINE row == [org |-> account[who[r]].org, role |-> "member"]
    <3>1. who[r] \in Emails /\ account[who[r]] \in Account
      BY <1>1, <1>3, <2>1 DEF TypeOK
    <3>2. row \in Account /\ row.org = account[who[r]].org
      BY <3>1 DEF Account
    <3>3. account[who[r]] = [org |-> row.org, role |-> "owner"]
      BY <2>3, <3>1, <3>2 DEF Account, Owner
    <3>4. /\ account[u] = None /\ account' = [account EXCEPT ![u] = row] /\ Goto(r, "ok")
      BY <1>6, <2>3 DEF CreateMember, Taken
    <3>. HIDE DEF row
    <3>. QED BY <1>1, <1>2, <2>1, <3>2, <3>3, <3>4, CommitInv
  <2>. QED BY <1>6, <2>2, <2>3 DEF CreateMember
<1>. QED BY <1>5, <1>6

LEMMA OtherWork ==
  ASSUME IInv, NEW r \in Calls,
         \/ CreateSession(r) \/ HandleLogout(r) \/ Me(r) \/ List(r) \/ Change(r) \/ HandlerFails(r)
  PROVE  IInv'
<1>. USE DEF IInv
<1>1. /\ UNCHANGED <<account, issued, call, token, who>> /\ TypeOK'
      /\ pc[r] \in AtWork /\ pc[r] # "sent" /\ call[r] \in Call
  BY WorkTypes DEF CreateSession, HandleLogout, Me, List, Change, HandlerFails, AfterRollback, Is,
                   server, workspace, AtWork, CallsFollow
<1>2. /\ \A k \in Tokens : session[k] # NoSession => account[session[k].user] # None
      /\ who[r] # None => account[who[r]] # None
      /\ who \in [Calls -> Emails \cup {None}]
      /\ pc[r] \in {"authorized", "created"} => who[r] # None
      /\ session \in [Tokens -> SessionRow]
      /\ r \in Tokens
  BY DEF UsersExist, TypeOK, SessionRow, Tokens
<1>3. CASE CreateSession(r)
  <2>1. /\ Goto(r, "ok") /\ pc[r] = "created" /\ who[r] \in Emails
        /\ session'[r].user = who[r] /\ \A k \in Tokens : k # r => session'[k] = session[k]
    BY <1>2, <1>3 DEF CreateSession
  <2>2. "ok" \in Place \ {"unsent", "sent"}
    BY DEF Place, Answers
  <2>3. call[r].kind \notin {"member", "logout"}
    BY <2>1 DEF CallsFollow, SignIns
  <2>. QED BY <1>1, <1>2, <2>1, <2>2, <2>3, ServeInv
<1>4. CASE HandleLogout(r)
  <2>1. /\ Goto(r, "ok") /\ pc[r] = "authorized" /\ call[r].kind = "logout"
        /\ call[r].token \in Tokens
    BY <1>4 DEF HandleLogout, Is, TokensFollow
  <2>2. /\ session'[call[r].token] = NoSession
        /\ \A k \in Tokens : k # call[r].token => session'[k] = session[k]
    BY <1>2, <1>4, <2>1 DEF HandleLogout, Revoked
  <2>3. "ok" \in Place \ {"unsent", "sent"}
    BY DEF Place, Answers
  <2>. QED BY <1>1, <1>2, <2>1, <2>2, <2>3, ServeInv
<1>5. CASE Me(r) \/ List(r) \/ Change(r)
  <2>1. PICK p \in {"ok", "forbidden"} : Goto(r, p)
    BY <1>5 DEF Me, List, Change
  <2>2. /\ pc[r] = "authorized" /\ call[r].kind \notin {"register", "member", "logout"}
        /\ UNCHANGED session
    BY <1>5 DEF Me, List, Change, Is, Lists, server
  <2>3. p \in Place \ {"unsent", "sent"}
    BY DEF Place, Answers
  <2>. QED BY <1>1, <1>2, <2>1, <2>2, <2>3, ServeInv
<1>6. CASE HandlerFails(r)
  <2>1. PICK p \in {"unauthorized", "failed"} : Goto(r, p)
    BY <1>6 DEF HandlerFails
  <2>2. UNCHANGED session
    BY <1>6 DEF HandlerFails
  <2>3. p \in Place \ {"unsent", "sent"}
    BY DEF Place, Answers
  <2>. QED BY <1>1, <1>2, <2>1, <2>2, <2>3, ServeInv
<1>. QED BY <1>3, <1>4, <1>5, <1>6

\* A step is a handler's, sends a call of a tab, or only changes what tabs have or the clock.
LEMMA StepKinds ==
  ASSUME IInv, [Next]_vars
  PROVE  \/ \E r \in Calls : Serve(r)
         \/ \E kind, user, tok : Sends(kind, user, tok)
         \/ Hears \/ UNCHANGED vars
<1>. USE DEF IInv
<1>1. ASSUME NEW t \in scenario.tabs, Use(t)
      PROVE  (\E kind, user, tok : Sends(kind, user, tok)) \/ Hears
  <2>1. t \in Tabs
    BY ScenarioTypes
  <2>. QED BY <1>1, <2>1, UseSends, CloseHears
<1>2. ASSUME NEW r \in Calls, Receive(r)
      PROVE  (\E kind, user, tok : Sends(kind, user, tok)) \/ Hears
  BY <1>2, ReceiveSends, ReceiveHears DEF Receive
<1>. QED BY <1>1, <1>2, TickHears DEF Next

LEMMA NextInv == ASSUME IInv, [Next]_vars PROVE IInv'
<1>1. CASE UNCHANGED vars
  BY <1>1 DEF vars, server, workspace, IInv, TypeOK, CallsFollow, UsersExist, AccountsHaveMakers,
              OneCreator, MembersBelong, TokensFollow, Creates, Committed
<1>2. ASSUME NEW r \in Calls, Serve(r) PROVE IInv'
  BY <1>2, SubmitWork, CommitWork, OtherWork DEF Serve
<1>. QED BY <1>1, <1>2, StepKinds, SendInv, HearInv

-----------------------------------------------------------------------------
(* The limiter *)

\* An entry counts no more than its limit, and no more than its window's calls.
EntriesCount ==
  \A s \in Scopes, a \in Addresses : LET e == entries[s][a] IN
    /\ e.count <= Limit[s]
    /\ \A w \in 1 .. MaxTime : e.windowStart = w => e.count <= Cardinality(InWindow(s, a, w))

\* While a span of a window's length is not over, its calls are those of the entry's
\* window and at most the full limit of one older window, which began before the span.
Newest(s, a, b) == {r \in Within(s, a, b) : entered[r].win = entries[s][a].windowStart}
Older(s, a, b) == {r \in Within(s, a, b) : entered[r].win # entries[s][a].windowStart}
Spans ==
  \A s \in Scopes, a \in Addresses, b \in 1 .. MaxTime :
    clock < b + Window /\ Within(s, a, b) # {} =>
      LET e == entries[s][a] IN
      /\ e.windowStart # 0 /\ e.windowStart > b - Window
      /\ Cardinality(Newest(s, a, b)) <= e.count
      /\ Cardinality(Older(s, a, b)) <= Limit[s]
      /\ e.windowStart < b => Older(s, a, b) = {}

LimiterInv == EntriesCount /\ Spans /\ AdmissionsBounded /\ RefusalsJustified

\* Sets of calls are finite and grow with their elements.
LEMMA CallSets ==
  ASSUME NEW S \in SUBSET Calls
  PROVE  /\ IsFiniteSet(S) /\ Cardinality(S) \in Nat
         /\ \A T \in SUBSET S : Cardinality(T) <= Cardinality(S)
         /\ \A r \in Calls \ S : Cardinality(S \cup {r}) = Cardinality(S) + 1
<1>1. IsFiniteSet(Calls)
  BY FS_Interval, BoundsAssumption DEF Calls
<1>2. IsFiniteSet(S)
  BY <1>1, FS_Subset
<1>. QED BY <1>2, FS_Subset, FS_AddElement, FS_CardinalityType

\* What a call that enters does to the entry e of its scope and address.
Enters(r, now, s, a, e) ==
  /\ s = Scope(call[r].kind) /\ a = AddressOf[call[r].tab]
  /\ \/ /\ e = [windowStart |-> now, count |-> 0]
        /\ entries[s][a].windowStart = 0 \/ now - entries[s][a].windowStart >= Window
     \/ e = entries[s][a] /\ e.windowStart # 0 /\ now - e.windowStart < Window
  /\ entries'[s][a] = Counted(e, Limit[s])
  /\ \A t \in Scopes, c \in Addresses : t # s \/ c # a =>
       \/ entries'[t][c] = entries[t][c]
       \/ entries'[t][c] = NoEntry /\ now - entries[t][c].windowStart >= 2 * Window
  /\ pc[r] = "sent" /\ pc'[r] = IF Admits(e, Limit[s]) THEN "admitted" ELSE "limited"
  /\ entered'[r] = [read |-> now, lock |-> clock, win |-> e.windowStart]
  /\ \A q \in Calls : q # r => pc'[q] = pc[q] /\ entered'[q] = entered[q]
  /\ now <= clock /\ UNCHANGED <<scenario, clock, call>>

LEMMA EnterStep ==
  ASSUME IInv, NEW r \in Calls, NEW now \in 1 .. MaxTime, Enter(r, now)
  PROVE  \E s \in Scopes, a \in Addresses, e \in Entry : Enters(r, now, s, a, e)
<1>. USE DEF IInv
<1> DEFINE s == Scope(call[r].kind)
           a == AddressOf[call[r].tab]
           e == Current(Swept(s, now)[a], now)
<1>1. s \in Scopes /\ a \in Addresses
  BY CallTypes DEF Enter, CallsFollow
<1>2. now \in Nat /\ clock \in Nat /\ MaxTime \in Nat /\ Window \in Nat \ {0}
  BY ScenarioTypes, WindowAssumption
<1>3. entries \in [Scopes -> [Addresses -> Entry]]
  BY DEF TypeOK, Entry
<1>4. \A c \in Addresses :
        /\ entries[s][c] \in Entry
        /\ \/ Swept(s, now)[c] = entries[s][c]
           \/ Swept(s, now)[c] = NoEntry /\ now - entries[s][c].windowStart >= 2 * Window
  BY <1>1, <1>3 DEF Swept, Collected
<1>5. Swept(s, now) = [c \in Addresses |-> Swept(s, now)[c]]
  BY <1>1, <1>3 DEF Swept, Collected
<1>6. /\ e \in Entry
      /\ \/ /\ e = [windowStart |-> now, count |-> 0]
            /\ entries[s][a].windowStart = 0 \/ now - entries[s][a].windowStart >= Window
         \/ e = entries[s][a] /\ e.windowStart # 0 /\ now - e.windowStart < Window
  <2>1. CASE Swept(s, now)[a] = entries[s][a]
    <3>1. entries[s][a] \in Entry /\ entries[s][a].windowStart \in Nat
      BY <1>1, <1>2, <1>4 DEF Entry
    <3>2. [windowStart |-> now, count |-> 0] \in Entry
      BY <1>2 DEF Entry
    <3>3. CASE entries[s][a].windowStart = 0 \/ now - entries[s][a].windowStart >= Window
      BY <2>1, <3>2, <3>3 DEF Current
    <3>4. CASE ~(entries[s][a].windowStart = 0 \/ now - entries[s][a].windowStart >= Window)
      <4>1. e = entries[s][a]
        BY <2>1, <3>4 DEF Current
      <4>. QED BY <1>2, <3>1, <3>4, <4>1
    <3>. QED BY <3>3, <3>4
  <2>2. CASE Swept(s, now)[a] = NoEntry /\ now - entries[s][a].windowStart >= 2 * Window
    <3>1. e = [windowStart |-> now, count |-> 0]
      BY <2>2 DEF Current, NoEntry
    <3>2. entries[s][a].windowStart \in Nat
      BY <1>1, <1>2, <1>4 DEF Entry
    <3>. QED BY <1>2, <2>2, <3>1, <3>2 DEF Entry
  <2>. QED BY <1>1, <1>4, <2>1, <2>2
<1>7. /\ entries' = [entries EXCEPT ![s] = [Swept(s, now) EXCEPT ![a] = Counted(e, Limit[s])]]
      /\ entered' = [entered EXCEPT ![r] =
                       [read |-> now, lock |-> clock, win |-> e.windowStart]]
      /\ Goto(r, IF Admits(e, Limit[s]) THEN "admitted" ELSE "limited")
      /\ pc[r] = "sent" /\ now <= clock /\ UNCHANGED <<scenario, clock, call>>
  BY DEF Enter
<1>. HIDE DEF e, s, a
<1>8. /\ entries'[s][a] = Counted(e, Limit[s])
      /\ \A t \in Scopes : t # s => entries'[t] = entries[t]
      /\ \A c \in Addresses : c # a => entries'[s][c] = Swept(s, now)[c]
  BY <1>1, <1>3, <1>5, <1>7
<1>9. /\ pc'[r] = IF Admits(e, Limit[s]) THEN "admitted" ELSE "limited"
      /\ entered'[r] = [read |-> now, lock |-> clock, win |-> e.windowStart]
      /\ \A q \in Calls : q # r => pc'[q] = pc[q] /\ entered'[q] = entered[q]
  BY <1>7 DEF Goto, TypeOK
<1>10. s = Scope(call[r].kind) /\ a = AddressOf[call[r].tab]
  BY DEF s, a
<1>11. Enters(r, now, s, a, e)
  BY <1>4, <1>6, <1>7, <1>8, <1>9, <1>10 DEF Enters
<1>. QED BY <1>1, <1>6, <1>11

LEMMA LimitTypes ==
  ASSUME TypeOK, NEW s \in Scopes, NEW a \in Addresses
  PROVE  /\ Limit[s] \in Nat \ {0} /\ clock \in Nat \ {0} /\ Window \in Nat \ {0}
         /\ entries[s][a].windowStart \in Nat /\ entries[s][a].count \in Nat
         /\ \A r \in Calls : entered[r].read \in Nat /\ entered[r].lock \in Nat
<1>1. entries[s][a] \in Entry /\ MaxTime \in Nat /\ clock \in 1 .. MaxTime
  BY ScenarioTypes DEF TypeOK, Entry
<1>2. Limit[s] \in Nat \ {0}
  BY ScenarioTypes DEF Limit
<1>3. ASSUME NEW r \in Calls PROVE entered[r].read \in Nat /\ entered[r].lock \in Nat
  <2>1. entered[r] \in [read : 0 .. MaxTime, lock : 0 .. MaxTime, win : 0 .. MaxTime]
    BY DEF TypeOK
  <2>. QED BY <1>1, <2>1
<1>. QED BY <1>1, <1>2, <1>3, WindowAssumption DEF Entry

\* A call that enters joins the sets of its scope, address and window if it is admitted.
LEMMA EnterSets ==
  ASSUME IInv, NEW r \in Calls, NEW now \in 1 .. MaxTime, NEW s \in Scopes,
         NEW a \in Addresses, NEW e \in Entry, Enters(r, now, s, a, e),
         NEW t \in Scopes, NEW c \in Addresses
  PROVE  LET joins == Admits(e, Limit[s]) /\ t = s /\ c = a IN
         /\ \A w : /\ r \notin InWindow(t, c, w) /\ InWindow(t, c, w) \subseteq Calls
                   /\ IF joins /\ w = e.windowStart
                        THEN InWindow(t, c, w)' = InWindow(t, c, w) \cup {r}
                        ELSE InWindow(t, c, w)' = InWindow(t, c, w)
         /\ \A b : /\ r \notin Within(t, c, b) /\ Within(t, c, b) \subseteq Calls
                   /\ IF joins /\ now >= b /\ clock < b + Window
                        THEN Within(t, c, b)' = Within(t, c, b) \cup {r}
                        ELSE Within(t, c, b)' = Within(t, c, b)
<1> DEFINE joins == Admits(e, Limit[s]) /\ t = s /\ c = a
<1>1. \A q \in Calls : q # r => /\ (Counts(q, t) /\ From(q, c))' <=> Counts(q, t) /\ From(q, c)
                                /\ entered'[q] = entered[q]
  BY DEF Enters, Counts, From
<1>2. ~Counts(r, t)
  BY DEF Enters, Counts
<1>3. (Counts(r, t) /\ From(r, c))' <=> joins
  BY DEF Enters, Counts, From
<1>4. /\ entered'[r].read = now /\ entered'[r].lock = clock
      /\ entered'[r].win = e.windowStart
  BY DEF Enters
<1>. HIDE DEF joins
<1>5. ASSUME NEW w PROVE IF joins /\ w = e.windowStart
                           THEN InWindow(t, c, w)' = InWindow(t, c, w) \cup {r}
                           ELSE InWindow(t, c, w)' = InWindow(t, c, w)
  BY <1>1, <1>2, <1>3, <1>4 DEF InWindow
<1>6. ASSUME NEW b PROVE IF joins /\ now >= b /\ clock < b + Window
                           THEN Within(t, c, b)' = Within(t, c, b) \cup {r}
                           ELSE Within(t, c, b)' = Within(t, c, b)
  BY <1>1, <1>2, <1>3, <1>4 DEF Within
<1>7. /\ \A w : r \notin InWindow(t, c, w) /\ InWindow(t, c, w) \subseteq Calls
      /\ \A b : r \notin Within(t, c, b) /\ Within(t, c, b) \subseteq Calls
  BY <1>2 DEF InWindow, Within
<1>. QED BY <1>5, <1>6, <1>7 DEF joins

LEMMA EnterWindow ==
  ASSUME IInv, NEW r \in Calls, NEW now \in 1 .. MaxTime, NEW s \in Scopes,
         NEW a \in Addresses, NEW e \in Entry, Enters(r, now, s, a, e),
         NEW t \in Scopes, NEW c \in Addresses, NEW w
  PROVE  /\ Cardinality(InWindow(t, c, w)) \in Nat /\ Cardinality(InWindow(t, c, w)') \in Nat
         /\ Cardinality(InWindow(t, c, w)) <= Cardinality(InWindow(t, c, w)')
         /\ Admits(e, Limit[s]) /\ t = s /\ c = a /\ w = e.windowStart =>
              Cardinality(InWindow(t, c, w)') = Cardinality(InWindow(t, c, w)) + 1
<1>1. /\ r \notin InWindow(t, c, w) /\ InWindow(t, c, w) \subseteq Calls
      /\ IF Admits(e, Limit[s]) /\ t = s /\ c = a /\ w = e.windowStart
           THEN InWindow(t, c, w)' = InWindow(t, c, w) \cup {r}
           ELSE InWindow(t, c, w)' = InWindow(t, c, w)
  BY EnterSets
<1>2. Cardinality(InWindow(t, c, w)) \in Nat
  BY <1>1, CallSets
<1>3. Cardinality(InWindow(t, c, w) \cup {r}) = Cardinality(InWindow(t, c, w)) + 1
  BY <1>1, CallSets
<1>. QED BY <1>1, <1>2, <1>3

LEMMA EnterEntries ==
  ASSUME IInv, IInv', LimiterInv, NEW r \in Calls, NEW now \in 1 .. MaxTime, NEW s \in Scopes,
         NEW a \in Addresses, NEW e \in Entry, Enters(r, now, s, a, e)
  PROVE  EntriesCount'
<1>. SUFFICES ASSUME NEW t \in Scopes, NEW c \in Addresses
              PROVE  /\ entries'[t][c].count <= Limit[t]
                     /\ \A w \in 1 .. MaxTime : entries'[t][c].windowStart = w =>
                          entries'[t][c].count <= Cardinality(InWindow(t, c, w)')
  BY DEF EntriesCount, Enters, Limit
<1>1. /\ entries[t][c].count <= Limit[t] /\ Limit[t] \in Nat \ {0}
      /\ \A w \in 1 .. MaxTime : entries[t][c].windowStart = w =>
           entries[t][c].count <= Cardinality(InWindow(t, c, w))
      /\ entries[t][c].count \in Nat
  BY LimitTypes DEF LimiterInv, EntriesCount, IInv
<1>2. \A w : /\ Cardinality(InWindow(t, c, w)) \in Nat /\ Cardinality(InWindow(t, c, w)') \in Nat
             /\ Cardinality(InWindow(t, c, w)) <= Cardinality(InWindow(t, c, w)')
             /\ Admits(e, Limit[s]) /\ t = s /\ c = a /\ w = e.windowStart =>
                  Cardinality(InWindow(t, c, w)') = Cardinality(InWindow(t, c, w)) + 1
  BY EnterWindow
<1>3. CASE t # s \/ c # a
  <2>1. CASE entries'[t][c] = entries[t][c]
    BY <1>1, <1>2, <2>1
  <2>2. CASE entries'[t][c] = NoEntry
    <3>1. entries'[t][c].count = 0 /\ entries'[t][c].windowStart = 0
      BY <2>2 DEF NoEntry
    <3>2. \A w \in 1 .. MaxTime : w # 0
      BY BoundsAssumption
    <3>. QED BY <1>1, <3>1, <3>2
  <2>. QED BY <1>3, <2>1, <2>2 DEF Enters
<1>4. CASE t = s /\ c = a
  <2>1. /\ entries'[t][c] = Counted(e, Limit[t]) /\ entries'[t][c].windowStart = e.windowStart
        /\ e.count \in Nat
        /\ entries'[t][c].count = IF e.count < Limit[t] THEN e.count + 1 ELSE e.count
    BY <1>4 DEF Enters, Counted, Entry, Admits
  <2>2. /\ e.count <= Limit[t]
        /\ \A w \in 1 .. MaxTime : e.windowStart = w => e.count <= Cardinality(InWindow(t, c, w))
    <3>1. CASE e = [windowStart |-> now, count |-> 0]
      BY <1>1, <1>2, <3>1
    <3>2. CASE e = entries[s][a]
      BY <1>1, <1>4, <3>2
    <3>. QED BY <3>1, <3>2 DEF Enters
  <2>3. entries'[t][c].count <= Limit[t]
    BY <1>1, <2>1, <2>2
  <2>4. ASSUME NEW w \in 1 .. MaxTime, e.windowStart = w
        PROVE  entries'[t][c].count <= Cardinality(InWindow(t, c, w)')
    <3>1. e.count <= Cardinality(InWindow(t, c, w))
      BY <2>2, <2>4
    <3>2. CASE e.count < Limit[t]
      <4>1. Cardinality(InWindow(t, c, w)') = Cardinality(InWindow(t, c, w)) + 1
        BY <1>2, <1>4, <2>4, <3>2 DEF Admits
      <4>. QED BY <1>2, <2>1, <3>1, <3>2, <4>1
    <3>3. CASE ~(e.count < Limit[t])
      BY <1>2, <2>1, <3>1, <3>3
    <3>. QED BY <3>2, <3>3
  <2>. QED BY <2>1, <2>3, <2>4
<1>. QED BY <1>3, <1>4

LEMMA EnterRefusals ==
  ASSUME IInv, IInv', LimiterInv, NEW r \in Calls, NEW now \in 1 .. MaxTime, NEW s \in Scopes,
         NEW a \in Addresses, NEW e \in Entry, Enters(r, now, s, a, e)
  PROVE  RefusalsJustified'
<1>1. ASSUME NEW q \in Calls, pc'[q] = "limited", NEW t, NEW c, NEW w,
             t = Scope(call[q].kind), c = AddressOf[call[q].tab], w = entered'[q].win
      PROVE  /\ entered'[q].read < entered'[q].win + Window
             /\ Limit[t] <= Cardinality(InWindow(t, c, w)')
  <2>1. t \in Scopes /\ c \in Addresses
    BY <1>1, CallTypes DEF IInv, CallsFollow, Enters
  <2>2. /\ Cardinality(InWindow(t, c, w)) <= Cardinality(InWindow(t, c, w)')
        /\ Cardinality(InWindow(t, c, w)) \in Nat /\ Cardinality(InWindow(t, c, w)') \in Nat
    BY <2>1, EnterWindow
  <2>3. Limit[t] \in Nat
    BY <2>1, LimitTypes DEF IInv
  <2>4. CASE q # r
    <3>1. pc[q] = "limited" /\ entered'[q] = entered[q]
      BY <1>1, <2>4 DEF Enters
    <3>2. /\ entered[q].read < entered[q].win + Window
          /\ Limit[t] <= Cardinality(InWindow(t, c, w))
      BY <1>1, <3>1 DEF LimiterInv, RefusalsJustified
    <3>. QED BY <2>2, <2>3, <3>1, <3>2
  <2>5. CASE q = r
    <3>1. /\ ~Admits(e, Limit[s]) /\ t = s /\ c = a /\ w = e.windowStart
          /\ entered'[q].read = now /\ entered'[q].win = e.windowStart
      BY <1>1, <2>5 DEF Enters
    <3>2. /\ Limit[s] \in Nat \ {0} /\ entries[s][a].windowStart \in Nat
          /\ entries[s][a].count \in Nat /\ Window \in Nat
      BY LimitTypes DEF IInv
    <3>3. e = entries[s][a] /\ e.windowStart # 0 /\ now - e.windowStart < Window
      BY <3>1, <3>2 DEF Enters, Admits
    <3>4. Limit[s] <= entries[s][a].count
      BY <3>1, <3>2, <3>3 DEF Admits
    <3>5. w \in 1 .. MaxTime
      BY <3>1, <3>3, BoundsAssumption DEF Entry
    <3>6. entries[s][a].count <= Cardinality(InWindow(s, a, w))
      BY <3>1, <3>3, <3>5 DEF LimiterInv, EntriesCount
    <3>. QED BY <2>2, <2>3, <3>1, <3>2, <3>3, <3>4, <3>6
  <2>. QED BY <2>4, <2>5
<1>2. Limit' = Limit /\ call' = call
  BY DEF Enters, Limit
<1>. QED BY <1>1, <1>2 DEF RefusalsJustified

\* What became of a span's newest and older calls, when a call enters at its address.
LEMMA EnterSpans ==
  ASSUME IInv, IInv', LimiterInv, NEW r \in Calls, NEW now \in 1 .. MaxTime, NEW s \in Scopes,
         NEW a \in Addresses, NEW e \in Entry, Enters(r, now, s, a, e)
  PROVE  Spans'
<1>. SUFFICES ASSUME NEW t \in Scopes, NEW c \in Addresses, NEW b \in 1 .. MaxTime,
                     clock < b + Window, Within(t, c, b)' # {}
              PROVE  /\ entries'[t][c].windowStart # 0 /\ entries'[t][c].windowStart > b - Window
                     /\ Cardinality(Newest(t, c, b)') <= entries'[t][c].count
                     /\ Cardinality(Older(t, c, b)') <= Limit[t]
                     /\ entries'[t][c].windowStart < b => Older(t, c, b)' = {}
  BY DEF Spans, Enters, Limit
<1> DEFINE W == Within(t, c, b)
           N == Newest(t, c, b)
           O == Older(t, c, b)
           old == entries[t][c]
           new == entries'[t][c]
<1>1. /\ Limit[t] \in Nat \ {0} /\ clock \in Nat /\ Window \in Nat \ {0} /\ b \in Nat
      /\ now \in Nat \ {0} /\ now <= clock
      /\ old.windowStart \in Nat /\ old.count \in Nat /\ old.count <= Limit[t]
  BY LimitTypes, BoundsAssumption DEF IInv, Enters, LimiterInv, EntriesCount
<1>2. W # {} => /\ old.windowStart # 0 /\ old.windowStart > b - Window
                /\ Cardinality(N) <= old.count /\ Cardinality(O) <= Limit[t]
                /\ old.windowStart < b => O = {}
  BY DEF LimiterInv, Spans
<1>3. /\ r \notin W /\ W \subseteq Calls
      /\ \A q \in W : q # r /\ entered'[q] = entered[q]
  <2>1. r \notin W /\ W \subseteq Calls
    BY EnterSets
  <2>. QED BY <2>1 DEF Enters
<1>4. /\ N = {q \in W : entered[q].win = old.windowStart}
      /\ O = {q \in W : entered[q].win # old.windowStart}
      /\ N' = {q \in W' : entered'[q].win = new.windowStart}
      /\ O' = {q \in W' : entered'[q].win # new.windowStart}
  BY DEF Newest, Older
<1>5. /\ Cardinality(N) \in Nat /\ Cardinality(O) \in Nat /\ Cardinality(W) \in Nat
      /\ Cardinality({}) = 0 /\ Cardinality({r}) = 1
      /\ Cardinality(N \cup {r}) = Cardinality(N) + 1
  <2>1. N \in SUBSET Calls /\ O \in SUBSET Calls /\ W \in SUBSET Calls /\ r \in Calls \ N
    BY <1>3, <1>4
  <2>. QED BY <2>1, CallSets, FS_EmptySet, FS_Singleton
<1>6. CASE t # s \/ c # a
  <2>1. W' = W
    BY <1>6, EnterSets
  <2>2. W # {} /\ (new = old \/ now - old.windowStart >= 2 * Window)
    BY <1>6, <2>1 DEF Enters
  <2>3. new = old
    BY <1>1, <1>2, <2>2
  <2>4. N' = N /\ O' = O
    BY <1>3, <1>4, <2>1, <2>3
  <2>. QED BY <1>2, <2>2, <2>3, <2>4
<1>7. CASE t = s /\ c = a
  <2>1. /\ new.windowStart = e.windowStart /\ e.count \in Nat /\ e.windowStart \in Int
        /\ new.count = IF e.count < Limit[t] THEN e.count + 1 ELSE e.count
        /\ entered'[r].win = e.windowStart
    BY <1>7 DEF Enters, Counted, Entry, Admits
  <2>2. IF e.count < Limit[t] /\ now >= b THEN W' = W \cup {r} ELSE W' = W
    BY <1>7, EnterSets DEF Admits
  <2>3. \/ /\ e = [windowStart |-> now, count |-> 0]
           /\ old.windowStart = 0 \/ now - old.windowStart >= Window
        \/ e = old /\ old.windowStart # 0 /\ now - old.windowStart < Window
    BY <1>7 DEF Enters
  <2>4. W' # {}
    OBVIOUS
  <2>. HIDE DEF W, N, O, old, new
  <2>5. CASE /\ e = [windowStart |-> now, count |-> 0]
             /\ old.windowStart = 0 \/ now - old.windowStart >= Window
    <3>1. e.count = 0 /\ e.windowStart = now /\ new.windowStart = now /\ new.count = 1
      BY <1>1, <2>1, <2>5
    <3>2. W # {} => old.windowStart < b /\ old.windowStart # now /\ now >= b
      BY <1>1, <1>2, <2>5
    <3>3. now >= b
      BY <2>2, <2>4, <3>2
    <3>4. W' = W \cup {r}
      BY <1>1, <2>2, <3>1, <3>3
    <3>5. W # {} => O = {}
      BY <1>2, <3>2
    <3>6. W = {} \/ W = N
      BY <1>4, <3>5
    <3>7. \A q \in W : entered'[q].win # now
      BY <1>3, <1>4, <3>2, <3>6
    <3>8. N' = {r} /\ O' = W
      BY <1>4, <2>1, <3>1, <3>4, <3>7
    <3>9. Cardinality(W) <= Limit[t]
      <4>1. CASE W = {}
        BY <1>1, <1>5, <4>1
      <4>2. CASE W # {}
        <5>1. Cardinality(W) <= old.count
          BY <1>2, <3>6, <4>2
        <5>. QED BY <1>1, <1>5, <5>1
      <4>. QED BY <4>1, <4>2
    <3>10. now # 0 /\ now > b - Window /\ ~(now < b)
      BY <1>1, <3>3
    <3>. QED BY <1>1, <1>5, <3>1, <3>8, <3>9, <3>10 DEF N, O, new
  <2>6. CASE e = old /\ old.windowStart # 0 /\ now - old.windowStart < Window
    <3>1. CASE e.count < Limit[t] /\ now >= b
      <4>1. /\ W' = W \cup {r} /\ new.windowStart = old.windowStart
            /\ new.count = old.count + 1 /\ old.windowStart > b - Window
        BY <1>1, <2>1, <2>2, <2>6, <3>1
      <4>2. N' = N \cup {r} /\ O' = O
        BY <1>3, <1>4, <2>1, <2>6, <4>1
      <4>3. W = {} => N = {} /\ O = {}
        BY <1>4
      <4>4. /\ Cardinality(N) <= old.count /\ Cardinality(O) <= Limit[t]
            /\ old.windowStart < b => O = {}
        <5>1. CASE W = {}
          BY <1>1, <1>5, <4>3, <5>1
        <5>2. CASE W # {}
          BY <1>2, <5>2
        <5>. QED BY <5>1, <5>2
      <4>5. Cardinality(N') <= new.count
        BY <1>1, <1>5, <4>1, <4>2, <4>4
      <4>. QED BY <2>6, <4>1, <4>2, <4>4, <4>5 DEF N, O, new
    <3>2. CASE ~(e.count < Limit[t] /\ now >= b)
      <4>1. W' = W /\ W # {} /\ new.windowStart = old.windowStart
        BY <2>1, <2>2, <2>4, <2>6, <3>2
      <4>2. old.count <= new.count /\ new.count \in Nat
        BY <1>1, <2>1, <2>6
      <4>3. N' = N /\ O' = O
        BY <1>3, <1>4, <4>1
      <4>4. Cardinality(N) <= new.count
        BY <1>1, <1>2, <1>5, <4>1, <4>2
      <4>. QED BY <1>2, <4>1, <4>3, <4>4 DEF N, O, new
    <3>. QED BY <3>1, <3>2
  <2>. QED BY <2>3, <2>5, <2>6
<1>. QED BY <1>6, <1>7

LEMMA EnterAdmissions ==
  ASSUME IInv, IInv', LimiterInv, EntriesCount', Spans', NEW r \in Calls, NEW now \in 1 .. MaxTime,
         NEW s \in Scopes, NEW a \in Addresses, NEW e \in Entry, Enters(r, now, s, a, e)
  PROVE  AdmissionsBounded'
<1>. SUFFICES ASSUME NEW t \in Scopes, NEW c \in Addresses, NEW b \in 1 .. MaxTime
              PROVE  Cardinality(Within(t, c, b)') <= 2 * Limit[t]
  BY DEF AdmissionsBounded, Enters, Limit
<1> DEFINE W == Within(t, c, b)
<1>1. /\ Limit[t] \in Nat /\ UNCHANGED <<clock, scenario>> /\ W \subseteq Calls
      /\ entries'[t][c].count \in Nat
  <2>1. W \subseteq Calls
    BY EnterSets
  <2>2. entries'[t][c] \in Entry
    BY DEF IInv, TypeOK, Entry
  <2>. QED BY <2>1, <2>2, LimitTypes DEF IInv, Enters, Entry
<1>2. CASE ~(clock < b + Window)
  <2>1. W' = W
    BY <1>2, EnterSets
  <2>. QED BY <2>1 DEF LimiterInv, AdmissionsBounded
<1>3. CASE clock < b + Window /\ W' = {}
  <2>1. Cardinality(W') = 0
    BY <1>3, FS_EmptySet
  <2>. QED BY <1>1, <2>1
<1>4. CASE clock < b + Window /\ W' # {}
  <2> DEFINE N == Newest(t, c, b)
             O == Older(t, c, b)
  <2>1. W' \subseteq Calls /\ W' = N' \cup O'
    BY DEF Within, Newest, Older
  <2>2. N' \subseteq Calls /\ O' \subseteq Calls
    BY <2>1
  <2>3. /\ Cardinality(N') <= entries'[t][c].count /\ Cardinality(O') <= Limit[t]
        /\ entries'[t][c].count <= Limit[t]
    BY <1>1, <1>4 DEF Spans, EntriesCount, Limit
  <2>4. /\ Cardinality(N') \in Nat /\ Cardinality(O') \in Nat /\ Cardinality(N' \cap O') \in Nat
        /\ Cardinality(W') = Cardinality(N') + Cardinality(O') - Cardinality(N' \cap O')
    <3>. HIDE DEF N, O, W
    <3>1. IsFiniteSet(N') /\ IsFiniteSet(O') /\ IsFiniteSet(N' \cap O')
      BY <2>2, CallSets
    <3>. QED BY <2>1, <3>1, FS_Union, FS_CardinalityType
  <2>. HIDE DEF N, O, W
  <2>5. Cardinality(W') <= 2 * Limit[t]
    BY <1>1, <2>3, <2>4
  <2>. QED BY <2>5 DEF W
<1>. QED BY <1>2, <1>3, <1>4

\* Every other step leaves the limiter and the calls it has counted or refused alone.
LEMMA OthersRest ==
  ASSUME IInv, [Next]_vars, ~\E r \in Calls, now \in 1 .. MaxTime : Enter(r, now)
  PROVE  /\ UNCHANGED <<scenario, entries, entered>> /\ clock <= clock'
         /\ \A q \in Calls : \/ pc[q] = "unsent" /\ pc'[q] \in {"unsent", "sent"}
                             \/ pc[q] = "sent" /\ pc'[q] = "sent"
                             \/ /\ pc[q] \notin {"unsent", "sent"} /\ call'[q] = call[q]
                                /\ pc'[q] \notin {"unsent", "sent"}
                                /\ pc[q] = "limited" <=> pc'[q] = "limited"
<1>. USE DEF IInv
<1>1. clock \in Nat /\ clock <= clock
  BY ScenarioTypes
<1>2. CASE UNCHANGED vars
  BY <1>1, <1>2 DEF vars, server
<1>3. ASSUME NEW r \in Calls, Serve(r)
      PROVE  /\ UNCHANGED <<scenario, clock, entries, entered, call>>
             /\ \E p \in Place \ {"unsent", "sent", "limited"} : Goto(r, p)
             /\ pc[r] \notin {"unsent", "sent", "limited"}
  BY <1>3 DEF Serve, Authenticate, Register, Login, CreateSession, CreateMember, HandleLogout, Me,
              List, Change, HandlerFails, Is, server, Place, AtWork, Answers
<1>4. ASSUME NEW r \in Calls, Serve(r)
      PROVE  /\ pc'[r] \notin {"unsent", "sent", "limited"}
             /\ \A q \in Calls : q # r => pc'[q] = pc[q]
  <2>1. PICK p \in Place \ {"unsent", "sent", "limited"} : Goto(r, p)
    BY <1>3, <1>4
  <2>. QED BY <2>1, GotoStep
<1>5. ASSUME NEW kind, NEW user, NEW tok, Sends(kind, user, tok)
      PROVE  /\ UNCHANGED <<scenario, clock, entries, entered>>
             /\ issued' \in Calls /\ pc[issued'] = "unsent" /\ pc'[issued'] = "sent"
             /\ \A q \in Calls : q # issued' => call'[q] = call[q] /\ pc'[q] = pc[q]
  <2>1. PICK t \in Tabs, after \in [Calls -> ToldTo] : Send(t, kind, user, tok, after)
    BY <1>5 DEF Sends
  <2>2. kind \in Kinds /\ user \in Emails \cup {None} /\ tok \in Tokens \cup {None}
    BY <1>5 DEF Sends
  <2>3. /\ issued' \in Calls /\ pc'[issued'] = "sent" /\ issued' = issued + 1
        /\ \A q \in Calls : q # issued' => call'[q] = call[q] /\ pc'[q] = pc[q]
    BY <2>1, <2>2, SendStep
  <2>4. issued' > issued
    BY <2>3, ScenarioTypes
  <2>. QED BY <1>5, <2>3, <2>4 DEF Sends, server, CallsFollow
<1>6. CASE Hears
  BY <1>6 DEF Hears, server
<1>7. CASE \E r \in Calls : Serve(r)
  BY <1>1, <1>3, <1>4, <1>7
<1>8. CASE \E kind, user, tok : Sends(kind, user, tok)
  BY <1>1, <1>5, <1>8
<1>. QED BY <1>2, <1>6, <1>7, <1>8, StepKinds

LEMMA NextLimiter == ASSUME IInv, LimiterInv, [Next]_vars PROVE LimiterInv'
<1>1. IInv'
  BY NextInv
<1>2. ASSUME NEW r \in Calls, NEW now \in 1 .. MaxTime, Enter(r, now) PROVE LimiterInv'
  <2>1. PICK s \in Scopes, a \in Addresses, e \in Entry : Enters(r, now, s, a, e)
    BY <1>2, EnterStep
  <2>2. EntriesCount' /\ Spans' /\ RefusalsJustified'
    BY <1>1, <2>1, EnterEntries, EnterSpans, EnterRefusals
  <2>3. AdmissionsBounded'
    BY <1>1, <2>1, <2>2, EnterAdmissions
  <2>. QED BY <2>2, <2>3 DEF LimiterInv
<1>3. CASE ~\E r \in Calls, now \in 1 .. MaxTime : Enter(r, now)
  <2>1. /\ UNCHANGED <<Limit, entries, entered>> /\ clock <= clock'
        /\ \A q \in Calls : \/ pc[q] \in {"unsent", "sent"} /\ pc'[q] \in {"unsent", "sent"}
                            \/ /\ pc[q] \notin {"unsent", "sent"} /\ call'[q] = call[q]
                               /\ pc'[q] \notin {"unsent", "sent"}
                               /\ pc[q] = "limited" <=> pc'[q] = "limited"
    BY <1>3, OthersRest DEF Limit
  <2>2. /\ clock \in Nat /\ clock' \in Nat
        /\ \A b \in 1 .. MaxTime : clock' < b + Window => clock < b + Window
    BY <1>1, <2>1, ScenarioTypes, BoundsAssumption, WindowAssumption DEF IInv, TypeOK
  <2>3. ASSUME NEW s, NEW a, NEW q \in Calls
        PROVE  (Counts(q, s) /\ From(q, a))' <=> Counts(q, s) /\ From(q, a)
    BY <2>1 DEF Counts, From
  <2>4. /\ \A s, a, w : InWindow(s, a, w)' = InWindow(s, a, w)
        /\ \A s, a, b : Within(s, a, b)' = Within(s, a, b)
    BY <2>1, <2>3 DEF InWindow, Within
  <2>5. \A s, a, b : Newest(s, a, b)' = Newest(s, a, b) /\ Older(s, a, b)' = Older(s, a, b)
    BY <2>1, <2>4 DEF Newest, Older
  <2>6. EntriesCount'
    BY <2>1, <2>4 DEF LimiterInv, EntriesCount
  <2>7. Spans'
    BY <2>1, <2>2, <2>4, <2>5 DEF LimiterInv, Spans
  <2>8. AdmissionsBounded'
    BY <2>1, <2>4 DEF LimiterInv, AdmissionsBounded
  <2>9. RefusalsJustified'
    <3>1. \A q \in Calls : pc'[q] = "limited" => pc[q] = "limited" /\ call'[q] = call[q]
      BY <2>1
    <3>. QED BY <2>1, <2>4, <3>1 DEF LimiterInv, RefusalsJustified
  <2>. QED BY <2>6, <2>7, <2>8, <2>9 DEF LimiterInv
<1>. QED BY <1>2, <1>3

LEMMA InitLimiter == Init => LimiterInv
<1>. SUFFICES ASSUME Init PROVE LimiterInv
  OBVIOUS
<1>1. IInv
  BY InitInv
<1>2. /\ \A s \in Scopes, a \in Addresses : entries[s][a] = NoEntry /\ Limit[s] \in Nat
      /\ \A s, a, w : InWindow(s, a, w) = {}
      /\ \A s, a, b : Within(s, a, b) = {}
      /\ \A r \in Calls : pc[r] # "limited"
  BY <1>1, LimitTypes DEF Init, InWindow, Within, Counts, IInv
<1>3. Cardinality({}) = 0
  BY FS_EmptySet
<1>4. EntriesCount
  BY <1>2, BoundsAssumption DEF EntriesCount, NoEntry
<1>5. AdmissionsBounded
  <2>1. ASSUME NEW s \in Scopes, NEW a \in Addresses, NEW b \in 1 .. MaxTime
        PROVE  Cardinality(Within(s, a, b)) <= 2 * Limit[s]
    <3>1. Cardinality(Within(s, a, b)) = 0
      BY <1>2, <1>3
    <3>2. Limit[s] \in Nat
      BY <1>2, <2>1
    <3>. QED BY <3>1, <3>2
  <2>. QED BY <2>1 DEF AdmissionsBounded
<1>. QED BY <1>2, <1>4, <1>5 DEF LimiterInv, Spans, RefusalsJustified

-----------------------------------------------------------------------------
(* The workspace *)

\* A call is sent once, and overlaps the calls its tab then waits for.
CallsInOrder ==
  /\ \A r \in Calls : IF r > issued
                        THEN call[r] = NoCall /\ told[r] = "nothing"
                        ELSE call[r] \in Call /\ told[r] # "nothing" /\ pc[r] # "unsent"
  /\ \A r \in Calls : told[r] = "ok" => pc[r] = "ok"
  /\ \A q, r \in Calls :
       q < r /\ r <= issued /\ told[q] = "awaiting" /\ Tab(q) = Tab(r) => q \in call[r].over

\* Whose a token is, as long as it is worth anything.
UserOf(k) == IF k \in Calls THEN who[k] ELSE Home[k]

\* Sessions are made by sign-ins, and a call acts for the user its token is of.
SessionsFollow ==
  /\ \A k \in Tokens : session[k] # NoSession =>
       /\ session[k].user = UserOf(k)
       /\ k \in Calls => pc[k] = "ok" /\ call[k].kind \in SignIns
  /\ \A r \in Calls : r <= issued /\ call[r].kind \notin SignIns /\ who[r] # None =>
       call[r].token # None /\ who[r] = UserOf(call[r].token)

\* An organization's changes are numbered in order, and a list that its tab sent after
\* it was told of a change has seen it.
ChangesFollow ==
  \A q \in Calls : call[q].kind = "change" /\ pc[q] = "ok" =>
    /\ version[Organization(q)] >= seen[q]
    /\ \A r \in Calls :
         /\ call[r].kind \in Lists /\ Tab(r) = Tab(q) /\ q < r /\ q \notin call[r].over
         /\ told[q] = "ok" /\ pc[r] = "ok" /\ Organization(r) = Organization(q)
         => seen[r] >= seen[q]

\* A page knows the user of the token it holds, unless it waits to be told; one
\* operation at a time holds its gate, and none a sign-in or a check overlaps.
Gated == SignIns \cup {"member", "change", "propose", "relist"}
PageFollows(t) ==
  /\ principal[t] # None => token[t] # None
  /\ \A k \in Tokens : principal[t] # None /\ token[t] = k => principal[t] = UserOf(k)
  /\ principal[t] = None /\ token[t] # None => \E r \in Awaited(t) : call[r].kind = "me"
  /\ \A r \in Awaited(t) : call[r].kind = "me" =>
       /\ principal[t] = None /\ token[t] = call[r].token /\ token[t] # None
       /\ \A q \in Awaited(t) : q = r
  /\ \A r \in Awaited(t) : call[r].kind \in Gated =>
       loading[t] /\ \A q \in Awaited(t) : call[q].kind \in Gated => q = r
  /\ \A r \in Awaited(t) : call[r].kind \in SignIns => principal[t] = None /\ token[t] = None

\* A list was asked for with the token its tab still holds, or overlapped a sign-out.
OverlapsLogout(r) == \E q \in Calls : call[q].kind = "logout" /\ Overlap(q, r)
IsOwn(r) == OverlapsLogout(r) \/ (principal[Tab(r)] # None /\ token[Tab(r)] = call[r].token)
ListsAreOwn(t) ==
  /\ \A r \in Awaited(t) : call[r].kind \in Lists => IsOwn(r) \/ call[r].token = None
  /\ \A r \in Calls : shown[t] = r =>
       call[r].kind \in Lists /\ Tab(r) = t /\ told[r] = "ok" /\ IsOwn(r)

\* A page was filled after its changes, or its refresh is under way or failed.
RefreshDue(t, q) ==
  \E l \in Calls : /\ call[l].kind = "relist" /\ Tab(l) = t /\ l > q
                   /\ told[l] \in {"failed", "awaiting"}
ChangesAreShown(t) ==
  \A q, r \in Calls : call[q].kind = "change" /\ told[q] = "ok" /\ Tab(q) = t /\ shown[t] = r =>
    q < r \/ Overlap(q, r) \/ RefreshDue(t, q)

\* A sign-out ends the session whose token the tab holds, but for one of a sign-in it overlapped.
LogoutsForget(t) ==
  \A r \in Awaited(t), k \in Tokens : call[r].kind = "logout" /\ token[t] = k =>
    k = call[r].token \/ (k \in Calls /\ Overlap(r, k))

PageInv(t) == PageFollows(t) /\ ListsAreOwn(t) /\ ChangesAreShown(t) /\ LogoutsForget(t)

\* A session's token is with a tab, or on its way there, or something went wrong.
Held(k) ==
  (\E t \in Tabs : token[t] = k) \/ (k \in Calls /\ told[k] = "awaiting") \/ WentWrong(k)
SessionsAreHeld == \A k \in Tokens : session[k] # NoSession => Held(k)

WorkspaceInv ==
  /\ CallsInOrder /\ SessionsFollow /\ ChangesFollow /\ SessionsAreHeld
  /\ \A t \in Tabs : PageInv(t)

LEMMA SentTypes ==
  ASSUME IInv, CallsInOrder, NEW r \in Calls
  PROVE  /\ r \in Nat /\ issued \in Nat
         /\ told[r] # "nothing" \/ call[r].kind # "none" \/ pc[r] # "unsent" => r <= issued
         /\ r <= issued => call[r] \in Call /\ Tab(r) \in Tabs /\ call[r].kind \in Kinds
<1>1. r \in Nat /\ issued \in Nat
  BY ScenarioTypes DEF Calls, IInv
<1>2. r > issued => call[r].kind = "none" /\ told[r] = "nothing" /\ pc[r] = "unsent"
  BY DEF CallsInOrder, NoCall, IInv, CallsFollow
<1>. QED BY <1>1, <1>2, CallTypes DEF CallsInOrder, IInv

\* Any two calls a tab waits for overlap.
LEMMA AwaitedOverlap ==
  ASSUME IInv, CallsInOrder, NEW t \in Tabs, NEW q \in Awaited(t), NEW r \in Awaited(t), q # r
  PROVE  Overlap(q, r)
<1>1. /\ q \in Calls /\ r \in Calls /\ told[q] = "awaiting" /\ told[r] = "awaiting"
      /\ Tab(q) = Tab(r)
  BY DEF Awaited
<1>2. q \in Nat /\ r \in Nat /\ q <= issued /\ r <= issued
  BY <1>1, SentTypes
<1>3. q < r \/ r < q
  BY <1>2
<1>. QED BY <1>1, <1>2, <1>3 DEF CallsInOrder, Overlap

LEMMA InitWorkspace == Init => WorkspaceInv
<1>. SUFFICES ASSUME Init PROVE WorkspaceInv
  OBVIOUS
<1>1. /\ \A r \in Calls : /\ call[r] = NoCall /\ call[r].kind = "none" /\ told[r] = "nothing"
                          /\ who[r] = None /\ r > issued
      /\ \A t \in Tabs : /\ Awaited(t) = {} /\ shown[t] = None /\ principal[t] = Home[t]
                         /\ token[t] = IF Home[t] = None THEN None ELSE t
                         /\ UserOf(t) = Home[t] /\ t # None
  <2>1. \A r \in Calls : r > 0
    BY BoundsAssumption DEF Calls
  <2>. QED BY <2>1, SetsAssumption DEF Init, Awaited, UserOf, NoCall, Tokens
<1>2. CallsInOrder
  BY <1>1 DEF CallsInOrder, Init
<1>3. \A k \in Tokens : session[k] # NoSession =>
        k \in Tabs /\ session[k].user = Home[k] /\ Home[k] # None
  BY DEF Init, NoSession
<1>4. SessionsFollow
  BY <1>1, <1>3, SetsAssumption DEF SessionsFollow
<1>5. ChangesFollow
  BY <1>1 DEF ChangesFollow
<1>6. SessionsAreHeld
  BY <1>1, <1>3 DEF SessionsAreHeld, Held
<1>7. ASSUME NEW t \in Tabs PROVE PageInv(t)
  <2>1. \A r \in Calls : shown[t] # r
    BY <1>1, SetsAssumption DEF Tokens
  <2>2. PageFollows(t)
    BY <1>1 DEF PageFollows
  <2>. QED BY <1>1, <2>1, <2>2 DEF PageInv, ListsAreOwn, ChangesAreShown, LogoutsForget
<1>. QED BY <1>2, <1>4, <1>5, <1>6, <1>7 DEF WorkspaceInv

\* What a handler's step changes of the calls, accounts, sessions and versions.
LEMMA ServeStep ==
  ASSUME IInv, NEW r \in Calls, Serve(r)
  PROVE  /\ UNCHANGED <<issued, call, told, workspace>>
         /\ pc[r] \in AtWork /\ pc'[r] # "unsent"
         /\ \A q \in Calls : q # r => pc'[q] = pc[q] /\ who'[q] = who[q] /\ seen'[q] = seen[q]
         /\ who[r] # None => who'[r] = who[r]
         /\ \A u \in Emails : account[u] # None => account'[u] = account[u]
<1>. USE DEF IInv
<1>1. /\ UNCHANGED <<issued, call, told, workspace>>
      /\ pc[r] \in AtWork /\ \E p \in Place \ {"unsent"} : Goto(r, p)
  BY DEF Serve, Enter, Authenticate, Register, Login, CreateSession, CreateMember, HandleLogout, Me,
         List, Change, HandlerFails, Is, Place, AtWork, Answers
<1>2. pc'[r] # "unsent" /\ \A q \in Calls : q # r => pc'[q] = pc[q]
  BY <1>1, GotoStep
<1>3. /\ \A q \in Calls : q # r => who'[q] = who[q] /\ seen'[q] = seen[q]
      /\ who' # who => pc[r] = "admitted"
  BY DEF Serve, Enter, Authenticate, Register, Login, CreateSession, CreateMember, HandleLogout, Me,
         List, Change, HandlerFails, Is, TypeOK
<1>4. ASSUME NEW u \in Emails, account[u] # None PROVE account'[u] = account[u]
  BY <1>4 DEF Serve, Enter, Authenticate, Register, Login, CreateSession, CreateMember, HandleLogout,
              Me, List, Change, HandlerFails, AfterRollback, Taken, TypeOK, server
<1>5. who[r] # None => who'[r] = who[r]
  BY <1>3 DEF UsersExist
<1>. QED BY <1>1, <1>2, <1>3, <1>4, <1>5

\* What a handler's step does to sessions.
LEMMA ServeSessions ==
  ASSUME IInv, NEW r \in Calls, Serve(r)
  PROVE  /\ \A k \in Tokens : k # r /\ session'[k] # NoSession => session'[k] = session[k]
         /\ session'[r] # session[r] /\ session'[r] # NoSession =>
              /\ pc[r] = "created" /\ pc'[r] = "ok" /\ call[r].kind \in SignIns
              /\ session'[r].user = who[r] /\ who'[r] = who[r]
         /\ call[r].kind \notin SignIns /\ who[r] = None /\ who'[r] # None =>
              /\ call[r].token \in Tokens /\ session[call[r].token] # NoSession
              /\ who'[r] = session[call[r].token].user
<1>. USE DEF IInv
<1>1. r \in Tokens /\ pc[r] # "unsent"
  BY ServeStep DEF Tokens, AtWork
<1>2. CASE CreateSession(r)
  <2>1. /\ Goto(r, "ok") /\ pc[r] = "created" /\ UNCHANGED who
        /\ session' = [session EXCEPT ![r] = [user |-> who[r], expires |-> clock + Lifetime]]
    BY <1>2 DEF CreateSession
  <2>2. session'[r].user = who[r] /\ \A k \in Tokens : k # r => session'[k] = session[k]
    BY <1>1, <2>1 DEF TypeOK
  <2>3. pc'[r] = "ok" /\ call[r].kind \in SignIns
    BY <2>1 DEF Goto, TypeOK, CallsFollow
  <2>. QED BY <2>1, <2>2, <2>3
<1>3. CASE HandleLogout(r)
  BY <1>1, <1>3 DEF HandleLogout, Revoked, TypeOK
<1>4. CASE ~CreateSession(r) /\ ~HandleLogout(r)
  <2>1. UNCHANGED session
    BY <1>4 DEF Serve, Enter, Authenticate, Register, Login, CreateMember, Me, List, Change,
                HandlerFails, server
  <2>2. CASE Authenticate(r)
    <3>1. CASE Valid(call[r].token)
      <4>1. call[r].token \in Tokens /\ session[call[r].token] # NoSession
        BY <1>1, <3>1, CallTypes DEF Valid, CallsFollow
      <4>2. who'[r] = session[call[r].token].user
        BY <2>2, <3>1 DEF Authenticate, TypeOK
      <4>. QED BY <2>1, <4>1, <4>2
    <3>2. CASE ~Valid(call[r].token)
      BY <2>1, <2>2, <3>2 DEF Authenticate
    <3>. QED BY <3>1, <3>2
  <2>3. CASE ~Authenticate(r)
    <3>1. call[r].kind \notin SignIns => UNCHANGED who
      BY <1>4, <2>3 DEF Serve, Enter, Register, Login, CreateMember, Me, List, Change, HandlerFails,
                        Is, SignIns
    <3>. QED BY <2>1, <3>1
  <2>. QED BY <2>2, <2>3
<1>. QED BY <1>2, <1>3, <1>4

\* What a handler's step does to versions.
LEMMA ServeVersions ==
  ASSUME IInv, NEW r \in Calls, Serve(r)
  PROVE  /\ \A o \in Emails : version[o] \in Nat /\ version'[o] \in Nat /\ version'[o] >= version[o]
         /\ pc'[r] = "ok" /\ call[r].kind \in Lists \cup {"change"} =>
              /\ who'[r] = who[r] /\ account' = account /\ Organization(r) \in Emails
              /\ call[r].kind \in Lists => seen'[r] = version[Organization(r)]
              /\ call[r].kind = "change" => seen'[r] = version'[Organization(r)]
<1>. USE DEF IInv
<1>1. ASSUME NEW q \in Calls, pc[q] = "authorized" PROVE Organization(q) \in Emails
  <2>1. who[q] \in Emails /\ account[who[q]] \in Account
    BY <1>1 DEF UsersExist, TypeOK
  <2>. QED BY <2>1 DEF Organization, Account
<1>2. version \in [Emails -> Nat] /\ seen \in [Calls -> Nat]
  BY DEF TypeOK
<1>3. CASE Change(r)
  <2>1. pc[r] = "authorized" /\ Organization(r) \in Emails /\ call[r].kind \in {"change", "propose"}
        /\ UNCHANGED <<who, account>>
    BY <1>1, <1>3 DEF Change, Is
  <2>2. CASE Owner(r)
    <3>1. /\ version' = [version EXCEPT ![Organization(r)] = @ + 1]
          /\ seen' = [seen EXCEPT ![r] = version[Organization(r)] + 1]
      BY <1>3, <2>2 DEF Change
    <3>2. seen'[r] = version'[Organization(r)]
      BY <1>2, <2>1, <3>1
    <3>3. \A o \in Emails : version[o] \in Nat /\ version'[o] \in Nat /\ version'[o] >= version[o]
      BY <1>2, <2>1, <3>1
    <3>. QED BY <2>1, <3>2, <3>3 DEF Lists
  <2>3. CASE ~Owner(r)
    <3>1. version' = version /\ pc'[r] # "ok"
      BY <1>3, <2>3 DEF Change, Goto, TypeOK
    <3>. QED BY <1>2, <3>1
  <2>. QED BY <2>2, <2>3
<1>4. CASE List(r)
  <2>1. /\ pc[r] = "authorized" /\ Organization(r) \in Emails /\ call[r].kind \in Lists
        /\ UNCHANGED <<who, account, version>> /\ seen'[r] = version[Organization(r)]
    BY <1>1, <1>2, <1>4 DEF List, Is, server
  <2>. QED BY <1>2, <2>1 DEF Lists
<1>5. CASE ~Change(r) /\ ~List(r)
  <2>1. UNCHANGED version
    BY <1>5 DEF Serve, Enter, Authenticate, Register, Login, CreateSession, CreateMember,
                HandleLogout, Me, HandlerFails, server
  <2>2. pc'[r] = "ok" => call[r].kind \notin Lists \cup {"change"}
    <3>1. CASE CreateSession(r)
      BY <3>1 DEF CreateSession, CallsFollow, SignIns, Lists
    <3>2. CASE ~CreateSession(r)
      BY <1>5, <3>2 DEF Serve, Enter, Authenticate, Register, Login, CreateMember, HandleLogout, Me,
                        HandlerFails, Goto, TypeOK, Is, Lists
    <3>. QED BY <3>1, <3>2
  <2>. QED BY <1>2, <2>1, <2>2
<1>. QED BY <1>3, <1>4, <1>5

\* Calls, tabs and what tabs were told are as before, and answered calls act for the same
\* user of the same organization.
LEMMA ServeKeeps ==
  ASSUME IInv, WorkspaceInv, NEW r \in Calls, Serve(r)
  PROVE  /\ \A q \in Calls : pc[q] = "ok" => /\ pc'[q] = "ok" /\ who'[q] = who[q] /\ q # r
                                             /\ seen'[q] = seen[q]
                                             /\ Organization(q)' = Organization(q)
         /\ \A k \in Tokens : (k \in Calls => pc[k] = "ok") => UserOf(k)' = UserOf(k)
         /\ \A q \in Calls : told[q] = "ok" => pc[q] = "ok"
         /\ \A q \in Calls : Tab(q)' = Tab(q)
         /\ \A t \in Tabs : Awaited(t)' = Awaited(t)
         /\ \A q, l \in Calls : Overlap(q, l)' <=> Overlap(q, l)
<1>. USE DEF IInv
<1>1. /\ UNCHANGED <<call, told>> /\ pc[r] # "ok"
      /\ \A q \in Calls : q # r => pc'[q] = pc[q] /\ who'[q] = who[q] /\ seen'[q] = seen[q]
      /\ \A u \in Emails : account[u] # None => account'[u] = account[u]
  BY ServeStep DEF AtWork
<1>2. ASSUME NEW q \in Calls, pc[q] = "ok" PROVE Organization(q)' = Organization(q)
  <2>1. who[q] \in Emails /\ account[who[q]] # None /\ who'[q] = who[q]
    BY <1>1, <1>2 DEF UsersExist, TypeOK
  <2>. QED BY <1>1, <2>1 DEF Organization
<1>3. \A k \in Tokens : (k \in Calls => pc[k] = "ok") => UserOf(k)' = UserOf(k)
  BY <1>1 DEF UserOf
<1>. QED BY <1>1, <1>2, <1>3 DEF WorkspaceInv, CallsInOrder, Tab, Awaited, Overlap

LEMMA ServeWorkspace ==
  ASSUME IInv, IInv', WorkspaceInv, NEW r \in Calls, Serve(r) PROVE WorkspaceInv'
<1>1. /\ UNCHANGED <<issued, call, told, token, principal, shown, loading, closed>>
      /\ pc[r] \in AtWork /\ pc'[r] # "unsent"
      /\ \A q \in Calls : q # r => pc'[q] = pc[q] /\ who'[q] = who[q] /\ seen'[q] = seen[q]
      /\ who[r] # None => who'[r] = who[r]
  BY ServeStep DEF workspace
<1>2. /\ \A q \in Calls : pc[q] = "ok" => /\ pc'[q] = "ok" /\ who'[q] = who[q] /\ q # r
                                          /\ seen'[q] = seen[q]
                                          /\ Organization(q)' = Organization(q)
      /\ \A k \in Tokens : (k \in Calls => pc[k] = "ok") => UserOf(k)' = UserOf(k)
      /\ \A q \in Calls : told[q] = "ok" => pc[q] = "ok"
      /\ \A q \in Calls : Tab(q)' = Tab(q)
      /\ \A t \in Tabs : Awaited(t)' = Awaited(t)
      /\ \A q, l \in Calls : Overlap(q, l)' <=> Overlap(q, l)
  BY ServeKeeps
<1>3. r \in Tokens /\ CallsInOrder /\ SessionsFollow /\ ChangesFollow /\ SessionsAreHeld
  BY DEF Tokens, WorkspaceInv
<1>4. CallsInOrder'
  <2>1. \A q \in Calls : pc[q] # "unsent" => pc'[q] # "unsent"
    BY <1>1
  <2>. QED BY <1>1, <1>2, <1>3, <2>1 DEF CallsInOrder
<1>5. SessionsFollow'
  <2>1. ASSUME NEW k \in Tokens, session'[k] # NoSession
        PROVE  /\ session'[k].user = UserOf(k)'
               /\ k \in Calls => pc'[k] = "ok" /\ call'[k].kind \in SignIns
    <3>1. CASE session'[k] = session[k]
      <4>1. session[k].user = UserOf(k) /\ (k \in Calls => pc[k] = "ok" /\ call[k].kind \in SignIns)
        BY <1>3, <2>1, <3>1 DEF SessionsFollow
      <4>. QED BY <1>1, <1>2, <3>1, <4>1
    <3>2. CASE session'[k] # session[k]
      <4>1. /\ k = r /\ pc'[r] = "ok" /\ call[r].kind \in SignIns
            /\ session'[r].user = who[r] /\ who'[r] = who[r]
        BY <2>1, <3>2, ServeSessions
      <4>. QED BY <1>1, <4>1 DEF UserOf
    <3>. QED BY <3>1, <3>2
  <2>2. ASSUME NEW q \in Calls, q <= issued, call[q].kind \notin SignIns, who'[q] # None
        PROVE  call[q].token # None /\ who'[q] = UserOf(call[q].token)'
    <3>1. call[q] \in Call /\ call[q].token \in Tokens \cup {None}
      BY <1>3, <2>2, CallTypes, SentTypes DEF IInv
    <3>2. call[q].token \in Calls => pc[call[q].token] = "ok"
      BY <3>1 DEF IInv, TokensFollow
    <3>3. CASE who[q] # None
      <4>1. who'[q] = who[q]
        BY <1>1, <3>3
      <4>2. call[q].token # None /\ who[q] = UserOf(call[q].token)
        BY <1>3, <2>2, <3>3 DEF SessionsFollow
      <4>. QED BY <1>1, <1>2, <3>2, <4>1, <4>2 DEF UserOf
    <3>4. CASE who[q] = None
      <4>1. q = r
        BY <1>1, <2>2, <3>4
      <4>2. /\ call[q].token \in Tokens /\ session[call[q].token] # NoSession
            /\ who'[q] = session[call[q].token].user
        BY <2>2, <3>4, <4>1, ServeSessions
      <4>3. who'[q] = UserOf(call[q].token)
        BY <1>3, <4>2 DEF SessionsFollow
      <4>. QED BY <1>1, <1>2, <3>2, <4>2, <4>3, SetsAssumption DEF UserOf
    <3>. QED BY <3>3, <3>4
  <2>. QED BY <1>1, <2>1, <2>2 DEF SessionsFollow
<1>6. ChangesFollow'
  <2>. SUFFICES ASSUME NEW q \in Calls, call[q].kind = "change", pc'[q] = "ok"
                PROVE  /\ version'[Organization(q)'] >= seen'[q]
                       /\ \A l \in Calls :
                            /\ call[l].kind \in Lists /\ Tab(l) = Tab(q) /\ q < l /\ q \notin call[l].over
                            /\ told[q] = "ok" /\ pc'[l] = "ok" /\ Organization(l)' = Organization(q)'
                            => seen'[l] >= seen'[q]
    BY <1>1, <1>2 DEF ChangesFollow
  <2>1. /\ \A o \in Emails : version[o] \in Nat /\ version'[o] \in Nat /\ version'[o] >= version[o]
        /\ pc'[r] = "ok" /\ call[r].kind \in Lists \cup {"change"} =>
             /\ who'[r] = who[r] /\ account' = account /\ Organization(r) \in Emails
             /\ call[r].kind \in Lists => seen'[r] = version[Organization(r)]
             /\ call[r].kind = "change" => seen'[r] = version'[Organization(r)]
    BY ServeVersions
  <2>2. \A l \in Calls : seen[l] \in Nat
    BY DEF IInv, TypeOK
  <2>3. pc'[r] = "ok" /\ call[r].kind \in Lists \cup {"change"} => Organization(r)' = Organization(r)
    BY <2>1 DEF Organization
  <2>4. CASE q = r
    <3>1. told[q] # "ok"
      BY <1>2, <2>4
    <3>. QED BY <2>1, <2>3, <2>4, <3>1
  <2>5. CASE q # r
    <3>1. pc[q] = "ok" /\ seen'[q] = seen[q] /\ Organization(q)' = Organization(q)
      BY <1>1, <1>2, <2>5
    <3>2. Organization(q) \in Emails
      <4>1. who[q] \in Emails /\ account[who[q]] \in Account
        BY <3>1 DEF IInv, UsersExist, TypeOK
      <4>. QED BY <4>1 DEF Organization, Account
    <3>3. version[Organization(q)] >= seen[q]
      BY <1>3, <3>1 DEF ChangesFollow
    <3>4. version'[Organization(q)'] >= seen'[q]
      BY <2>1, <2>2, <3>1, <3>2, <3>3
    <3>5. ASSUME NEW l \in Calls, call[l].kind \in Lists, Tab(l) = Tab(q), q < l,
                 q \notin call[l].over, told[q] = "ok", pc'[l] = "ok",
                 Organization(l)' = Organization(q)'
          PROVE  seen'[l] >= seen'[q]
      <4>1. CASE l = r
        <5>1. seen'[l] = version[Organization(q)]
          BY <2>1, <2>3, <3>1, <3>5, <4>1
        <5>. QED BY <3>1, <3>3, <5>1
      <4>2. CASE l # r
        <5>1. pc[l] = "ok" /\ seen'[l] = seen[l] /\ Organization(l)' = Organization(l)
          BY <1>1, <1>2, <3>5, <4>2
        <5>. QED BY <1>3, <3>1, <3>5, <5>1 DEF ChangesFollow
      <4>. QED BY <4>1, <4>2
    <3>. QED BY <3>4, <3>5
  <2>. QED BY <2>4, <2>5
<1>7. SessionsAreHeld'
  <2>. SUFFICES ASSUME NEW k \in Tokens, session'[k] # NoSession PROVE Held(k)'
    BY DEF SessionsAreHeld
  <2>1. WentWrong(k) => WentWrong(k)'
    BY <1>1, <1>2 DEF WentWrong
  <2>2. CASE session'[k] = session[k]
    BY <1>1, <1>3, <2>1, <2>2 DEF SessionsAreHeld, Held
  <2>3. CASE session'[k] # session[k]
    <3>1. k = r
      BY <2>3, ServeSessions
    <3>2. told[r] # "nothing"
      BY <1>1, <1>3, SentTypes DEF AtWork, CallsInOrder
    <3>3. told[r] # "ok"
      BY <1>2
    <3>4. told[r] \in {"awaiting", "failed", "gone"}
      BY <3>2, <3>3 DEF IInv, TypeOK
    <3>. QED BY <1>1, <3>1, <3>4 DEF Held, WentWrong
  <2>. QED BY <2>2, <2>3
<1>8. ASSUME NEW t \in Tabs PROVE PageInv(t)'
  <2>1. PageInv(t)
    BY DEF WorkspaceInv
  <2>2. PageFollows(t)'
    <3>1. \A k \in Tokens : token[t] = k => UserOf(k)' = UserOf(k)
      <4>1. \A k \in Tokens : token[t] = k => (k \in Calls => pc[k] = "ok")
        BY DEF IInv, TokensFollow
      <4>. QED BY <1>2, <4>1
    <3>. QED BY <1>1, <1>2, <2>1, <3>1 DEF PageInv, PageFollows
  <2>3. ListsAreOwn(t)'
    <3>1. \A l \in Calls : IsOwn(l) => IsOwn(l)'
      BY <1>1, <1>2 DEF IsOwn, OverlapsLogout
    <3>2. Awaited(t) \subseteq Calls
      BY DEF Awaited
    <3>. QED BY <1>1, <1>2, <2>1, <3>1, <3>2 DEF PageInv, ListsAreOwn
  <2>4. ChangesAreShown(t)'
    <3>1. \A q \in Calls : RefreshDue(t, q) => RefreshDue(t, q)'
      BY <1>1, <1>2 DEF RefreshDue
    <3>. QED BY <1>1, <1>2, <2>1, <3>1 DEF PageInv, ChangesAreShown
  <2>5. LogoutsForget(t)'
    <3>1. Awaited(t) \subseteq Calls
      BY DEF Awaited
    <3>. QED BY <1>1, <1>2, <2>1, <3>1 DEF PageInv, LogoutsForget
  <2>. QED BY <2>2, <2>3, <2>4, <2>5 DEF PageInv
<1>. QED BY <1>4, <1>5, <1>6, <1>7, <1>8 DEF WorkspaceInv

\* A step of a tab: the server is as it was, calls of the tab end, and it may send one.
Moves(t) ==
  /\ UNCHANGED <<account, session, version, who, seen>> /\ issued' \in {issued, issued + 1}
  /\ \A q \in Calls : q <= issued => call'[q] = call[q] /\ pc'[q] = pc[q]
  /\ \A q \in Calls : q > issued' =>
       call'[q] = call[q] /\ pc'[q] = pc[q] /\ told'[q] = told[q]
  /\ \A q \in Calls : q <= issued /\ told'[q] # told[q] =>
       /\ told[q] = "awaiting" /\ Tab(q) = t /\ told'[q] \in {"ok", "failed", "gone"}
       /\ told'[q] = "ok" => pc[q] = "ok"
  /\ \A q \in Calls : q > issued /\ q <= issued' =>
       /\ call'[q] \in Call /\ call'[q].tab = t /\ pc'[q] = "sent" /\ told'[q] = "awaiting"
       /\ \A p \in Calls : p <= issued /\ told'[p] = "awaiting" /\ Tab(p) = t =>
            p \in call'[q].over
  /\ \A s \in Tabs \ {t} : /\ token'[s] = token[s] /\ principal'[s] = principal[s]
                           /\ shown'[s] = shown[s] /\ loading'[s] = loading[s]
  /\ closed \subseteq closed'

\* What a tab's step keeps of the calls sent before it.
LEMMA MovesKeep ==
  ASSUME IInv, CallsInOrder, NEW t \in Tabs, Moves(t)
  PROVE  /\ \A q \in Calls : q <= issued =>
              /\ q <= issued' /\ call'[q] = call[q] /\ pc'[q] = pc[q] /\ Tab(q)' = Tab(q)
              /\ told'[q] = "awaiting" => told[q] = "awaiting"
         /\ \A q \in Calls : call[q].kind # "none" => q <= issued
         /\ \A q \in Calls : call'[q].kind # "none" => q <= issued'
         /\ \A q \in Calls : told[q] # "nothing" => q <= issued
         /\ \A q, r \in Calls : q <= issued /\ r <= issued => (Overlap(q, r)' <=> Overlap(q, r))
         /\ \A k : UserOf(k)' = UserOf(k)
         /\ \A k \in Tokens : session[k] # NoSession /\ WentWrong(k) /\ SessionsFollow => WentWrong(k)'
<1>1. /\ issued \in Nat /\ issued' \in {issued, issued + 1}
      /\ \A q \in Calls : q \in Nat /\ (told[q] # "nothing" \/ call[q].kind # "none" => q <= issued)
  <2>1. issued \in Nat /\ issued' \in {issued, issued + 1}
    BY ScenarioTypes DEF Moves, IInv
  <2>. QED BY <2>1, SentTypes
<1>2. \A q \in Calls : q <= issued =>
        /\ q <= issued' /\ call'[q] = call[q] /\ pc'[q] = pc[q] /\ Tab(q)' = Tab(q)
        /\ told'[q] = "awaiting" => told[q] = "awaiting"
        /\ told[q] \in {"failed", "gone"} => told'[q] = told[q]
  BY <1>1 DEF Moves, Tab
<1>3. \A q \in Calls : call'[q].kind # "none" => q <= issued'
  BY <1>1 DEF Moves
<1>4. \A q, r \in Calls : q <= issued /\ r <= issued => (Overlap(q, r)' <=> Overlap(q, r))
  BY <1>2 DEF Overlap
<1>5. \A k : UserOf(k)' = UserOf(k)
  BY DEF UserOf, Moves
<1>6. ASSUME NEW k \in Tokens, session[k] # NoSession, WentWrong(k), SessionsFollow
      PROVE  WentWrong(k)'
  <2>1. k \in Calls => k <= issued
    <3>1. k \in Calls => pc[k] = "ok"
      BY <1>6 DEF SessionsFollow
    <3>. QED BY <3>1, SentTypes
  <2>2. CASE k \in Calls /\ told[k] \in {"failed", "gone"}
    BY <1>2, <2>1, <2>2 DEF WentWrong
  <2>3. CASE \E q \in Calls : /\ call[q].kind \in {"logout", "me"} /\ call[q].token = k
                              /\ told[q] = "failed"
    <3>1. PICK q \in Calls : /\ call[q].kind \in {"logout", "me"} /\ call[q].token = k
                             /\ told[q] = "failed"
      BY <2>3
    <3>2. call'[q] = call[q] /\ told'[q] = "failed"
      BY <1>1, <1>2, <3>1
    <3>. QED BY <3>1, <3>2 DEF WentWrong
  <2>4. CASE \E q \in Calls : /\ k \in Calls /\ call[q].kind \in SignIns \cup {"logout"}
                              /\ Overlap(q, k)
    <3>1. PICK q \in Calls : k \in Calls /\ call[q].kind \in SignIns \cup {"logout"} /\ Overlap(q, k)
      BY <2>4
    <3>2. q <= issued
      BY <1>1, <3>1 DEF SignIns
    <3>3. call'[q] = call[q] /\ Overlap(q, k)'
      BY <1>2, <1>4, <2>1, <3>1, <3>2
    <3>. QED BY <3>1, <3>3 DEF WentWrong
  <2>5. CASE k \in closed
    BY <2>5 DEF WentWrong, Moves
  <2>. QED BY <1>6, <2>2, <2>3, <2>4, <2>5 DEF WentWrong
<1>. QED BY <1>1, <1>2, <1>3, <1>4, <1>5, <1>6

LEMMA LogoutStays ==
  ASSUME IInv, CallsInOrder, NEW t \in Tabs, Moves(t), NEW r \in Calls, r <= issued,
         OverlapsLogout(r)
  PROVE  OverlapsLogout(r)'
<1>1. PICK q \in Calls : call[q].kind = "logout" /\ Overlap(q, r)
  BY DEF OverlapsLogout
<1>2. call'[q].kind = "logout" /\ Overlap(q, r)'
  BY <1>1, MovesKeep
<1>. QED BY <1>2 DEF OverlapsLogout

\* The other tabs' pages are as they were.
LEMMA OtherPages ==
  ASSUME IInv, WorkspaceInv, NEW t \in Tabs, Moves(t), NEW s \in Tabs \ {t}
  PROVE  PageInv(s)'
<1>1. CallsInOrder /\ PageInv(s)
  BY DEF WorkspaceInv
<1>2. /\ \A q \in Calls : q <= issued =>
           /\ q <= issued' /\ call'[q] = call[q] /\ pc'[q] = pc[q] /\ Tab(q)' = Tab(q)
      /\ \A q \in Calls : call[q].kind # "none" => q <= issued
      /\ \A q \in Calls : told[q] # "nothing" => q <= issued
      /\ \A q, r \in Calls : q <= issued /\ r <= issued => (Overlap(q, r)' <=> Overlap(q, r))
      /\ \A k : UserOf(k)' = UserOf(k)
  BY <1>1, MovesKeep
<1>3. /\ token'[s] = token[s] /\ principal'[s] = principal[s]
      /\ shown'[s] = shown[s] /\ loading'[s] = loading[s]
  BY DEF Moves
<1>4. ASSUME NEW q \in Calls PROVE told'[q] # told[q] => Tab(q)' = t
  <2>1. issued \in Nat /\ q \in Nat
    BY <1>1, SentTypes
  <2>2. CASE q <= issued
    BY <1>2, <2>2 DEF Moves
  <2>3. CASE q > issued
    BY <2>1, <2>3 DEF Moves, Tab
  <2>. QED BY <2>1, <2>2, <2>3
<1>5. ASSUME NEW q \in Calls PROVE told'[q] = "awaiting" /\ Tab(q)' = s <=>
                                   told[q] = "awaiting" /\ Tab(q) = s
  <2>1. issued \in Nat /\ q \in Nat
    BY <1>1, SentTypes
  <2>2. CASE q <= issued
    BY <1>2, <1>4, <2>2
  <2>3. CASE q > issued
    <3>1. told[q] = "nothing"
      BY <1>1, <2>1, <2>3 DEF CallsInOrder
    <3>. QED BY <1>4, <3>1
  <2>. QED BY <2>1, <2>2, <2>3
<1>6. Awaited(s)' = Awaited(s) /\ Awaited(s) \subseteq Calls
  BY <1>5 DEF Awaited
<1>7. \A q \in Awaited(s) : q <= issued /\ call'[q] = call[q] /\ Tab(q)' = s /\ Tab(q) = s
  BY <1>2, <1>6 DEF Awaited
<1>8. \A r \in Calls : shown[s] = r => told[r] = "ok" /\ r <= issued /\ Tab(r) = s
  BY <1>1, <1>2 DEF PageInv, ListsAreOwn
<1>9. PageFollows(s)'
  BY <1>1, <1>2, <1>3, <1>6, <1>7 DEF PageInv, PageFollows
<1>10. ASSUME NEW r \in Calls, r <= issued, Tab(r) = s, IsOwn(r) PROVE IsOwn(r)'
  <2>1. CASE principal[Tab(r)] # None /\ token[Tab(r)] = call[r].token
    <3>1. principal'[s] # None /\ token'[s] = call'[r].token
      BY <1>2, <1>3, <1>10, <2>1
    <3>. QED BY <1>2, <1>10, <3>1 DEF IsOwn, Tab
  <2>. QED BY <1>1, <1>10, <2>1, LogoutStays DEF IsOwn
<1>11. ListsAreOwn(s)'
  <2>1. \A r \in Awaited(s) : call[r].kind \in Lists => IsOwn(r)' \/ call[r].token = None
    BY <1>1, <1>6, <1>7, <1>10 DEF PageInv, ListsAreOwn
  <2>2. ASSUME NEW r \in Calls, shown[s] = r
        PROVE  call'[r].kind \in Lists /\ Tab(r)' = s /\ told'[r] = "ok" /\ IsOwn(r)'
    <3>1. call[r].kind \in Lists /\ told[r] = "ok" /\ IsOwn(r) /\ Tab(r) = s /\ r <= issued
      BY <1>1, <1>8, <2>2 DEF PageInv, ListsAreOwn
    <3>2. told'[r] = "ok"
      BY <3>1 DEF Moves
    <3>. QED BY <1>2, <1>10, <3>1, <3>2
  <2>. QED BY <1>3, <1>6, <1>7, <2>1, <2>2 DEF ListsAreOwn
<1>12. ChangesAreShown(s)'
  <2>1. ASSUME NEW q \in Calls, NEW r \in Calls, call'[q].kind = "change", told'[q] = "ok",
               Tab(q)' = s, shown[s] = r
        PROVE  q < r \/ Overlap(q, r)' \/ RefreshDue(s, q)'
    <3>1. q <= issued /\ told[q] = "ok"
      <4>1. told[q] = "ok"
        BY <1>4, <2>1
      <4>. QED BY <1>2, <4>1
    <3>2. call[q].kind = "change" /\ Tab(q) = s /\ r <= issued
      BY <1>2, <1>8, <2>1, <3>1
    <3>3. CASE RefreshDue(s, q)
      <4>1. PICK l \in Calls : /\ call[l].kind = "relist" /\ Tab(l) = s /\ l > q
                               /\ told[l] \in {"failed", "awaiting"}
        BY <3>3 DEF RefreshDue
      <4>2. call'[l].kind = "relist" /\ Tab(l)' = s /\ told'[l] = told[l]
        BY <1>2, <1>4, <4>1
      <4>. QED BY <4>1, <4>2 DEF RefreshDue
    <3>. QED BY <1>1, <1>2, <2>1, <3>1, <3>2, <3>3 DEF PageInv, ChangesAreShown
  <2>. QED BY <1>3, <2>1 DEF ChangesAreShown
<1>13. LogoutsForget(s)'
  <2>1. ASSUME NEW r \in Awaited(s), NEW k \in Tokens, call[r].kind = "logout", token[s] = k
        PROVE  k = call[r].token \/ (k \in Calls /\ Overlap(r, k)')
    <3>1. k \in Calls => k <= issued
      <4>1. k \in Calls => pc[k] = "ok"
        BY <2>1 DEF IInv, TokensFollow
      <4>. QED BY <1>1, <4>1, SentTypes
    <3>. QED BY <1>1, <1>2, <1>6, <1>7, <2>1, <3>1 DEF PageInv, LogoutsForget
  <2>. QED BY <1>3, <1>6, <1>7, <2>1 DEF LogoutsForget
<1>. QED BY <1>9, <1>11, <1>12, <1>13 DEF PageInv

LEMMA MovesInv ==
  ASSUME IInv, WorkspaceInv, NEW t \in Tabs, Moves(t), PageInv(t)',
         \A k \in Tokens :
           /\ session[k] # NoSession
           /\ token[t] = k \/ (k \in Calls /\ told[k] = "awaiting" /\ Tab(k) = t)
           => Held(k)'
  PROVE  WorkspaceInv'
<1>1. CallsInOrder /\ SessionsFollow /\ ChangesFollow /\ SessionsAreHeld
  BY DEF WorkspaceInv
<1>2. /\ \A q \in Calls : q <= issued =>
           /\ q <= issued' /\ call'[q] = call[q] /\ pc'[q] = pc[q] /\ Tab(q)' = Tab(q)
           /\ told'[q] = "awaiting" => told[q] = "awaiting"
      /\ \A q \in Calls : call[q].kind # "none" => q <= issued
      /\ \A q \in Calls : told[q] # "nothing" => q <= issued
      /\ \A q, r \in Calls : q <= issued /\ r <= issued => (Overlap(q, r)' <=> Overlap(q, r))
      /\ \A k : UserOf(k)' = UserOf(k)
      /\ \A k \in Tokens : session[k] # NoSession /\ WentWrong(k) => WentWrong(k)'
  BY <1>1, MovesKeep
<1>3. /\ issued \in Nat /\ issued' \in {issued, issued + 1}
      /\ \A q \in Calls : q \in Nat /\ (pc[q] # "unsent" => q <= issued)
  <2>1. issued \in Nat /\ issued' \in {issued, issued + 1}
    BY ScenarioTypes DEF Moves, IInv
  <2>. QED BY <1>1, <2>1, SentTypes
<1>4. ASSUME NEW q \in Calls
      PROVE  IF q > issued'
               THEN call'[q] = NoCall /\ told'[q] = "nothing"
               ELSE call'[q] \in Call /\ told'[q] # "nothing" /\ pc'[q] # "unsent"
  <2>1. CASE q <= issued
    <3>1. call[q] \in Call /\ told[q] # "nothing" /\ pc[q] # "unsent"
      BY <1>1, <1>3, <2>1 DEF CallsInOrder
    <3>2. told'[q] # "nothing"
      BY <2>1, <3>1 DEF Moves
    <3>. QED BY <1>2, <1>3, <2>1, <3>1, <3>2
  <2>2. CASE q > issued /\ q <= issued'
    BY <1>3, <2>2 DEF Moves
  <2>3. CASE q > issued'
    <3>1. q > issued
      BY <1>3, <2>3
    <3>. QED BY <1>1, <2>3, <3>1 DEF Moves, CallsInOrder
  <2>. QED BY <1>3, <2>1, <2>2, <2>3
<1>5. CallsInOrder'
  <2>1. ASSUME NEW q \in Calls, told'[q] = "ok" PROVE pc'[q] = "ok"
    <3>1. q <= issued
      <4>1. CASE q > issued /\ q <= issued'
        BY <2>1, <4>1 DEF Moves
      <4>2. CASE q > issued'
        BY <1>4, <2>1, <4>2
      <4>. QED BY <1>3, <4>1, <4>2
    <3>2. pc[q] = "ok"
      BY <1>1, <2>1, <3>1 DEF Moves, CallsInOrder
    <3>. QED BY <1>2, <3>1, <3>2
  <2>2. ASSUME NEW q \in Calls, NEW r \in Calls, q < r, r <= issued', told'[q] = "awaiting",
               Tab(q)' = Tab(r)'
        PROVE  q \in call'[r].over
    <3>1. CASE r <= issued
      <4>1. q <= issued
        BY <1>3, <2>2, <3>1
      <4>2. told[q] = "awaiting" /\ Tab(q) = Tab(r) /\ call'[r] = call[r]
        BY <1>2, <2>2, <3>1, <4>1
      <4>. QED BY <1>1, <2>2, <3>1, <4>2 DEF CallsInOrder
    <3>2. CASE r > issued
      <4>1. q <= issued /\ Tab(r)' = t
        BY <1>3, <2>2, <3>2 DEF Moves, Tab
      <4>2. Tab(q) = t
        BY <1>2, <2>2, <4>1
      <4>. QED BY <2>2, <3>2, <4>1, <4>2 DEF Moves
    <3>. QED BY <1>3, <3>1, <3>2
  <2>. QED BY <1>4, <2>1, <2>2 DEF CallsInOrder
<1>6. UNCHANGED <<session, who, account, version, seen>>
  BY DEF Moves
<1>7. SessionsFollow'
  <2>1. ASSUME NEW k \in Tokens, session[k] # NoSession
        PROVE  /\ session[k].user = UserOf(k)'
               /\ k \in Calls => pc'[k] = "ok" /\ call'[k].kind \in SignIns
    <3>1. session[k].user = UserOf(k) /\ (k \in Calls => pc[k] = "ok" /\ call[k].kind \in SignIns)
      BY <1>1, <2>1 DEF SessionsFollow
    <3>. QED BY <1>2, <1>3, <3>1
  <2>2. ASSUME NEW r \in Calls, r <= issued', call'[r].kind \notin SignIns, who[r] # None
        PROVE  call'[r].token # None /\ who[r] = UserOf(call'[r].token)
    <3>1. r <= issued
      BY <1>3, <2>2 DEF IInv, CallsFollow
    <3>. QED BY <1>1, <1>2, <2>2, <3>1 DEF SessionsFollow
  <2>. QED BY <1>6, <2>1, <2>2 DEF SessionsFollow, UserOf
<1>8. ChangesFollow'
  <2>1. \A q \in Calls : Organization(q)' = Organization(q)
    BY <1>6 DEF Organization
  <2>2. ASSUME NEW q \in Calls, pc'[q] = "ok" PROVE q <= issued
    <3>1. CASE q > issued /\ q <= issued'
      BY <2>2, <3>1 DEF Moves
    <3>2. CASE q > issued'
      <4>1. q > issued /\ pc'[q] = pc[q]
        BY <1>3, <3>2 DEF Moves
      <4>. QED BY <2>2, <4>1 DEF IInv, CallsFollow
    <3>. QED BY <1>3, <3>1, <3>2
  <2>3. ASSUME NEW q \in Calls, call'[q].kind = "change", pc'[q] = "ok"
        PROVE  call[q].kind = "change" /\ pc[q] = "ok" /\ q <= issued
    BY <1>2, <2>2, <2>3
  <2>4. ASSUME NEW q \in Calls, NEW r \in Calls, call'[q].kind = "change", pc'[q] = "ok",
               call'[r].kind \in Lists, Tab(r)' = Tab(q)', q < r, q \notin call'[r].over,
               told'[q] = "ok", pc'[r] = "ok", Organization(r) = Organization(q)
        PROVE  seen[r] >= seen[q]
    <3>1. /\ q <= issued /\ r <= issued /\ call[q].kind = "change" /\ pc[q] = "ok"
          /\ call[r].kind \in Lists /\ Tab(r) = Tab(q) /\ q \notin call[r].over /\ pc[r] = "ok"
      BY <1>2, <2>2, <2>4
    <3>2. told[q] = "ok"
      <4>1. told[q] # "awaiting"
        BY <1>1, <2>4, <3>1 DEF CallsInOrder
      <4>. QED BY <2>4, <3>1, <4>1 DEF Moves
    <3>. QED BY <1>1, <2>4, <3>1, <3>2 DEF ChangesFollow
  <2>5. \A q \in Calls : call[q].kind = "change" /\ pc[q] = "ok" =>
          version[Organization(q)] >= seen[q]
    BY <1>1 DEF ChangesFollow
  <2>6. \A q \in Calls : call'[q].kind = "change" /\ pc'[q] = "ok" =>
          version'[Organization(q)'] >= seen'[q]
    BY <1>6, <2>1, <2>3, <2>5
  <2>. QED BY <1>6, <2>1, <2>4, <2>6 DEF ChangesFollow
<1>9. SessionsAreHeld'
  <2>1. ASSUME NEW k \in Tokens, session[k] # NoSession PROVE Held(k)'
    <3>1. Held(k)
      BY <1>1, <2>1 DEF SessionsAreHeld
    <3>2. ASSUME NEW s \in Tabs \ {t}, token[s] = k PROVE Held(k)'
      BY <3>2 DEF Moves, Held
    <3>3. CASE k \in Calls /\ told[k] = "awaiting" /\ Tab(k) # t
      <4>1. told'[k] = told[k]
        BY <1>2, <3>3 DEF Moves
      <4>. QED BY <3>3, <4>1 DEF Held
    <3>4. CASE WentWrong(k)
      BY <1>2, <2>1, <3>4 DEF Held
    <3>. QED BY <2>1, <3>1, <3>2, <3>3, <3>4 DEF Held
  <2>. QED BY <1>6, <2>1 DEF SessionsAreHeld
<1>10. \A s \in Tabs : PageInv(s)'
  BY OtherPages
<1>. QED BY <1>5, <1>7, <1>8, <1>9, <1>10 DEF WorkspaceInv

\* A step that sends the call n: those after leaves as they were are waited for still.
Sent(t, n, kind, tok, after) ==
  /\ n > issued /\ n = issued' /\ Tab(n)' = t
  /\ call'[n].kind = kind /\ call'[n].token = tok
  /\ \A q \in Calls : q \in Awaited(t)' <=> q = n \/ (q \in Awaited(t) /\ after[q] = "awaiting")
  /\ \A q \in Calls : q # n => told'[q] = after[q]

Ends(t, after) ==
  \A q \in Calls : after[q] # told[q] =>
    /\ told[q] = "awaiting" /\ Tab(q) = t /\ after[q] \in {"ok", "failed", "gone"}
    /\ after[q] = "ok" => pc[q] = "ok"

Elsewhere(t) ==
  /\ UNCHANGED <<server, who, seen>>
  /\ \A s \in Tabs \ {t} : /\ token'[s] = token[s] /\ principal'[s] = principal[s]
                           /\ shown'[s] = shown[s] /\ loading'[s] = loading[s]
  /\ closed \subseteq closed'

LEMMA SendMoves ==
  ASSUME IInv, CallsInOrder, NEW t \in Tabs, NEW kind \in Kinds, NEW user \in Emails \cup {None},
         NEW tok \in Tokens \cup {None}, NEW after \in [Calls -> ToldTo],
         Send(t, kind, user, tok, after), Ends(t, after), Elsewhere(t)
  PROVE  Moves(t) /\ \E n \in Calls : Sent(t, n, kind, tok, after)
<1>1. /\ issued' = issued + 1 /\ issued' \in Calls
      /\ call'[issued'] \in Call /\ pc'[issued'] = "sent"
      /\ call'[issued'].kind = kind /\ call'[issued'].token = tok
      /\ \A q \in Calls : q # issued' => call'[q] = call[q] /\ pc'[q] = pc[q]
  BY SendStep DEF IInv
<1>2. /\ call'[issued'].tab = t
      /\ call'[issued'].over = {q \in Awaited(t) : after[q] = "awaiting"}
      /\ told'[issued'] = "awaiting" /\ \A q \in Calls : q # issued' => told'[q] = after[q]
  BY <1>1 DEF Send, IInv, TypeOK
<1>3. PICK n \in Calls : n = issued'
  BY <1>1
<1>4. /\ issued \in Nat /\ n = issued + 1 /\ n > issued
      /\ \A q \in Calls : q \in Nat /\ (q <= issued \/ q = n \/ q > n) /\ (q <= issued => q # n)
      /\ \A q \in Calls : q > issued => told[q] = "nothing"
  <2>1. issued \in Nat /\ \A q \in Calls : q \in Nat
    BY SentTypes, ScenarioTypes DEF IInv
  <2>. QED BY <1>1, <1>3, <2>1 DEF CallsInOrder
<1>5. \A q \in Calls : q > n => after[q] = told[q]
  BY <1>4 DEF Ends
<1>6. Moves(t)
  <2>1. UNCHANGED <<account, session, version, who, seen>>
    BY DEF Elsewhere, server
  <2>2. \A p \in Calls : p <= issued /\ told'[p] = "awaiting" /\ Tab(p) = t => p \in call'[n].over
    BY <1>2, <1>3, <1>4 DEF Ends, Awaited
  <2>3. \A q \in Calls : q <= issued => told'[q] = after[q]
    BY <1>2, <1>3, <1>4
  <2>4. \A q \in Calls : q > issued /\ q <= n => q = n
    BY <1>4
  <2>5. ASSUME NEW q \in Calls, q > n
        PROVE  call'[q] = call[q] /\ pc'[q] = pc[q] /\ told'[q] = told[q]
    <3>1. q # issued'
      BY <1>3, <1>4, <2>5
    <3>. QED BY <1>1, <1>2, <1>5, <2>5, <3>1
  <2>6. \A q \in Calls : q <= issued => call'[q] = call[q] /\ pc'[q] = pc[q]
    BY <1>1, <1>3, <1>4
  <2>. QED BY <1>1, <1>2, <1>3, <2>1, <2>2, <2>3, <2>4, <2>5, <2>6 DEF Moves, Ends, Elsewhere
<1>7. ASSUME NEW q \in Calls
      PROVE  q \in Awaited(t)' <=> q = n \/ (q \in Awaited(t) /\ after[q] = "awaiting")
  <2>1. CASE q = n
    BY <1>2, <1>3, <2>1 DEF Awaited, Tab
  <2>2. CASE q # n
    <3>1. told'[q] = after[q] /\ Tab(q)' = Tab(q)
      BY <1>1, <1>2, <1>3, <2>2 DEF Tab
    <3>2. after[q] = "awaiting" => told[q] = "awaiting"
      BY DEF Ends
    <3>. QED BY <2>2, <3>1, <3>2 DEF Awaited
  <2>. QED BY <2>1, <2>2
<1>8. Sent(t, n, kind, tok, after)
  BY <1>1, <1>2, <1>3, <1>4, <1>7 DEF Sent, Tab
<1>. QED BY <1>6, <1>8

LEMMA QuietMoves ==
  ASSUME IInv, CallsInOrder, NEW t \in Tabs, NEW r \in Awaited(t), NEW what \in {"ok", "failed"},
         what = "ok" => pc[r] = "ok", told' = Told(r, what), UNCHANGED <<issued, call, pc>>,
         Elsewhere(t)
  PROVE  /\ Moves(t) /\ Awaited(t)' = Awaited(t) \ {r} /\ told'[r] = what
         /\ \A q \in Calls : q # r => told'[q] = told[q]
<1>1. r \in Calls /\ told[r] = "awaiting" /\ Tab(r) = t /\ issued \in Nat
  BY ScenarioTypes DEF Awaited, IInv
<1>2. told'[r] = what /\ \A q \in Calls : q # r => told'[q] = told[q]
  BY <1>1 DEF Told, IInv, TypeOK
<1>3. \A q \in Calls : Tab(q)' = Tab(q) /\ ~(q > issued /\ q <= issued')
  <2>1. \A q \in Calls : q \in Int
    BY DEF Calls
  <2>. QED BY <1>1, <2>1 DEF Tab
<1>4. Moves(t)
  <2>1. \A q \in Calls : q > issued' => told'[q] = told[q]
    <3>1. r <= issued
      BY <1>1, SentTypes
    <3>. QED BY <1>1, <1>2, <3>1 DEF Calls
  <2>. QED BY <1>1, <1>2, <1>3, <2>1 DEF Moves, Elsewhere, server
<1>5. Awaited(t)' = Awaited(t) \ {r}
  BY <1>1, <1>2, <1>3 DEF Awaited
<1>. QED BY <1>2, <1>4, <1>5

\* What is left to show of a page when its tab's step keeps what it shows.
LEMMA ListsStay ==
  ASSUME IInv, WorkspaceInv, NEW t \in Tabs, Moves(t), shown'[t] \in {shown[t], None},
         \/ token'[t] = token[t] /\ principal'[t] = principal[t]
         \/ principal[t] = None
         \/ shown'[t] = None /\ \A r \in Calls : r <= issued /\ r \in Awaited(t)' => OverlapsLogout(r),
         \A r \in Awaited(t)' : r > issued /\ call'[r].kind \in Lists =>
           call'[r].token = None \/ (principal'[t] # None /\ token'[t] = call'[r].token)
  PROVE  ListsAreOwn(t)'
<1>1. CallsInOrder /\ ListsAreOwn(t)
  BY DEF WorkspaceInv, PageInv
<1>2. /\ \A q \in Calls : q <= issued =>
           /\ call'[q] = call[q] /\ Tab(q)' = Tab(q)
           /\ told'[q] = "awaiting" => told[q] = "awaiting"
      /\ \A q \in Calls : told[q] # "nothing" => q <= issued
  BY <1>1, MovesKeep
<1>3. issued \in Nat /\ \A q \in Calls : q \in Nat
  BY <1>1, ScenarioTypes, SentTypes DEF IInv
<1>4. ASSUME NEW r \in Calls, r <= issued, Tab(r) = t, IsOwn(r),
             shown'[t] = r \/ r \in Awaited(t)'
      PROVE  IsOwn(r)'
  <2>1. CASE OverlapsLogout(r)
    BY <1>1, <1>4, <2>1, LogoutStays DEF IsOwn
  <2>2. CASE /\ token'[t] = token[t] /\ principal'[t] = principal[t]
             /\ principal[t] # None /\ token[t] = call[r].token
    <3>1. principal'[t] # None /\ token'[t] = call'[r].token /\ Tab(r)' = t
      BY <1>2, <1>4, <2>2
    <3>. QED BY <3>1 DEF IsOwn, Tab
  <2>3. None \notin Calls
    BY SetsAssumption DEF Tokens
  <2>. QED BY <1>4, <2>1, <2>2, <2>3 DEF IsOwn
<1>5. ASSUME NEW r \in Awaited(t)', call'[r].kind \in Lists PROVE IsOwn(r)' \/ call'[r].token = None
  <2>1. r \in Calls /\ Tab(r)' = t /\ told'[r] = "awaiting"
    BY DEF Awaited
  <2>2. CASE r <= issued
    <3>1. r \in Awaited(t) /\ call[r].kind \in Lists /\ Tab(r) = t
      BY <1>2, <1>5, <2>1, <2>2 DEF Awaited
    <3>2. IsOwn(r) \/ call[r].token = None
      BY <1>1, <3>1 DEF ListsAreOwn
    <3>. QED BY <1>2, <1>4, <2>1, <2>2, <3>1, <3>2
  <2>3. CASE r > issued
    <3>1. call'[r].token = None \/ (principal'[t] # None /\ token'[t] = call'[r].token)
      BY <1>5, <2>3
    <3>. QED BY <2>1, <3>1 DEF IsOwn, Tab
  <2>. QED BY <1>3, <2>1, <2>2, <2>3
<1>6. ASSUME NEW r \in Calls, shown'[t] = r
      PROVE  call'[r].kind \in Lists /\ Tab(r)' = t /\ told'[r] = "ok" /\ IsOwn(r)'
  <2>1. shown[t] = r
    BY <1>6, SetsAssumption DEF Tokens
  <2>2. call[r].kind \in Lists /\ Tab(r) = t /\ told[r] = "ok" /\ IsOwn(r) /\ r <= issued
    BY <1>1, <1>2, <2>1 DEF ListsAreOwn
  <2>3. told'[r] = "ok"
    BY <2>2 DEF Moves
  <2>. QED BY <1>2, <1>4, <1>6, <2>2, <2>3
<1>. QED BY <1>5, <1>6 DEF ListsAreOwn

LEMMA ChangesStay ==
  ASSUME IInv, WorkspaceInv, NEW t \in Tabs, Moves(t), shown'[t] \in {shown[t], None},
         \/ shown'[t] = None
         \/ /\ \A l \in Calls : call[l].kind = "relist" /\ told'[l] # told[l] => told'[l] = "failed"
            /\ \A q \in Calls : call[q].kind = "change" /\ told'[q] = "ok" /\ told[q] # "ok" =>
                 RefreshDue(t, q)'
  PROVE  ChangesAreShown(t)'
<1>. SUFFICES ASSUME NEW q \in Calls, NEW r \in Calls, call'[q].kind = "change", told'[q] = "ok",
                     Tab(q)' = t, shown'[t] = r
              PROVE  q < r \/ Overlap(q, r)' \/ RefreshDue(t, q)'
  BY DEF ChangesAreShown
<1>1. CallsInOrder /\ ListsAreOwn(t) /\ ChangesAreShown(t)
  BY DEF WorkspaceInv, PageInv
<1>2. /\ \A l \in Calls : l <= issued => call'[l] = call[l] /\ Tab(l)' = Tab(l)
      /\ \A l \in Calls : told[l] # "nothing" => l <= issued
      /\ \A l \in Calls : call[l].kind # "none" => l <= issued
      /\ \A l, m \in Calls : l <= issued /\ m <= issued => (Overlap(l, m)' <=> Overlap(l, m))
  BY <1>1, MovesKeep
<1>3. shown[t] = r /\ r # None
  BY SetsAssumption DEF Tokens
<1>4. told[r] = "ok" /\ r <= issued
  BY <1>1, <1>2, <1>3 DEF ListsAreOwn
<1>5. q <= issued
  <2>1. issued \in Nat /\ q \in Nat
    BY <1>1, ScenarioTypes, SentTypes DEF IInv
  <2>2. CASE q > issued /\ q <= issued'
    BY <2>2 DEF Moves
  <2>3. CASE q > issued'
    BY <1>2, <2>3 DEF Moves
  <2>4. issued' \in Nat
    BY <2>1 DEF Moves
  <2>. QED BY <2>1, <2>2, <2>3, <2>4
<1>6. call[q].kind = "change" /\ Tab(q) = t
  BY <1>2, <1>5
<1>7. CASE told[q] # "ok"
  BY <1>3, <1>6, <1>7
<1>8. CASE told[q] = "ok" /\ RefreshDue(t, q)
  <2>1. PICK l \in Calls : /\ call[l].kind = "relist" /\ Tab(l) = t /\ l > q
                           /\ told[l] \in {"failed", "awaiting"}
    BY <1>8 DEF RefreshDue
  <2>2. /\ call'[l].kind = "relist" /\ Tab(l)' = t /\ told'[l] \in {"failed", "awaiting"}
    BY <1>2, <1>3, <2>1
  <2>. QED BY <2>1, <2>2 DEF RefreshDue
<1>9. CASE told[q] = "ok" /\ ~RefreshDue(t, q)
  BY <1>1, <1>2, <1>3, <1>4, <1>5, <1>6, <1>9 DEF ChangesAreShown
<1>. QED BY <1>7, <1>8, <1>9

LEMMA LogoutsStay ==
  ASSUME IInv, WorkspaceInv, NEW t \in Tabs, Moves(t), token'[t] \in {token[t], None},
         \A r \in Awaited(t)' : r > issued /\ call'[r].kind = "logout" => call'[r].token = token'[t]
  PROVE  LogoutsForget(t)'
<1>. SUFFICES ASSUME NEW r \in Awaited(t)', NEW k \in Tokens, call'[r].kind = "logout",
                     token'[t] = k
              PROVE  k = call'[r].token \/ (k \in Calls /\ Overlap(r, k)')
  BY DEF LogoutsForget
<1>1. CallsInOrder /\ LogoutsForget(t) /\ token[t] = k
  BY SetsAssumption DEF WorkspaceInv, PageInv
<1>2. r \in Calls /\ r \in Nat /\ issued \in Nat /\ told'[r] = "awaiting" /\ Tab(r)' = t
  BY <1>1, ScenarioTypes, SentTypes DEF Awaited, IInv
<1>3. CASE r <= issued
  <2>1. r \in Awaited(t) /\ call'[r] = call[r]
    BY <1>1, <1>2, <1>3, MovesKeep DEF Awaited
  <2>2. k \in Calls => k <= issued
    <3>1. k \in Calls => pc[k] = "ok"
      BY <1>1 DEF IInv, TokensFollow
    <3>. QED BY <1>1, <3>1, SentTypes
  <2>3. k = call[r].token \/ (k \in Calls /\ Overlap(r, k))
    BY <1>1, <2>1 DEF LogoutsForget
  <2>. QED BY <1>1, <1>2, <1>3, <2>1, <2>2, <2>3, MovesKeep
<1>4. CASE r > issued
  BY <1>4
<1>. QED BY <1>2, <1>3, <1>4

\* Sessions stay held when their tokens do and no sign-in's answer is received.
LEMMA SessionsStay ==
  ASSUME IInv, WorkspaceInv, NEW t \in Tabs, Moves(t), token'[t] = token[t],
         \A k \in Calls : call[k].kind \in SignIns /\ told'[k] # told[k] => told'[k] # "ok",
         NEW k \in Tokens, session[k] # NoSession,
         token[t] = k \/ (k \in Calls /\ told[k] = "awaiting" /\ Tab(k) = t)
  PROVE  Held(k)'
<1>1. CASE token[t] = k
  BY <1>1 DEF Held
<1>2. CASE k \in Calls /\ told[k] = "awaiting"
  <2>1. call[k].kind \in SignIns /\ k <= issued
    BY <1>2, SentTypes DEF WorkspaceInv, SessionsFollow
  <2>2. told'[k] \in {"awaiting", "failed", "gone"}
    BY <1>2, <2>1 DEF Moves
  <2>. QED BY <1>2, <2>2 DEF Held, WentWrong
<1>. QED BY <1>1, <1>2

LEMMA AwaitedSent ==
  ASSUME IInv, CallsInOrder, NEW t \in Tabs, Moves(t), NEW n \in Calls, NEW kind, NEW tok, NEW after,
         Sent(t, n, kind, tok, after)
  PROVE  /\ n \in Awaited(t)' /\ n > issued
         /\ call'[n].kind = kind /\ call'[n].token = tok
         /\ \A q \in Awaited(t)' : q # n =>
              /\ q \in Awaited(t) /\ after[q] = "awaiting" /\ call'[q] = call[q]
              /\ ~(q > issued)
         /\ \A q \in Awaited(t) : after[q] = "awaiting" =>
              q \in Awaited(t)' /\ call'[q] = call[q] /\ q # n
<1>1. \A q \in Awaited(t) : /\ q \in Calls /\ q \in Nat /\ q <= issued /\ call'[q] = call[q]
  BY MovesKeep, SentTypes DEF Awaited
<1>2. issued \in Nat /\ Awaited(t)' \subseteq Calls /\ n \in Nat
  BY SentTypes DEF Awaited
<1>3. \A q \in Awaited(t) : ~(q > issued) /\ q # n
  BY <1>1, <1>2 DEF Sent
<1>4. \A q \in Calls : q \in Awaited(t)' <=> q = n \/ (q \in Awaited(t) /\ after[q] = "awaiting")
  BY DEF Sent
<1>5. n > issued /\ call'[n].kind = kind /\ call'[n].token = tok
  BY DEF Sent
<1>. QED BY <1>1, <1>2, <1>3, <1>4, <1>5

LEMMA SignInWorkspace ==
  ASSUME IInv, WorkspaceInv, NEW t \in Tabs, NEW kind \in SignIns, NEW user \in Emails,
         SignIn(t, kind, user)
  PROVE  WorkspaceInv'
<1>1. /\ CallsInOrder /\ PageInv(t) /\ kind \in Kinds /\ token[t] \in Tokens \cup {None}
      /\ told \in [Calls -> ToldTo] /\ kind \notin Lists \cup {"logout", "me", "change", "relist"}
      /\ loading \in [Tabs -> BOOLEAN]
  BY DEF WorkspaceInv, SignIns, Kinds, Lists, IInv, TypeOK, ToldTo
<1>2. /\ Send(t, kind, user, token[t], told) /\ UNCHANGED <<token, principal, shown>>
      /\ principal[t] = None /\ ~loading[t] /\ loading'[t] = TRUE
      /\ \A r \in Awaited(t) : call[r].kind # "me"
      /\ Elsewhere(t) /\ Ends(t, told)
  BY <1>1 DEF SignIn, Elsewhere, Ends, server
<1>3. Moves(t) /\ \E n \in Calls : Sent(t, n, kind, token[t], told)
  BY <1>1, <1>2, SendMoves
<1>4. PICK n \in Calls : Sent(t, n, kind, token[t], told)
  BY <1>3
<1>5. /\ n \in Awaited(t)' /\ call'[n].kind = kind
      /\ \A q \in Awaited(t)' : q # n => q \in Awaited(t) /\ call'[q] = call[q] /\ ~(q > issued)
  BY <1>1, <1>3, <1>4, AwaitedSent
<1>6. PageFollows(t)'
  <2>1. token[t] = None
    BY <1>1, <1>2 DEF PageInv, PageFollows
  <2>2. \A q \in Awaited(t) : call[q].kind \notin Gated
    BY <1>1, <1>2 DEF PageInv, PageFollows
  <2>3. \A q \in Awaited(t)' : /\ call'[q].kind # "me"
                               /\ call'[q].kind \in Gated => q = n
    BY <1>1, <1>2, <1>5, <2>2
  <2>. QED BY <1>2, <2>1, <2>3 DEF PageFollows
<1>7. ListsAreOwn(t)'
  BY <1>1, <1>2, <1>3, <1>5, ListsStay
<1>8. \A q \in Calls : told'[q] # told[q] => q = n /\ q > issued /\ told'[q] = "awaiting"
  BY <1>4 DEF Sent, Awaited
<1>9. ChangesAreShown(t)'
  <2>1. call[n].kind = "none"
    BY <1>1, <1>4, SentTypes DEF Sent, CallsInOrder, NoCall
  <2>. QED BY <1>2, <1>3, <1>8, <2>1, ChangesStay
<1>10. LogoutsForget(t)'
  BY <1>1, <1>2, <1>3, <1>5, LogoutsStay
<1>11. ASSUME NEW k \in Tokens, session[k] # NoSession,
              token[t] = k \/ (k \in Calls /\ told[k] = "awaiting" /\ Tab(k) = t)
       PROVE  Held(k)'
  BY <1>2, <1>3, <1>8, <1>11, SessionsStay
<1>. QED BY <1>3, <1>6, <1>7, <1>9, <1>10, <1>11, MovesInv DEF PageInv

LEMMA WorkWorkspace ==
  ASSUME IInv, WorkspaceInv, NEW t \in Tabs,
         \/ \E user \in Emails : Work(t, "member", user)
         \/ \E k \in {"change", "propose"} : Work(t, k, None)
         \/ SignOut(t)
  PROVE  WorkspaceInv'
<1>1. PICK kind \in {"member", "change", "propose", "logout"}, user \in Emails \cup {None} :
        /\ Send(t, kind, user, token[t], told) /\ UNCHANGED <<token, principal, shown>>
        /\ principal[t] # None /\ Elsewhere(t)
        /\ IF kind = "logout" THEN UNCHANGED loading
             ELSE ~loading[t] /\ loading' = [loading EXCEPT ![t] = TRUE]
  <2>1. ASSUME NEW user \in Emails, Work(t, "member", user)
        PROVE  /\ Send(t, "member", user, token[t], told) /\ UNCHANGED <<token, principal, shown>>
               /\ principal[t] # None /\ Elsewhere(t)
               /\ ~loading[t] /\ loading' = [loading EXCEPT ![t] = TRUE]
    BY <2>1 DEF Work, Elsewhere, IInv, TypeOK, server
  <2>2. ASSUME NEW k \in {"change", "propose"}, Work(t, k, None)
        PROVE  /\ Send(t, k, None, token[t], told) /\ UNCHANGED <<token, principal, shown>>
               /\ principal[t] # None /\ Elsewhere(t)
               /\ ~loading[t] /\ loading' = [loading EXCEPT ![t] = TRUE]
    BY <2>2 DEF Work, Elsewhere, IInv, TypeOK, server
  <2>3. ASSUME SignOut(t)
        PROVE  /\ Send(t, "logout", None, token[t], told) /\ UNCHANGED <<token, principal, shown>>
               /\ principal[t] # None /\ Elsewhere(t) /\ UNCHANGED loading
    BY <2>3 DEF SignOut, Elsewhere, server, workspace
  <2>. QED BY <2>1, <2>2, <2>3
<1>2. /\ CallsInOrder /\ PageInv(t) /\ kind \in Kinds /\ token[t] \in Tokens \cup {None}
      /\ told \in [Calls -> ToldTo] /\ kind \notin Lists \cup SignIns \cup {"me", "relist"}
      /\ loading \in [Tabs -> BOOLEAN] /\ Ends(t, told)
  BY DEF WorkspaceInv, SignIns, Kinds, Lists, IInv, TypeOK, ToldTo, Ends
<1>3. Moves(t) /\ \E n \in Calls : Sent(t, n, kind, token[t], told)
  BY <1>1, <1>2, SendMoves
<1>4. PICK n \in Calls : Sent(t, n, kind, token[t], told)
  BY <1>3
<1>5. /\ n \in Awaited(t)' /\ call'[n].kind = kind /\ call'[n].token = token[t]
      /\ \A q \in Awaited(t)' : q # n => q \in Awaited(t) /\ call'[q] = call[q] /\ ~(q > issued)
  BY <1>2, <1>3, <1>4, AwaitedSent
<1>6. PageFollows(t)'
  <2>1. \A q \in Awaited(t) : call[q].kind \notin SignIns \cup {"me"}
    BY <1>1, <1>2 DEF PageInv, PageFollows
  <2>2. \A q \in Awaited(t)' : call'[q].kind \notin SignIns \cup {"me"}
    BY <1>2, <1>5, <2>1
  <2>3. \A q \in Awaited(t)' : call'[q].kind \in Gated =>
          loading'[t] /\ \A p \in Awaited(t)' : call'[p].kind \in Gated => p = q
    <3>1. CASE kind = "logout"
      <4>1. /\ call'[n].kind \notin Gated /\ loading'[t] = loading[t]
            /\ \A q \in Awaited(t) : call[q].kind \in Gated =>
                 loading[t] /\ \A p \in Awaited(t) : call[p].kind \in Gated => p = q
        BY <1>1, <1>2, <1>5, <3>1 DEF Gated, SignIns, PageInv, PageFollows
      <4>. QED BY <1>5, <4>1
    <3>2. CASE kind # "logout"
      <4>1. loading'[t] = TRUE /\ \A q \in Awaited(t) : call[q].kind \notin Gated
        BY <1>1, <1>2, <3>2 DEF PageInv, PageFollows
      <4>. QED BY <1>5, <4>1
    <3>. QED BY <3>1, <3>2
  <2>4. /\ token[t] # None
        /\ \A k \in Tokens : token'[t] = k => principal'[t] = UserOf(k)'
    <3>1. \A k \in Tokens : UserOf(k)' = UserOf(k)
      BY <1>2, <1>3, MovesKeep
    <3>. QED BY <1>1, <1>2, <3>1 DEF PageInv, PageFollows
  <2>. QED BY <1>1, <2>2, <2>3, <2>4 DEF PageFollows
<1>7. ListsAreOwn(t)'
  BY <1>1, <1>2, <1>3, <1>5, ListsStay
<1>8. \A q \in Calls : told'[q] # told[q] => q = n /\ q > issued /\ told'[q] = "awaiting"
  BY <1>4 DEF Sent, Awaited
<1>9. ChangesAreShown(t)'
  <2>1. call[n].kind = "none"
    BY <1>2, <1>4, SentTypes DEF Sent, CallsInOrder, NoCall
  <2>. QED BY <1>1, <1>3, <1>8, <2>1, ChangesStay
<1>10. LogoutsForget(t)'
  BY <1>1, <1>2, <1>3, <1>5, LogoutsStay
<1>11. ASSUME NEW k \in Tokens, session[k] # NoSession,
              token[t] = k \/ (k \in Calls /\ told[k] = "awaiting" /\ Tab(k) = t)
       PROVE  Held(k)'
  BY <1>1, <1>3, <1>8, <1>11, SessionsStay
<1>. QED BY <1>3, <1>6, <1>7, <1>9, <1>10, <1>11, MovesInv DEF PageInv

LEMMA ReloadWorkspace ==
  ASSUME IInv, WorkspaceInv, NEW t \in Tabs, Reload(t) PROVE WorkspaceInv'
<1> DEFINE gone == Gone(t)
<1>1. /\ CallsInOrder /\ PageInv(t) /\ token[t] \in Tokens \cup {None}
      /\ told \in [Calls -> ToldTo] /\ gone \in [Calls -> ToldTo]
  BY GoneCalls DEF WorkspaceInv, IInv, TypeOK, ToldTo
<1>2. /\ Send(t, "me", None, token[t], gone) /\ UNCHANGED token /\ token[t] # None
      /\ principal'[t] = None /\ shown'[t] = None /\ loading'[t] = FALSE
      /\ Elsewhere(t)
  BY DEF Reload, Elsewhere, IInv, TypeOK, server
<1>3. /\ Ends(t, gone) /\ \A q \in Calls : gone[q] = "awaiting" => q \notin Awaited(t)
      /\ \A q \in Calls : gone[q] # told[q] => gone[q] = "gone"
  BY GoneCalls DEF Ends, Awaited, IInv
<1>. HIDE DEF gone
<1>4. Moves(t) /\ \E n \in Calls : Sent(t, n, "me", token[t], gone)
  BY <1>1, <1>2, <1>3, SendMoves DEF Kinds
<1>5. PICK n \in Calls : Sent(t, n, "me", token[t], gone)
  BY <1>4
<1>6. /\ n \in Awaited(t)' /\ call'[n].kind = "me" /\ call'[n].token = token[t]
      /\ \A q \in Awaited(t)' : q = n
  <2>1. Awaited(t) \subseteq Calls
    BY DEF Awaited
  <2>. QED BY <1>1, <1>3, <1>4, <1>5, <2>1, AwaitedSent
<1>7. PageFollows(t)'
  BY <1>2, <1>6 DEF PageFollows, SignIns, Gated
<1>8. ListsAreOwn(t)' /\ ChangesAreShown(t)' /\ LogoutsForget(t)'
  <2>1. \A r \in Calls : shown'[t] # r
    BY <1>2, SetsAssumption DEF Tokens
  <2>. QED BY <1>6, <2>1 DEF ListsAreOwn, ChangesAreShown, LogoutsForget, Lists
<1>9. \A q \in Calls : told'[q] # told[q] => told'[q] # "ok"
  <2>1. told'[n] = "awaiting" /\ \A q \in Calls : q # n => told'[q] = gone[q]
    BY <1>5, <1>6 DEF Sent, Awaited
  <2>. QED BY <1>3, <2>1
<1>10. ASSUME NEW k \in Tokens, session[k] # NoSession,
              token[t] = k \/ (k \in Calls /\ told[k] = "awaiting" /\ Tab(k) = t)
       PROVE  Held(k)'
  BY <1>2, <1>4, <1>9, <1>10, SessionsStay
<1>. QED BY <1>4, <1>7, <1>8, <1>10, MovesInv DEF PageInv

\* Of a closed tab only the token it was closed with is left.
LEMMA CloseWorkspace ==
  ASSUME IInv, WorkspaceInv, NEW t \in Tabs, Close(t) PROVE WorkspaceInv'
<1>1. /\ token'[t] = None /\ principal'[t] = None /\ shown'[t] = None /\ loading'[t] = FALSE
      /\ token[t] \in Tokens => token[t] \in closed'
      /\ closed \subseteq closed' /\ UNCHANGED <<server, issued, call, pc, who, seen>>
      /\ \A s \in Tabs \ {t} : /\ token'[s] = token[s] /\ principal'[s] = principal[s]
                               /\ shown'[s] = shown[s] /\ loading'[s] = loading[s]
  BY SetsAssumption DEF Close, IInv, TypeOK
<1>2. \A q \in Calls : told'[q] = IF q \in Awaited(t) THEN "gone" ELSE told[q]
  BY GoneCalls DEF Close, IInv
<1>3. Awaited(t)' = {}
  BY <1>1, <1>2 DEF Awaited, Tab
<1>4. Moves(t)
  <2>1. CallsInOrder /\ issued \in Nat /\ \A q \in Calls : q \in Nat
    BY ScenarioTypes, SentTypes DEF WorkspaceInv, IInv
  <2>2. \A q \in Calls : q \in Awaited(t) => told[q] = "awaiting" /\ Tab(q) = t /\ ~(q > issued)
    BY <2>1 DEF Awaited, CallsInOrder
  <2>. QED BY <1>1, <1>2, <2>1, <2>2 DEF Moves, server
<1>5. PageInv(t)'
  <2>1. \A r \in Calls : shown'[t] # r
    BY <1>1, SetsAssumption DEF Tokens
  <2>2. PageFollows(t)'
    BY <1>1, <1>3 DEF PageFollows
  <2>. QED BY <1>3, <2>1, <2>2 DEF PageInv, ListsAreOwn, ChangesAreShown, LogoutsForget
<1>6. ASSUME NEW k \in Tokens, token[t] = k \/ (k \in Calls /\ told[k] = "awaiting" /\ Tab(k) = t)
      PROVE  Held(k)'
  <2>1. CASE token[t] = k
    BY <1>1, <2>1 DEF Held, WentWrong
  <2>2. CASE k \in Calls /\ told[k] = "awaiting" /\ Tab(k) = t
    BY <1>2, <2>2 DEF Held, WentWrong, Awaited
  <2>. QED BY <1>6, <2>1, <2>2
<1>. QED BY <1>4, <1>5, <1>6, MovesInv

\* The calls that are followed by another one of their tab.
LEMMA FollowWorkspace ==
  ASSUME IInv, WorkspaceInv, NEW r \in Calls, NEW t \in Tabs, t = Tab(r),
         SignedIn(r) \/ Remembered(r) \/ Changed(r)
  PROVE  WorkspaceInv'
<1> DEFINE after == Told(r, "ok")
<1>1. /\ call[r] \in Call /\ pc[r] = "ok" /\ r \in Awaited(t)
      /\ who[r] # None /\ r \in Tokens /\ token[t] \in Tokens \cup {None}
      /\ call[r].kind \in SignIns \cup {"me", "change"}
      /\ loading \in [Tabs -> BOOLEAN] /\ CallsInOrder /\ PageInv(t)
  <2>1. told[r] = "awaiting" /\ pc[r] = "ok" /\ call[r].kind \in SignIns \cup {"me", "change"}
    BY DEF SignedIn, Remembered, Changed, Arrives
  <2>2. call[r] \in Call
    BY <2>1, SentTypes DEF WorkspaceInv
  <2>. QED BY <2>1, <2>2 DEF IInv, UsersExist, Tokens, TypeOK, WorkspaceInv, Awaited
<1>2. /\ after \in [Calls -> ToldTo] /\ after[r] = "ok" /\ Ends(t, after)
      /\ \A q \in Calls : q # r => after[q] = told[q]
  <2>1. after = [told EXCEPT ![r] = "ok"]
    BY DEF Told
  <2>2. after \in [Calls -> ToldTo]
    BY ToldStep DEF IInv
  <2>. QED BY <1>1, <2>1, <2>2 DEF Ends, Awaited, IInv, TypeOK
<1>3. PICK kind \in {"list", "relist"}, tok \in Tokens \cup {None} :
        /\ Send(t, kind, None, tok, after) /\ Elsewhere(t) /\ UNCHANGED shown /\ tok = token'[t]
        /\ IF call[r].kind \in SignIns THEN token'[t] = r ELSE UNCHANGED token
        /\ IF call[r].kind = "change" THEN UNCHANGED principal ELSE principal'[t] = who[r]
        /\ IF call[r].kind \in SignIns THEN loading'[t] = FALSE ELSE UNCHANGED loading
        /\ kind = "relist" <=> call[r].kind = "change"
  <2>1. ASSUME SignedIn(r)
        PROVE  /\ Send(t, "list", None, r, after) /\ Elsewhere(t) /\ UNCHANGED shown
               /\ token'[t] = r /\ principal'[t] = who[r] /\ loading'[t] = FALSE
               /\ call[r].kind \in SignIns
    BY <1>1, <2>1 DEF SignedIn, Elsewhere, IInv, TypeOK
  <2>2. ASSUME Remembered(r)
        PROVE  /\ Send(t, "list", None, token[t], after) /\ Elsewhere(t) /\ UNCHANGED shown
               /\ UNCHANGED <<token, loading>> /\ principal'[t] = who[r]
               /\ call[r].kind = "me"
    BY <1>1, <2>2 DEF Remembered, Elsewhere, IInv, TypeOK
  <2>3. ASSUME Changed(r)
        PROVE  /\ Send(t, "relist", None, token[t], after) /\ Elsewhere(t) /\ UNCHANGED shown
               /\ UNCHANGED <<token, principal, loading>> /\ call[r].kind = "change"
    BY <1>1, <2>3 DEF Changed, Elsewhere, workspace, server
  <2>4. SignIns \cap {"me", "change"} = {}
    BY DEF SignIns
  <2>. QED BY <1>1, <2>1, <2>2, <2>3, <2>4
<1>. HIDE DEF after
<1>4. Moves(t) /\ \E n \in Calls : Sent(t, n, kind, tok, after)
  <2>1. kind \in Kinds
    BY DEF Kinds
  <2>. QED BY <1>1, <1>2, <1>3, <2>1, SendMoves
<1>5. PICK n \in Calls : Sent(t, n, kind, tok, after)
  BY <1>4
<1>6. /\ n \in Awaited(t)' /\ call'[n].kind = kind /\ call'[n].token = tok /\ n # r /\ n > issued
      /\ \A q \in Awaited(t)' : q # n => /\ q \in Awaited(t) /\ q # r
                                         /\ call'[q] = call[q] /\ ~(q > issued)
  <2>1. /\ n \in Awaited(t)' /\ call'[n].kind = kind /\ call'[n].token = tok /\ n > issued
        /\ \A q \in Awaited(t)' : q # n =>
             q \in Awaited(t) /\ after[q] = "awaiting" /\ call'[q] = call[q] /\ ~(q > issued)
    BY <1>1, <1>4, <1>5, AwaitedSent
  <2>2. r <= issued /\ r \in Nat /\ n \in Nat /\ issued \in Nat
    BY <1>1, SentTypes
  <2>. QED BY <1>2, <2>1, <2>2
<1>7. /\ \A k \in Tokens : UserOf(k)' = UserOf(k)
      /\ UserOf(r) = who[r]
      /\ call[r].kind \notin SignIns => call[r].token # None /\ who[r] = UserOf(call[r].token)
  <2>1. \A k \in Tokens : UserOf(k)' = UserOf(k)
    BY <1>1, <1>4, MovesKeep
  <2>2. r <= issued
    BY <1>1, SentTypes
  <2>. QED BY <1>1, <2>1, <2>2 DEF UserOf, WorkspaceInv, SessionsFollow
<1>8. /\ call[r].kind \in SignIns => principal[t] = None /\ token[t] = None
      /\ call[r].kind = "me" => /\ principal[t] = None /\ token[t] = call[r].token
                                /\ \A q \in Awaited(t) : q = r
      /\ call[r].kind # "me" => \A q \in Awaited(t) : call[q].kind # "me"
      /\ call[r].kind = "change" =>
           /\ token[t] # None => principal[t] # None
           /\ loading[t] /\ \A q \in Awaited(t) : call[q].kind \in Gated => q = r
      /\ call[r].kind \in SignIns => \A q \in Awaited(t) : call[q].kind \in Gated => q = r
  BY <1>1 DEF PageInv, PageFollows, Gated
<1>9. PageFollows(t)'
  <2>1. \A q \in Awaited(t)' : call'[q].kind \notin SignIns \cup {"me"}
    <3>1. \A q \in Awaited(t) : q # r => call[q].kind \notin SignIns \cup {"me"}
      BY <1>1, <1>8 DEF Gated
    <3>. QED BY <1>6, <3>1 DEF SignIns
  <2>2. \A q \in Awaited(t)' : call'[q].kind \in Gated => loading'[t] /\ q = n
    <3>1. \A q \in Awaited(t) : q # r => call[q].kind \notin Gated
      BY <1>1, <1>8
    <3>2. kind = "list" => kind \notin Gated
      BY DEF Gated, SignIns
    <3>. QED BY <1>3, <1>6, <1>8, <3>1, <3>2 DEF SignIns
  <2>3. /\ principal'[t] # None => token'[t] # None
        /\ \A k \in Tokens : principal'[t] # None /\ token'[t] = k => principal'[t] = UserOf(k)
        /\ principal'[t] = None => token'[t] = None
    <3>1. CASE call[r].kind \in SignIns
      BY <1>1, <1>3, <1>7, <3>1, SetsAssumption DEF SignIns
    <3>2. CASE call[r].kind = "me"
      BY <1>1, <1>3, <1>7, <1>8, <3>2 DEF SignIns
    <3>3. CASE call[r].kind = "change"
      BY <1>1, <1>3, <1>8, <3>3 DEF SignIns, PageInv, PageFollows
    <3>. QED BY <1>1, <3>1, <3>2, <3>3
  <2>. QED BY <1>7, <2>1, <2>2, <2>3 DEF PageFollows
<1>10. ListsAreOwn(t)'
  <2>1. tok = None \/ (principal'[t] # None /\ token'[t] = tok)
    BY <1>1, <1>3, <1>8 DEF SignIns
  <2>2. principal[t] = None \/ (token'[t] = token[t] /\ principal'[t] = principal[t])
    BY <1>1, <1>3, <1>8 DEF SignIns
  <2>. QED BY <1>1, <1>3, <1>4, <1>6, <2>1, <2>2, ListsStay
<1>11. /\ told'[n] = "awaiting" /\ told'[r] = "ok" /\ call[n].kind = "none"
       /\ \A q \in Calls : q # n /\ q # r => told'[q] = told[q]
  <2>1. call[n].kind = "none"
    BY <1>1, <1>6, SentTypes DEF CallsInOrder, NoCall
  <2>. QED BY <1>2, <1>5, <1>6, <2>1 DEF Sent, Awaited
<1>12. ChangesAreShown(t)'
  <2>1. ASSUME call[r].kind = "change" PROVE RefreshDue(t, r)'
    <3>1. n > r
      <4>1. r <= issued /\ r \in Nat /\ n \in Nat /\ issued \in Nat
        BY <1>1, SentTypes
      <4>. QED BY <1>6, <4>1
    <3>2. Tab(n)' = t /\ call'[n].kind = "relist"
      BY <1>3, <1>5, <1>6, <2>1 DEF Sent
    <3>. QED BY <1>11, <3>1, <3>2 DEF RefreshDue
  <2>2. call[r].kind # "relist"
    BY <1>1 DEF SignIns
  <2>3. \A q \in Calls : call[q].kind = "change" /\ told'[q] = "ok" /\ told[q] # "ok" => q = r
    BY <1>11
  <2>. QED BY <1>1, <1>3, <1>4, <1>11, <2>1, <2>2, <2>3, ChangesStay
<1>13. LogoutsForget(t)'
  <2>1. CASE call[r].kind \in SignIns
    <3>1. ASSUME NEW q \in Awaited(t)', call'[q].kind = "logout" PROVE Overlap(q, r)'
      <4>1. q \in Awaited(t) /\ q # r /\ call'[q] = call[q]
        BY <1>3, <1>6, <3>1
      <4>2. Overlap(q, r) /\ q \in Calls /\ q <= issued /\ r <= issued
        BY <1>1, <4>1, AwaitedOverlap, SentTypes DEF Awaited
      <4>. QED BY <1>1, <1>4, <4>2, MovesKeep
    <3>2. token'[t] = r
      BY <1>3, <2>1
    <3>. QED BY <3>1, <3>2 DEF LogoutsForget
  <2>2. CASE call[r].kind \notin SignIns
    BY <1>1, <1>3, <1>4, <1>6, <2>2, LogoutsStay
  <2>. QED BY <2>1, <2>2
<1>14. ASSUME NEW k \in Tokens, session[k] # NoSession,
              token[t] = k \/ (k \in Calls /\ told[k] = "awaiting" /\ Tab(k) = t)
       PROVE  Held(k)'
  <2>1. CASE call[r].kind \in SignIns
    <3>1. token[t] # k
      BY <1>8, <2>1, SetsAssumption
    <3>2. CASE k = r
      BY <1>1, <1>3, <2>1, <3>2 DEF Held
    <3>3. CASE k # r
      <4>1. k # n
        <5>1. told[n] = "nothing"
          BY <1>1, <1>6 DEF CallsInOrder
        <5>. QED BY <1>14, <3>1, <5>1
      <4>2. told'[k] = "awaiting"
        BY <1>11, <1>14, <3>1, <3>3, <4>1
      <4>. QED BY <1>14, <3>1, <4>2 DEF Held
    <3>. QED BY <3>2, <3>3
  <2>2. CASE call[r].kind \notin SignIns
    BY <1>1, <1>3, <1>4, <1>11, <1>14, <2>2, SessionsStay
  <2>. QED BY <2>1, <2>2
<1>. QED BY <1>4, <1>9, <1>10, <1>12, <1>13, <1>14, MovesInv DEF PageInv

\* The calls that end quietly: what ends them and what their tab makes of it.
LEMMA QuietStep ==
  ASSUME IInv, WorkspaceInv, NEW r \in Calls, NEW t \in Tabs, t = Tab(r), NEW what \in {"ok", "failed"},
         \/ what = "failed" /\ Forgotten(r)
         \/ what = "ok" /\ SignedOut(r) /\ Arrives(r)
         \/ what = "failed" /\ SignedOut(r) /\ ~Arrives(r)
         \/ what = "ok" /\ (Refreshed(r) \/ Finished(r))
         \/ what = "failed" /\ CallFailed(r),
         told' = Told(r, what)
  PROVE  /\ r \in Awaited(t) /\ Moves(t) /\ Awaited(t)' = Awaited(t) \ {r} /\ told'[r] = what
         /\ r <= issued
         /\ (what = "ok" => pc[r] = "ok")
         /\ UNCHANGED <<issued, call>>
         /\ \A q \in Calls : q # r => told'[q] = told[q]
         /\ \A k \in Tokens : UserOf(k)' = UserOf(k)
         /\ \A q \in Awaited(t) : q \in Calls /\ ~(q > issued)
         /\ CallsInOrder /\ PageInv(t)
<1>1. /\ told[r] = "awaiting" /\ UNCHANGED <<issued, call, pc>>
      /\ what = "ok" => pc[r] = "ok"
      /\ UNCHANGED <<server, who, seen>>
      /\ \A s \in Tabs \ {t} : /\ token'[s] = token[s] /\ principal'[s] = principal[s]
                               /\ shown'[s] = shown[s] /\ loading'[s] = loading[s]
      /\ closed' = closed
  BY DEF Forgotten, SignedOut, Refreshed, Finished, CallFailed, Arrives, Refused, Lost, Cleared,
         IInv, TypeOK
<1>2. r \in Awaited(t) /\ Elsewhere(t) /\ CallsInOrder /\ PageInv(t)
  BY <1>1 DEF Awaited, Elsewhere, WorkspaceInv, server
<1>3. \A q \in Awaited(t) : q \in Calls /\ q <= issued /\ ~(q > issued)
  <2>1. \A q \in Awaited(t) : q \in Calls /\ q <= issued /\ q \in Nat /\ issued \in Nat
    BY <1>2, SentTypes DEF Awaited
  <2>. QED BY <2>1
<1>4. Moves(t)
  BY <1>1, <1>2, QuietMoves
<1>. QED BY <1>1, <1>2, <1>3, <1>4, QuietMoves, MovesKeep

\* An answer that leaves token and principal as they are.
LEMMA AnswerWorkspace ==
  ASSUME IInv, WorkspaceInv, NEW r \in Calls, NEW t \in Tabs, t = Tab(r),
         Refreshed(r) \/ Finished(r) \/ CallFailed(r)
  PROVE  WorkspaceInv'
<1>1. PICK what \in {"ok", "failed"} :
        /\ told' = Told(r, what) /\ UNCHANGED <<token, principal>>
        /\ call[r].kind \in SignIns \cup Lists \cup {"member", "change", "propose"}
        /\ \/ what = "ok" /\ Refreshed(r) /\ shown'[t] = r /\ call[r].kind \in Lists
              /\ loading'[t] = (loading[t] /\ call[r].kind # "relist")
           \/ what = "ok" /\ Finished(r) /\ UNCHANGED shown
              /\ call[r].kind \in {"member", "propose"}
              /\ loading'[t] = FALSE
           \/ what = "failed" /\ CallFailed(r) /\ UNCHANGED shown
              /\ loading'[t] = (loading[t] /\ call[r].kind = "list")
  BY DEF Refreshed, Finished, CallFailed, Kinds, SignIns, Lists, IInv, TypeOK
<1>2. /\ r \in Awaited(t) /\ Moves(t) /\ Awaited(t)' = Awaited(t) \ {r} /\ told'[r] = what
      /\ r <= issued
      /\ (what = "ok" => pc[r] = "ok")
      /\ UNCHANGED <<issued, call>>
      /\ \A q \in Calls : q # r => told'[q] = told[q]
      /\ \A k \in Tokens : UserOf(k)' = UserOf(k)
      /\ \A q \in Awaited(t) : q \in Calls /\ ~(q > issued)
      /\ CallsInOrder /\ PageInv(t)
  BY <1>1, QuietStep
<1>3. /\ call[r].kind \notin {"me", "logout"} /\ told[r] = "awaiting" /\ Tab(r) = t
      /\ loading \in [Tabs -> BOOLEAN]
  BY <1>1, <1>2 DEF SignIns, Lists, Awaited, IInv, TypeOK
<1>4. PageFollows(t)'
  <2>1. \A q \in Awaited(t) : call[q].kind # "me"
    BY <1>2, <1>3 DEF PageInv, PageFollows
  <2>2. \A q \in Awaited(t) : q # r /\ call[q].kind \in Gated => loading'[t]
    <3>1. ASSUME NEW q \in Awaited(t), q # r, call[q].kind \in Gated PROVE loading'[t]
      <4>1. call[r].kind \notin Gated /\ loading[t]
        BY <1>2, <3>1 DEF PageInv, PageFollows
      <4>2. call[r].kind = "list"
        BY <1>1, <4>1 DEF Gated, Lists
      <4>. QED BY <1>1, <1>3, <4>1, <4>2
    <3>. QED BY <3>1
  <2>3. PageFollows(t)
    BY <1>2 DEF PageInv
  <2>. QED BY <1>1, <1>2, <2>1, <2>2, <2>3 DEF PageFollows
<1>5. CASE UNCHANGED shown
  <2>1. /\ call[r].kind = "relist" => what = "failed"
        /\ call[r].kind = "change" => what = "failed"
        /\ call[r].kind \in SignIns => what = "failed"
    <3>1. CASE Refreshed(r)
      <4>1. shown[t] # r
        BY <1>2, <1>3 DEF PageInv, ListsAreOwn
      <4>. QED BY <1>5, <3>1, <4>1, <1>3 DEF Refreshed, IInv, TypeOK
    <3>2. CASE ~Refreshed(r)
      BY <1>1, <3>2 DEF SignIns
    <3>. QED BY <3>1, <3>2
  <2>2. ListsAreOwn(t)'
    BY <1>1, <1>2, <1>5, ListsStay
  <2>3. ChangesAreShown(t)'
    BY <1>2, <1>5, <2>1, ChangesStay
  <2>4. LogoutsForget(t)'
    BY <1>1, <1>2, LogoutsStay
  <2>5. ASSUME NEW k \in Tokens, session[k] # NoSession,
               token[t] = k \/ (k \in Calls /\ told[k] = "awaiting" /\ Tab(k) = t)
        PROVE  Held(k)'
    BY <1>1, <1>2, <2>1, <2>5, SessionsStay
  <2>. QED BY <1>2, <1>4, <2>2, <2>3, <2>4, <2>5, MovesInv DEF PageInv
<1>6. CASE what = "ok" /\ shown'[t] = r /\ call[r].kind \in Lists
  <2>1. \A q \in Calls : q <= issued => (Overlap(q, r)' <=> Overlap(q, r)) /\ Tab(q)' = Tab(q)
    BY <1>2, MovesKeep
  <2>2. ASSUME NEW q \in Calls, q <= issued, Tab(q) = t, IsOwn(q) PROVE IsOwn(q)'
    <3>1. CASE OverlapsLogout(q)
      BY <1>2, <2>2, <3>1, LogoutStays DEF IsOwn
    <3>2. CASE ~OverlapsLogout(q)
      BY <1>1, <1>2, <2>1, <2>2, <3>2 DEF IsOwn, Tab
    <3>. QED BY <3>1, <3>2
  <2>3. IsOwn(r)
    <3>1. who[r] # None /\ call[r].kind \notin SignIns
      BY <1>2, <1>6 DEF IInv, UsersExist, Lists, SignIns
    <3>2. call[r].token # None
      BY <1>2, <3>1 DEF WorkspaceInv, SessionsFollow
    <3>. QED BY <1>2, <1>6, <3>2 DEF PageInv, ListsAreOwn
  <2>4. ListsAreOwn(t)'
    <3>1. \A q \in Awaited(t)' : call'[q].kind \in Lists => IsOwn(q)' \/ call'[q].token = None
      <4>1. \A q \in Awaited(t) : Tab(q) = t
        BY DEF Awaited
      <4>2. \A q \in Awaited(t) : q <= issued
        BY <1>2, SentTypes DEF Awaited
      <4>. QED BY <1>2, <2>2, <4>1, <4>2 DEF PageInv, ListsAreOwn
    <3>2. \A q \in Calls : shown'[t] = q => q = r
      BY <1>6
    <3>3. call'[r].kind \in Lists /\ Tab(r)' = t /\ told'[r] = "ok" /\ IsOwn(r)'
      BY <1>2, <1>3, <1>6, <2>1, <2>2, <2>3
    <3>. QED BY <3>1, <3>2, <3>3 DEF ListsAreOwn
  <2>5. ChangesAreShown(t)'
    <3>1. ASSUME NEW q \in Calls, call[q].kind = "change", told'[q] = "ok", Tab(q) = t
          PROVE  q < r \/ Overlap(q, r)
      <4>1. q # r /\ q \in Nat /\ r \in Nat /\ q <= issued
        BY <1>2, <1>6, <3>1, SentTypes DEF Lists
      <4>2. CASE r < q
        BY <1>2, <1>3, <3>1, <4>1, <4>2 DEF CallsInOrder, Overlap
      <4>. QED BY <4>1, <4>2
    <3>2. \A q \in Calls : call[q].kind = "change" /\ told'[q] = "ok" => q <= issued
      BY <1>2, SentTypes
    <3>. QED BY <1>2, <1>6, <2>1, <3>1, <3>2 DEF ChangesAreShown
  <2>6. LogoutsForget(t)'
    BY <1>1, <1>2, LogoutsStay
  <2>7. ASSUME NEW k \in Tokens, session[k] # NoSession,
               token[t] = k \/ (k \in Calls /\ told[k] = "awaiting" /\ Tab(k) = t)
        PROVE  Held(k)'
    <3>1. call[r].kind \notin SignIns
      BY <1>6 DEF Lists, SignIns
    <3>. QED BY <1>1, <1>2, <2>7, <3>1, SessionsStay
  <2>. QED BY <1>2, <1>4, <2>4, <2>5, <2>6, <2>7, MovesInv DEF PageInv
<1>. QED BY <1>1, <1>5, <1>6

\* The answers after which the tab forgets its token.
LEMMA ForgetWorkspace ==
  ASSUME IInv, WorkspaceInv, NEW r \in Calls, NEW t \in Tabs, t = Tab(r),
         Forgotten(r) \/ SignedOut(r)
  PROVE  WorkspaceInv'
<1>1. PICK what \in {"ok", "failed"} :
        /\ told' = Told(r, what) /\ token'[t] = None /\ UNCHANGED loading
        /\ \/ /\ what = "failed" /\ Forgotten(r) /\ call[r].kind = "me"
              /\ UNCHANGED <<principal, shown>>
           \/ /\ SignedOut(r) /\ call[r].kind = "logout" /\ principal'[t] = None /\ shown'[t] = None
              /\ (what = "ok" <=> Arrives(r))
  <2>1. CASE Forgotten(r)
    BY <2>1 DEF Forgotten, IInv, TypeOK
  <2>2. CASE SignedOut(r)
    <3>1. /\ call[r].kind = "logout" /\ UNCHANGED loading
          /\ token'[t] = None /\ principal'[t] = None /\ shown'[t] = None
      BY <2>2 DEF SignedOut, Cleared, IInv, TypeOK
    <3>2. CASE Arrives(r) /\ told' = Told(r, "ok")
      BY <2>2, <3>1, <3>2
    <3>3. CASE (Refused(r) \/ Lost(r)) /\ told' = Told(r, "failed")
      <4>1. ~Arrives(r)
        <5>1. faults \in Nat
          BY ScenarioTypes DEF IInv, TypeOK
        <5>. QED BY <3>3, <5>1 DEF Arrives, Refused, Lost, Fault
      <4>. QED BY <2>2, <3>1, <3>3, <4>1
    <3>. QED BY <2>2, <3>2, <3>3 DEF SignedOut
  <2>. QED BY <2>1, <2>2
<1>2. /\ r \in Awaited(t) /\ Moves(t) /\ Awaited(t)' = Awaited(t) \ {r} /\ told'[r] = what
      /\ r <= issued
      /\ (what = "ok" => pc[r] = "ok")
      /\ UNCHANGED <<issued, call>>
      /\ \A q \in Calls : q # r => told'[q] = told[q]
      /\ \A k \in Tokens : UserOf(k)' = UserOf(k)
      /\ \A q \in Awaited(t) : q \in Calls /\ ~(q > issued)
      /\ CallsInOrder /\ PageInv(t)
  BY <1>1, QuietStep
<1>3. /\ told[r] = "awaiting" /\ Tab(r) = t /\ r \in Tokens
      /\ call[r].kind \in {"me", "logout"}
  BY <1>1, <1>2 DEF Awaited, Tokens
<1>4. call[r].kind = "me" => /\ principal[t] = None /\ token[t] = call[r].token
                             /\ \A q \in Awaited(t) : q = r
  BY <1>2 DEF PageInv, PageFollows
<1>5. principal'[t] = None
  BY <1>1, <1>4
<1>6. PageFollows(t)'
  <2>1. \A q \in Awaited(t) : q # r => call[q].kind # "me"
    BY <1>2, <1>3 DEF PageInv, PageFollows
  <2>. QED BY <1>1, <1>2, <1>5, <2>1 DEF PageInv, PageFollows
<1>7. ListsAreOwn(t)'
  <2>1. shown'[t] \in {shown[t], None}
    BY <1>1
  <2>2. CASE call[r].kind = "me"
    BY <1>2, <1>4, <2>1, <2>2, ListsStay
  <2>3. CASE call[r].kind = "logout"
    <3>1. ASSUME NEW q \in Awaited(t), q # r PROVE OverlapsLogout(q)
      <4>1. Overlap(r, q)
        BY <1>2, <3>1, AwaitedOverlap
      <4>. QED BY <2>3, <4>1 DEF OverlapsLogout
    <3>2. shown'[t] = None
      BY <1>1, <2>3
    <3>. QED BY <1>2, <2>1, <3>1, <3>2, ListsStay
  <2>. QED BY <1>3, <2>2, <2>3
<1>8. ChangesAreShown(t)'
  <2>1. /\ \A l \in Calls : call[l].kind \in {"relist", "change"} => told'[l] = told[l]
        /\ shown'[t] \in {shown[t], None}
    BY <1>1, <1>2, <1>3
  <2>. QED BY <1>2, <2>1, ChangesStay
<1>9. LogoutsForget(t)'
  BY <1>1, <1>2, LogoutsStay
<1>10. ASSUME NEW k \in Tokens, session[k] # NoSession,
               token[t] = k \/ (k \in Calls /\ told[k] = "awaiting" /\ Tab(k) = t)
       PROVE  Held(k)'
  <2>1. CASE k = r
    BY <1>3, <1>10, <2>1 DEF WorkspaceInv, SessionsFollow, SignIns
  <2>2. CASE k # r /\ k \in Calls /\ told[k] = "awaiting"
    BY <1>2, <2>2 DEF Held
  <2>3. CASE token[t] = k /\ call[r].token = k /\ what = "failed"
    BY <1>2, <1>3, <2>3 DEF Held, WentWrong
  <2>4. CASE token[t] = k /\ call[r].token = k /\ what = "ok"
    <3>1. call[r].kind = "logout" /\ pc[r] = "ok"
      BY <1>1, <1>2, <2>4
    <3>. QED BY <1>10, <2>4, <3>1 DEF IInv, TokensFollow
  <2>5. CASE token[t] = k /\ call[r].token # k
    <3>1. call[r].kind = "logout" /\ k \in Calls /\ Overlap(r, k)
      BY <1>2, <1>3, <1>4, <2>5 DEF PageInv, LogoutsForget
    <3>2. k <= issued
      BY <1>2, <1>10, <3>1, SentTypes DEF WorkspaceInv, SessionsFollow
    <3>3. Overlap(r, k)'
      BY <1>2, <3>1, <3>2, MovesKeep
    <3>. QED BY <1>2, <3>1, <3>3 DEF Held, WentWrong
  <2>. QED BY <1>10, <2>1, <2>2, <2>3, <2>4, <2>5
<1>. QED BY <1>2, <1>6, <1>7, <1>8, <1>9, <1>10, MovesInv DEF PageInv

\* Every step keeps what ties the pages to the server.
LEMMA NextWorkspace ==
  ASSUME IInv, WorkspaceInv, [Next]_vars PROVE WorkspaceInv'
<1>1. IInv'
  BY NextInv
<1>2. CASE Tick \/ UNCHANGED vars
  <2>1. UNCHANGED <<server, issued, call, pc, who, seen, told, workspace>>
    BY <1>2 DEF Tick, vars
  <2>2. UNCHANGED <<session, version, account, token, principal, shown, loading,
                  closed>>
    BY <2>1 DEF server, workspace
  <2>3. UNCHANGED CallsInOrder
    BY <2>1 DEF CallsInOrder, Tab
  <2>4. UNCHANGED SessionsFollow
    BY <2>1, <2>2 DEF SessionsFollow, UserOf
  <2>5. UNCHANGED ChangesFollow
    BY <2>1, <2>2 DEF ChangesFollow, Tab, Organization
  <2>6. UNCHANGED SessionsAreHeld
    BY <2>1, <2>2 DEF SessionsAreHeld, Held, WentWrong, Overlap
  <2>7. ASSUME NEW t \in Tabs PROVE PageInv(t)' <=> PageInv(t)
    BY <2>1, <2>2 DEF PageInv, PageFollows, ListsAreOwn, ChangesAreShown, LogoutsForget, RefreshDue,
                      IsOwn, OverlapsLogout, Overlap, Awaited, Tab, UserOf
  <2>. QED BY <2>3, <2>4, <2>5, <2>6, <2>7 DEF WorkspaceInv
<1>3. ASSUME NEW t \in scenario.tabs, Use(t) PROVE WorkspaceInv'
  <2>1. t \in Tabs /\ scenario.emails \subseteq Emails
    BY ScenarioTypes DEF IInv
  <2>2. CASE \E k \in SignIns \cap scenario.does, u \in scenario.emails : SignIn(t, k, u)
    BY <2>1, <2>2, SignInWorkspace
  <2>3. CASE \/ \E u \in scenario.emails : "member" \in scenario.does /\ Work(t, "member", u)
             \/ \E k \in {"change", "propose"} : Work(t, k, None)
             \/ SignOut(t)
    BY <2>1, <2>3, WorkWorkspace
  <2>4. CASE Reload(t)
    BY <2>1, <2>4, ReloadWorkspace
  <2>5. CASE Close(t)
    BY <2>1, <2>5, CloseWorkspace
  <2>. QED BY <1>3, <2>2, <2>3, <2>4, <2>5 DEF Use
<1>4. ASSUME NEW r \in Calls, Serve(r) PROVE WorkspaceInv'
  BY <1>1, <1>4, ServeWorkspace
<1>5. ASSUME NEW r \in Calls, Receive(r) PROVE WorkspaceInv'
  <2>1. told[r] = "awaiting"
    BY <1>5 DEF Receive, SignedIn, Remembered, Forgotten, SignedOut, Changed, Refreshed, Finished,
                CallFailed, Arrives, Refused, Lost
  <2>2. Tab(r) \in Tabs
    BY <2>1, SentTypes DEF WorkspaceInv
  <2>3. PICK t \in Tabs : t = Tab(r)
    BY <2>2
  <2>. QED BY <1>5, <2>3, FollowWorkspace, AnswerWorkspace, ForgetWorkspace DEF Receive
<1>. QED BY <1>2, <1>3, <1>4, <1>5 DEF Next

-----------------------------------------------------------------------------
(* The theorems *)

\* The invariant of calls, users, accounts and tokens holds throughout.
THEOREM Invariance == Spec => []IInv
BY InitInv, NextInv, PTL DEF Spec

\* Every variable keeps its type, whatever tabs, calls and limits there are.
THEOREM TypeCorrect == Spec => []TypeOK
<1>1. IInv => TypeOK
  BY DEF IInv
<1>. QED BY <1>1, Invariance, PTL

\* However many registrations and new members race for an email, one makes its account.
THEOREM AccountsAreMadeOnce == Spec => []OneCreator
<1>1. IInv => OneCreator
  BY DEF IInv
<1>. QED BY <1>1, Invariance, PTL

\* An email is refused as taken only because another call made its account.
THEOREM ConflictsAreReal == Spec => []ConflictHasCause
<1>1. IInv => ConflictHasCause
  <2>1. SUFFICES ASSUME IInv, NEW r \in Calls, pc[r] = "conflict", Team[call[r].user] = None
                 PROVE  \E q \in Calls \ {r} : Creates(q, call[r].user) /\ Committed(q)
    BY DEF ConflictHasCause
  <2>2. PICK q \in Calls : Creates(q, call[r].user) /\ Committed(q)
    BY <2>1 DEF IInv, AccountsHaveMakers
  <2>3. ~Committed(r)
    BY <2>1 DEF IInv, UsersExist, Committed
  <2>. QED BY <2>2, <2>3
<1>. QED BY <1>1, Invariance, PTL

\* Who is in an organization they did not register was added by one of its owners.
THEOREM MembersWereAdded == Spec => []MembersBelong
<1>1. IInv => MembersBelong
  BY DEF IInv
<1>. QED BY <1>1, Invariance, PTL

\* Accounts have one maker, conflicts a cause, and members an owner who added them.
THEOREM AccountsHold == Spec => []AccountsAreEarned
BY AccountsAreMadeOnce, ConflictsAreReal, MembersWereAdded, PTL DEF AccountsAreEarned

\* In no span of a window's length does an address get more than two windows' worth of
\* calls through, and none is refused whose window has not given the full limit, however
\* readings of the clock, windows and collections interleave.
THEOREM LimiterFair == Spec => []LimiterIsFair
<1>1. IInv /\ LimiterInv /\ [Next]_vars => LimiterInv'
  BY NextLimiter
<1>2. LimiterInv => LimiterIsFair
  BY DEF LimiterInv, LimiterIsFair
<1>. QED BY <1>1, <1>2, InitLimiter, Invariance, PTL DEF Spec

\* A page shows its user's own organization, whatever tabs, answers and sign-outs overlap.
THEOREM OwnShown == Spec => []ShownIsOwn
<1>1. IInv /\ WorkspaceInv /\ [Next]_vars => WorkspaceInv'
  BY NextWorkspace
<1>2. ASSUME IInv, WorkspaceInv PROVE ShownIsOwn
  <2>1. SUFFICES ASSUME NEW t \in Tabs, NEW r \in Calls, shown[t] = r, principal[t] # None,
                        ~OverlapsLogout(r)
                 PROVE  who[r] = principal[t]
    BY <1>2, <2>1 DEF ShownIsOwn, OverlapsLogout, IInv, TypeOK
  <2>2. /\ call[r].kind \in Lists /\ told[r] = "ok"
        /\ token[t] = call[r].token /\ principal[t] = UserOf(token[t])
    <3>1. PageInv(t)
      BY <1>2 DEF WorkspaceInv
    <3>2. call[r].kind \in Lists /\ told[r] = "ok" /\ Tab(r) = t /\ IsOwn(r)
      BY <2>1, <3>1 DEF PageInv, ListsAreOwn
    <3>3. token[t] = call[r].token
      BY <2>1, <3>2 DEF IsOwn
    <3>4. token[t] \in Tokens
      BY <1>2, <2>1, <3>1 DEF PageInv, PageFollows, IInv, TypeOK
    <3>. QED BY <2>1, <3>1, <3>2, <3>3, <3>4 DEF PageInv, PageFollows
  <2>3. r <= issued /\ pc[r] = "ok"
    BY <1>2, <2>2, SentTypes DEF WorkspaceInv, CallsInOrder
  <2>4. who[r] # None /\ call[r].kind \notin SignIns
    BY <1>2, <2>2, <2>3 DEF IInv, UsersExist, Lists, SignIns
  <2>. QED BY <1>2, <2>2, <2>3, <2>4 DEF WorkspaceInv, SessionsFollow
<1>. QED BY <1>1, <1>2, InitWorkspace, Invariance, PTL DEF Spec

\* A page at rest shows the changes its user made with the operations that are followed by
\* a refresh, whatever proposals, sign-outs and reloads come between, unless its list was
\* late or the refresh failed.
THEOREM ChangesShow == Spec => []OwnChangesShow
<1>1. IInv /\ WorkspaceInv /\ [Next]_vars => WorkspaceInv'
  BY NextWorkspace
<1>2. ASSUME IInv, WorkspaceInv PROVE OwnChangesShow
  <2>1. SUFFICES ASSUME NEW q \in Calls, NEW t \in Tabs, NEW r \in Calls, t = Tab(q), r = shown[t],
                        call[q].kind = "change", told[q] = "ok", Awaited(t) = {},
                        Organization(r) = Organization(q), seen[r] < seen[q], ~Overlap(q, r)
                 PROVE  \E l \in Calls : /\ call[l].kind = "relist" /\ Tab(l) = t
                                         /\ l > q /\ told[l] = "failed"
    <3>1. \A q \in Calls : told[q] = "ok" => Tab(q) \in Tabs
      BY <1>2, SentTypes DEF WorkspaceInv
    <3>. QED BY <1>2, <2>1, <3>1 DEF OwnChangesShow, IInv, TypeOK
  <2>2. /\ CallsInOrder /\ ChangesFollow /\ ListsAreOwn(t) /\ ChangesAreShown(t)
        /\ seen[q] \in Nat /\ seen[r] \in Nat
    BY <1>2 DEF WorkspaceInv, PageInv, IInv, TypeOK
  <2>3. call[r].kind \in Lists /\ Tab(r) = t /\ told[r] = "ok"
    BY <2>1, <2>2 DEF ListsAreOwn
  <2>4. pc[q] = "ok" /\ pc[r] = "ok"
    BY <2>1, <2>2, <2>3 DEF CallsInOrder
  <2>5. ~(q < r)
    <3>1. q < r => seen[r] >= seen[q]
      BY <2>1, <2>2, <2>3, <2>4 DEF ChangesFollow, Overlap
    <3>. QED BY <2>1, <2>2, <3>1
  <2>6. RefreshDue(t, q)
    BY <2>1, <2>2, <2>5 DEF ChangesAreShown
  <2>7. \A l \in Calls : Tab(l) = t => told[l] # "awaiting"
    BY <2>1 DEF Awaited
  <2>. QED BY <2>6, <2>7 DEF RefreshDue
<1>. QED BY <1>1, <1>2, InitWorkspace, Invariance, PTL DEF Spec

\* No session is left on the server without a tab that can end it, unless its tab was closed,
\* a call went wrong, or its sign-in overlapped another or a sign-out.
THEOREM SessionsLeft == Spec => []LeftSessionsHaveCause
<1>1. IInv /\ WorkspaceInv /\ [Next]_vars => WorkspaceInv'
  BY NextWorkspace
<1>2. WorkspaceInv => LeftSessionsHaveCause
  BY DEF WorkspaceInv, SessionsAreHeld, Held, LeftSessionsHaveCause, Abandoned, Valid
<1>. QED BY <1>1, <1>2, InitWorkspace, Invariance, PTL DEF Spec

\* A token is of no use once its logout was answered with success.
THEOREM LogoutIsFinal == Spec => LogoutRevokes
<1>1. ASSUME IInv, NEW q \in Calls, NEW r \in Calls, [Next]_vars,
             call[q].kind = "logout", pc[q] = "ok", pc[r] = "admitted", pc'[r] = "authorized"
      PROVE  call[r].token # call[q].token
  <2>1. session[call[q].token] = NoSession
    BY <1>1 DEF IInv, TokensFollow
  <2>2. ASSUME ~Authenticate(r) PROVE FALSE
    <3>1. \A s \in Calls : s # r /\ Serve(s) => pc'[r] = pc[r]
      BY <1>1 DEF IInv, TypeOK, Serve, Enter, Authenticate, Register, Login, CreateSession,
                  CreateMember, HandleLogout, Me, List, Change, HandlerFails, Goto
    <3>2. Serve(r) => pc'[r] # "authorized"
      BY <1>1, <2>2 DEF IInv, TypeOK, Serve, Enter, Register, Login, CreateSession, CreateMember,
                  HandleLogout, Me, List, Change, HandlerFails, Goto, Is
    <3>3. ASSUME NEW kind, NEW user, NEW tok, Sends(kind, user, tok) PROVE pc'[r] # "authorized"
      BY <1>1, <3>3, SendStep DEF Sends, IInv
    <3>4. Hears => pc'[r] = pc[r]
      BY DEF Hears
    <3>5. Tick \/ UNCHANGED vars => pc'[r] = pc[r]
      BY DEF Tick, vars
    <3>6. ASSUME NEW t \in scenario.tabs, Use(t) PROVE FALSE
      <4>1. t \in Tabs
        BY ScenarioTypes, <1>1 DEF IInv
      <4>. QED BY <1>1, <3>3, <3>4, <3>6, <4>1, UseSends, CloseHears DEF IInv
    <3>7. ASSUME NEW s \in Calls, Receive(s) PROVE FALSE
      BY <1>1, <3>3, <3>4, <3>7, ReceiveSends, ReceiveHears DEF IInv, Receive
    <3>. QED BY <1>1, <3>1, <3>2, <3>5, <3>6, <3>7 DEF Next
  <2>3. session[call[r].token] # NoSession
    BY <1>1, <2>2 DEF Authenticate, Valid, IInv, TypeOK, Goto
  <2>. QED BY <2>1, <2>3
<1>2. IInv /\ [Next]_vars =>
        [\A q, r \in Calls :
           /\ call[q].kind = "logout" /\ pc[q] = "ok"
           /\ pc[r] = "admitted" /\ pc'[r] = "authorized"
           => call[r].token # call[q].token]_vars
  BY <1>1
<1>. QED BY <1>2, Invariance, PTL DEF Spec, LogoutRevokes

=============================================================================
