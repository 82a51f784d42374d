----------------------------- MODULE FrontDoor ------------------------------
(***************************************************************************)
(* The way in: browser tabs that sign in, work and sign out, the rate      *)
(* limiter and the authentication every one of their calls passes, and     *)
(* the accounts and sessions behind them.                                  *)
(*                                                                         *)
(* Calls are numbered in the order the tabs send them.  A session is named *)
(* by the call that created it, and so is its token; an organization by    *)
(* the email that registered it.  A tab's four list calls are one call.    *)
(***************************************************************************)
EXTENDS RateLimiter, FiniteSets

CONSTANTS
  Tabs,
  Emails,
  Addresses,
  AddressOf,     \* where a tab's calls come from
  Team,          \* the accounts there are at the start
  Home,          \* who is signed in where at the start
  Lifetime,      \* of a session
  None,
  MaxCalls,      \* bound: calls
  MaxTime,       \* bound: the clock
  Scenarios      \* bounds: what a run lets happen, see Scenario

Scopes == {"auth", "api"}
Calls == 1 .. MaxCalls
Kinds == {"register", "login", "logout", "me", "member", "change", "propose", "list", "relist"}
Uses == Kinds \cup {"close"}
Account == [org : Emails, role : {"owner", "member"}]

\* Sessions that are there at the start are named by their tabs.
Tokens == Calls \cup Tabs

ASSUME SetsAssumption ==
  /\ None \notin Emails /\ None \notin Tokens /\ None \notin Account
  /\ Tabs \cap Calls = {}
  /\ AddressOf \in [Tabs -> Addresses]
ASSUME StartAssumption ==
  /\ Team \in [Emails -> Account \cup {None}]
  /\ Home \in [Tabs -> Emails \cup {None}]
  /\ \A t \in Tabs : Home[t] # None => Team[Home[t]] # None
ASSUME BoundsAssumption == MaxCalls \in Nat /\ MaxTime \in Nat \ {0} /\ Lifetime \in Nat \ {0}

\* A run explores a few kinds of calls in depth rather than all of them at once: which
\* tabs are used, what for and with which emails, how many calls they send, the limits
\* the server is configured with, how far the clock goes, how long a call waits for the
\* limiter's lock, and how many handlers fail or answers get lost.
Scenario == [tabs : SUBSET Tabs, does : SUBSET Uses, emails : SUBSET Emails,
             calls : 0 .. MaxCalls, limit : [Scopes -> Nat \ {0}],
             time : 1 .. MaxTime, wait : Nat, faults : Nat]
ASSUME ScenarioAssumption == Scenarios \subseteq Scenario

VARIABLES
  scenario,   \* what this behaviour is limited to
  clock,
  entries,    \* of the limiter of each scope
  lastGC,     \* of the limiter of each scope
  account,    \* users, organizations and memberships
  session,    \* sessions
  version,    \* of what an organization's members see of it
  issued,     \* how many calls have been sent
  call,       \* a call: what, from which tab, for whom, with which token
  pc,         \* where a call is, and in the end what it was answered
  entered,    \* a call's reading of the clock; history: when and where it was counted
  who,        \* the user a call acts for
  seen,       \* the version a list call saw; history: the one a change made
  told,       \* what the tab knows of a call
  token, principal, shown, loading,   \* a tab's workspace
  closed,     \* history: the tokens tabs were closed with
  faults

server == <<entries, lastGC, account, session, version>>
workspace == <<token, principal, shown, loading, closed>>
vars == <<scenario, clock, server, issued, call, pc, entered, who, seen, told,
          workspace, faults>>

SignIns == {"register", "login"}
Lists == {"list", "relist"}
Answers == {"ok", "limited", "unauthorized", "forbidden", "conflict", "failed"}
AtWork == {"sent", "admitted", "authorized", "created"}
NoCall == [kind |-> "none"]
NoSession == [user |-> None, expires |-> 0]
NotEntered == [read |-> 0, lock |-> 0, win |-> 0]
Call == [kind : Kinds, tab : Tabs, user : Emails \cup {None},
         token : Tokens \cup {None}, over : SUBSET Calls]

TypeOK ==
  /\ scenario \in Scenarios
  /\ clock \in 1 .. MaxTime
  /\ entries \in [Scopes -> [Addresses -> [windowStart : 0 .. MaxTime, count : Nat]]]
  /\ lastGC \in [Scopes -> 1 .. MaxTime]
  /\ account \in [Emails -> Account \cup {None}]
  /\ session \in [Tokens -> [user : Emails, expires : Nat] \cup {NoSession}]
  /\ version \in [Emails -> Nat]
  /\ issued \in 0 .. MaxCalls
  /\ call \in [Calls -> Call \cup {NoCall}]
  /\ pc \in [Calls -> {"unsent"} \cup AtWork \cup Answers]
  /\ entered \in [Calls -> [read : 0 .. MaxTime, lock : 0 .. MaxTime, win : 0 .. MaxTime]]
  /\ who \in [Calls -> Emails \cup {None}]
  /\ seen \in [Calls -> Nat]
  /\ told \in [Calls -> {"nothing", "awaiting", "ok", "failed", "gone"}]
  /\ token \in [Tabs -> Tokens \cup {None}]
  /\ principal \in [Tabs -> Emails \cup {None}]
  /\ shown \in [Tabs -> Calls \cup {None}]
  /\ loading \in [Tabs -> BOOLEAN]
  /\ closed \in SUBSET Tokens
  /\ faults \in 0 .. scenario.faults

\* The server has just started, over the accounts and sessions it had before;
\* the tabs have kept theirs, and show nothing yet.
Limit == scenario.limit

Init ==
  /\ scenario \in Scenarios
  /\ clock = 1
  /\ entries = [s \in Scopes |-> [a \in Addresses |-> NoEntry]]
  /\ lastGC = [s \in Scopes |-> 1]
  /\ account = Team
  /\ session = [k \in Tokens |->
                  IF k \in Tabs /\ Home[k] # None
                    THEN [user |-> Home[k], expires |-> 1 + Lifetime] ELSE NoSession]
  /\ version = [u \in Emails |-> 0]
  /\ issued = 0
  /\ call = [r \in Calls |-> NoCall]
  /\ pc = [r \in Calls |-> "unsent"]
  /\ entered = [r \in Calls |-> NotEntered]
  /\ who = [r \in Calls |-> None]
  /\ seen = [r \in Calls |-> 0]
  /\ told = [r \in Calls |-> "nothing"]
  /\ token = [t \in Tabs |-> IF Home[t] = None THEN None ELSE t]
  /\ principal = Home
  /\ shown = [t \in Tabs |-> None]
  /\ loading = [t \in Tabs |-> FALSE]
  /\ closed = {}
  /\ faults = 0

Fault == faults < scenario.faults /\ faults' = faults + 1
Goto(r, place) == pc' = [pc EXCEPT ![r] = place]
Is(r, kinds, place) == call[r].kind \in kinds /\ pc[r] = place

-----------------------------------------------------------------------------
(* The limiter. *)

Scope(kind) == IF kind \in Lists \cup {"change", "propose"} THEN "api" ELSE "auth"

Swept(s, now) ==
  IF CollectDue(lastGC[s], now) THEN Collected(entries[s], now) ELSE entries[s]

\* Allow reads the clock, now, and then waits for its lock.
Enter(r, now) ==
  LET s == Scope(call[r].kind)
      a == AddressOf[call[r].tab]
      entry == Current(Swept(s, now)[a], now)
  IN
  /\ pc[r] = "sent" /\ now <= clock /\ clock - now <= scenario.wait
  /\ entries' = [entries EXCEPT ![s] = [Swept(s, now) EXCEPT ![a] = Counted(entry, Limit[s])]]
  /\ lastGC' = [lastGC EXCEPT ![s] = IF CollectDue(@, now) THEN now ELSE @]
  /\ entered' = [entered EXCEPT ![r] =
                   [read |-> now, lock |-> clock, win |-> entry.windowStart]]
  /\ Goto(r, IF Admits(entry, Limit[s]) THEN "admitted" ELSE "limited")
  /\ UNCHANGED <<scenario, clock, account, session, version, issued, call, who, seen, told,
                 workspace, faults>>

-----------------------------------------------------------------------------
(* Authentication, accounts and sessions. *)

Valid(k) == k # None /\ session[k] # NoSession /\ session[k].expires > clock

\* Register and login are the public routes.
Authenticate(r) ==
  /\ pc[r] = "admitted" /\ call[r].kind \notin SignIns
  /\ IF Valid(call[r].token)
       THEN Goto(r, "authorized") /\ who' = [who EXCEPT ![r] = session[call[r].token].user]
       ELSE Goto(r, "unauthorized") /\ UNCHANGED who
  /\ UNCHANGED <<scenario, clock, server, issued, call, entered, seen, told, workspace,
                 faults>>

Taken_Never(u) == FALSE
Taken(u) == account[u] # None

\* CreateAccount: the user, the organization and the owner in one transaction.
Register(r) ==
  LET u == call[r].user IN
  /\ Is(r, {"register"}, "admitted")
  /\ IF Taken(u)
       THEN Goto(r, "conflict") /\ UNCHANGED <<account, who>>
       ELSE /\ account' = [account EXCEPT ![u] = [org |-> u, role |-> "owner"]]
            /\ who' = [who EXCEPT ![r] = u]
            /\ Goto(r, "created")
  /\ UNCHANGED <<scenario, clock, entries, lastGC, session, version, issued, call, entered,
                 seen, told, workspace, faults>>

\* The password is right: a wrong one is answered as an unknown email is.
Login(r) ==
  LET u == call[r].user IN
  /\ Is(r, {"login"}, "admitted")
  /\ IF Taken(u) THEN who' = [who EXCEPT ![r] = u] /\ Goto(r, "created")
                 ELSE UNCHANGED who /\ Goto(r, "unauthorized")
  /\ UNCHANGED <<scenario, clock, server, issued, call, entered, seen, told, workspace,
                 faults>>

\* The account stands whatever becomes of the session.
CreateSession(r) ==
  /\ pc[r] = "created"
  /\ session' = [session EXCEPT ![r] = [user |-> who[r], expires |-> clock + Lifetime]]
  /\ Goto(r, "ok")
  /\ UNCHANGED <<scenario, clock, entries, lastGC, account, version, issued, call, entered,
                 who, seen, told, workspace, faults>>

Owner_Anyone(r) == TRUE
Owner(r) == account[who[r]].role = "owner"

CreateMember(r) ==
  LET u == call[r].user
      member == [org |-> account[who[r]].org, role |-> "member"]
  IN
  /\ Is(r, {"member"}, "authorized")
  /\ \/ ~Owner(r) /\ Goto(r, "forbidden") /\ UNCHANGED account
     \/ Owner(r) /\ Taken(u) /\ Goto(r, "conflict") /\ UNCHANGED account
     \/ /\ Owner(r) /\ ~Taken(u) /\ Goto(r, "ok")
        /\ account' = [account EXCEPT ![u] = member]
  /\ UNCHANGED <<scenario, clock, entries, lastGC, session, version, issued, call, entered,
                 who, seen, told, workspace, faults>>

Revoked_Nothing(k) == session
Revoked(k) == [session EXCEPT ![k] = NoSession]

HandleLogout(r) ==
  /\ Is(r, {"logout"}, "authorized")
  /\ session' = Revoked(call[r].token)
  /\ Goto(r, "ok")
  /\ UNCHANGED <<scenario, clock, entries, lastGC, account, version, issued, call, entered,
                 who, seen, told, workspace, faults>>

Me(r) ==
  /\ Is(r, {"me"}, "authorized")
  /\ Goto(r, "ok")
  /\ UNCHANGED <<scenario, clock, server, issued, call, entered, who, seen, told, workspace,
                 faults>>

Organization(r) == account[who[r]].org

List(r) ==
  /\ Is(r, Lists, "authorized")
  /\ seen' = [seen EXCEPT ![r] = version[Organization(r)]]
  /\ Goto(r, "ok")
  /\ UNCHANGED <<scenario, clock, server, issued, call, entered, who, told, workspace,
                 faults>>

\* One of the calls an owner changes what the lists show with, the proposal of an
\* action, which the trail records, included; seen is what it made.
Change(r) ==
  LET o == Organization(r) IN
  /\ Is(r, {"change", "propose"}, "authorized")
  /\ IF Owner(r) THEN /\ version' = [version EXCEPT ![o] = @ + 1]
                      /\ seen' = [seen EXCEPT ![r] = version[o] + 1]
                      /\ Goto(r, "ok")
                 ELSE UNCHANGED <<version, seen>> /\ Goto(r, "forbidden")
  /\ UNCHANGED <<scenario, clock, entries, lastGC, account, session, issued, call, entered,
                 who, told, workspace, faults>>

AfterRollback_Kept(r) ==
  IF Is(r, {"register"}, "admitted") /\ ~Taken(call[r].user)
    THEN [account EXCEPT ![call[r].user] = [org |-> call[r].user, role |-> "owner"]]
    ELSE account
AfterRollback(r) == account

\* The database fails, or the caller is gone.  Where the token is looked up, any
\* error is answered as a bad token; a transaction is rolled back.
HandlerFails(r) ==
  /\ Fault
  /\ pc[r] \in {"admitted", "authorized", "created"}
  /\ ~Is(r, {"me"}, "authorized")
  /\ Goto(r, IF pc[r] = "admitted" /\ call[r].kind # "register"
               THEN "unauthorized" ELSE "failed")
  /\ account' = AfterRollback(r)
  /\ UNCHANGED <<scenario, clock, entries, lastGC, session, version, issued, call, entered,
                 who, seen, told, workspace>>

-----------------------------------------------------------------------------
(* The workspace of a tab. *)

Tab(r) == call[r].tab
Awaited(t) == {r \in Calls : told[r] = "awaiting" /\ Tab(r) = t}
Told(r, what) == [told EXCEPT ![r] = what]

\* A tab sends a call with the token it has at that moment.  over is history:
\* the tab's calls in flight, of which the ones in after have just ended.
Send(t, kind, user, tok, after) ==
  LET r == issued + 1 IN
  /\ r \in 1 .. scenario.calls
  /\ issued' = r
  /\ call' = [call EXCEPT ![r] = [kind |-> kind, tab |-> t, user |-> user, token |-> tok,
                                  over |-> {q \in Awaited(t) : after[q] = "awaiting"}]]
  /\ Goto(r, "sent")
  /\ told' = [after EXCEPT ![r] = "awaiting"]

SignIn(t, kind, user) ==
  /\ principal[t] = None /\ ~loading[t]
  /\ \A r \in Awaited(t) : call[r].kind # "me"
  /\ loading' = [loading EXCEPT ![t] = TRUE]
  /\ Send(t, kind, user, token[t], told)
  /\ UNCHANGED <<scenario, clock, server, entered, who, seen, token, principal, shown,
                 closed, faults>>

\* The button stays while the call is under way, and whatever else is.
SignOut(t) ==
  /\ principal[t] # None
  /\ Send(t, "logout", None, token[t], told)
  /\ UNCHANGED <<scenario, clock, server, entered, who, seen, workspace, faults>>

\* run: the screens hide what only an owner may do; the API does not rely on it.
Work(t, kind, user) ==
  /\ principal[t] # None /\ ~loading[t]
  /\ loading' = [loading EXCEPT ![t] = TRUE]
  /\ Send(t, kind, user, token[t], told)
  /\ UNCHANGED <<scenario, clock, server, entered, who, seen, token, principal, shown,
                 closed, faults>>

\* Nobody waits for the calls of a page that is gone.
Gone(t) == [r \in Calls |-> IF r \in Awaited(t) THEN "gone" ELSE told[r]]

\* A reload keeps the token, which is in the tab's storage.
Reload(t) ==
  /\ token[t] # None
  /\ principal' = [principal EXCEPT ![t] = None]
  /\ shown' = [shown EXCEPT ![t] = None]
  /\ loading' = [loading EXCEPT ![t] = FALSE]
  /\ Send(t, "me", None, token[t], Gone(t))
  /\ UNCHANGED <<scenario, clock, server, entered, who, seen, token, closed, faults>>

\* With a tab its storage goes, and no call is sent; what is opened in its place starts
\* without a token, as a page does that is reloaded while it waits for a sign-in.
Close(t) ==
  /\ token[t] # None \/ Awaited(t) # {}
  /\ closed' = closed \cup ({token[t]} \ {None})
  /\ told' = Gone(t)
  /\ token' = [token EXCEPT ![t] = None]
  /\ principal' = [principal EXCEPT ![t] = None]
  /\ shown' = [shown EXCEPT ![t] = None]
  /\ loading' = [loading EXCEPT ![t] = FALSE]
  /\ UNCHANGED <<scenario, clock, server, issued, call, pc, entered, who, seen, faults>>

\* An answer arrives, or the connection fails, be the server done or not.
Arrives(r) == told[r] = "awaiting" /\ pc[r] = "ok" /\ UNCHANGED faults
Refused(r) == told[r] = "awaiting" /\ pc[r] \in Answers \ {"ok"} /\ UNCHANGED faults
Lost(r) == told[r] = "awaiting" /\ Fault

\* A new principal makes the workspace refresh itself.
SignedIn(r) ==
  /\ call[r].kind \in SignIns /\ Arrives(r)
  /\ token' = [token EXCEPT ![Tab(r)] = r]
  /\ principal' = [principal EXCEPT ![Tab(r)] = who[r]]
  /\ loading' = [loading EXCEPT ![Tab(r)] = FALSE]
  /\ Send(Tab(r), "list", None, r, Told(r, "ok"))
  /\ UNCHANGED <<scenario, clock, server, entered, who, seen, shown, closed>>

Remembered(r) ==
  /\ call[r].kind = "me" /\ Arrives(r)
  /\ principal' = [principal EXCEPT ![Tab(r)] = who[r]]
  /\ Send(Tab(r), "list", None, token[Tab(r)], Told(r, "ok"))
  /\ UNCHANGED <<scenario, clock, server, entered, who, seen, token, shown, loading, closed>>

\* Any failure, not only a refused token, makes the tab forget its token.
Forgotten(r) ==
  /\ call[r].kind = "me" /\ (Refused(r) \/ Lost(r))
  /\ told' = Told(r, "failed")
  /\ token' = [token EXCEPT ![Tab(r)] = None]
  /\ UNCHANGED <<scenario, clock, server, issued, call, pc, entered, who, seen, principal,
                 shown, loading, closed>>

Cleared_Partly(t) == shown
Cleared(t) == [shown EXCEPT ![t] = None]

\* Whatever the server answered, and whoever is signed in by now.
SignedOut(r) ==
  /\ call[r].kind = "logout"
  /\ \/ Arrives(r) /\ told' = Told(r, "ok")
     \/ (Refused(r) \/ Lost(r)) /\ told' = Told(r, "failed")
  /\ token' = [token EXCEPT ![Tab(r)] = None]
  /\ principal' = [principal EXCEPT ![Tab(r)] = None]
  /\ shown' = Cleared(Tab(r))
  /\ UNCHANGED <<scenario, clock, server, issued, call, pc, entered, who, seen, loading,
                 closed>>

Changed_Quietly(r) ==
  /\ call[r].kind = "change" /\ Arrives(r)
  /\ told' = Told(r, "ok")
  /\ loading' = [loading EXCEPT ![Tab(r)] = FALSE]
  /\ UNCHANGED <<scenario, clock, server, issued, call, pc, entered, who, seen, token,
                 principal, shown, closed>>

\* Of the operations run with shouldRefresh: each is followed by a refresh, with the
\* token of that moment.
Changed(r) ==
  /\ call[r].kind = "change" /\ Arrives(r)
  /\ Send(Tab(r), "relist", None, token[Tab(r)], Told(r, "ok"))
  /\ UNCHANGED <<scenario, clock, server, entered, who, seen, workspace>>

Refreshed(r) ==
  /\ call[r].kind \in Lists /\ Arrives(r)
  /\ told' = Told(r, "ok")
  /\ shown' = [shown EXCEPT ![Tab(r)] = r]
  /\ loading' = [loading EXCEPT ![Tab(r)] = @ /\ call[r].kind # "relist"]
  /\ UNCHANGED <<scenario, clock, server, issued, call, pc, entered, who, seen, token,
                 principal, closed>>

\* Of the operations run without: the page shows the proposal, and no list anew.
Finished(r) ==
  /\ call[r].kind \in {"member", "propose"} /\ Arrives(r)
  /\ told' = Told(r, "ok")
  /\ loading' = [loading EXCEPT ![Tab(r)] = FALSE]
  /\ UNCHANGED <<scenario, clock, server, issued, call, pc, entered, who, seen, token,
                 principal, shown, closed>>

\* A failed refresh of the effect leaves the form's gate as it is.
CallFailed(r) ==
  /\ call[r].kind \in Kinds \ {"me", "logout"} /\ (Refused(r) \/ Lost(r))
  /\ told' = Told(r, "failed")
  /\ loading' = [loading EXCEPT ![Tab(r)] = @ /\ call[r].kind = "list"]
  /\ UNCHANGED <<scenario, clock, server, issued, call, pc, entered, who, seen, token,
                 principal, shown, closed>>

Tick ==
  /\ clock < scenario.time
  /\ clock' = clock + 1
  /\ UNCHANGED <<scenario, server, issued, call, pc, entered, who, seen, told, workspace,
                 faults>>

-----------------------------------------------------------------------------

Serve(r) ==
  \/ \E now \in 1 .. MaxTime : Enter(r, now)
  \/ Authenticate(r)
  \/ Register(r) \/ Login(r) \/ CreateSession(r) \/ CreateMember(r)
  \/ HandleLogout(r) \/ Me(r) \/ List(r) \/ Change(r) \/ HandlerFails(r)

Receive(r) ==
  \/ SignedIn(r) \/ Remembered(r) \/ Forgotten(r) \/ SignedOut(r)
  \/ Changed(r) \/ Refreshed(r) \/ Finished(r) \/ CallFailed(r)

Use(t) ==
  \/ \E k \in SignIns \cap scenario.does, u \in scenario.emails : SignIn(t, k, u)
  \/ \E u \in scenario.emails : "member" \in scenario.does /\ Work(t, "member", u)
  \/ \E k \in {"change", "propose"} \cap scenario.does : Work(t, k, None)
  \/ "logout" \in scenario.does /\ SignOut(t)
  \/ "me" \in scenario.does /\ Reload(t)
  \/ "close" \in scenario.does /\ Close(t)

Next ==
  \/ Tick
  \/ \E t \in scenario.tabs : Use(t)
  \/ \E r \in Calls : Serve(r) \/ Receive(r)

Spec == Init /\ [][Next]_vars

-----------------------------------------------------------------------------
(* The limiter. *)

Counts(r, s) == pc[r] \notin {"unsent", "sent", "limited"} /\ Scope(call[r].kind) = s
From(r, a) == AddressOf[call[r].tab] = a

\* Of an address's admitted calls, those a window counted, and those of a span that
\* starts at b and is as long as a window.
InWindow(s, a, w) == {r \in Calls : Counts(r, s) /\ From(r, a) /\ entered[r].win = w}
Within(s, a, b) == {r \in Calls : /\ Counts(r, s) /\ From(r, a)
                                  /\ entered[r].read >= b /\ entered[r].lock < b + Window}

\* In no span of a window's length are more than two windows' worth of an address's
\* calls admitted, of those that read the clock within it: the calls that read it
\* earlier and waited for the lock until now (the limiter reads the clock first) are
\* counted in the newer window and never open an older one.
AdmissionsBounded ==
  \A s \in Scopes, a \in Addresses, b \in 1 .. MaxTime :
    Cardinality(Within(s, a, b)) <= 2 * Limit[s]

\* A call is only refused when its own window has admitted the full limit, and it
\* reads the clock before that window is over.
RefusalsJustified ==
  \A r \in Calls : pc[r] = "limited" =>
    LET s == Scope(call[r].kind) IN
    /\ entered[r].read < entered[r].win + Window
    /\ Limit[s] <= Cardinality(InWindow(s, AddressOf[call[r].tab], entered[r].win))

\* Whatever readings of the clock calls enter with, around a window's end and the
\* collection of old entries, the limiter neither admits too many nor refuses too early.
LimiterIsFair == AdmissionsBounded /\ RefusalsJustified

-----------------------------------------------------------------------------
(* Accounts and sessions. *)

Creates(r, u) == call[r].kind \in {"register", "member"} /\ call[r].user = u
Committed(r) ==
  \/ call[r].kind = "register" /\ who[r] # None
  \/ call[r].kind = "member" /\ pc[r] = "ok"

\* However registrations and new members of an email race, one of them makes its
\* account, and none that was there at the start is made again.
OneCreator ==
  \A q, r \in Calls, u \in Emails :
    /\ Creates(q, u) /\ Committed(q) => Team[u] = None
    /\ Creates(q, u) /\ Committed(q) /\ Creates(r, u) /\ Committed(r) => q = r

\* Nobody is told that an email is taken by an account that is then not there: a
\* call that made it has committed, although it may have failed to create the
\* session and told its caller so.
ConflictHasCause ==
  \A r \in Calls : pc[r] = "conflict" =>
    LET u == call[r].user IN
    Team[u] = None => \E q \in Calls \ {r} : Creates(q, u) /\ Committed(q)

\* An account in an organization it did not register was added there by a call that
\* an owner of that organization was authenticated for.
MembersBelong ==
  \A u \in Emails : account[u] # None /\ account[u].org # u =>
    \/ Team[u] = account[u]
    \/ \E r \in Calls :
         /\ call[r].kind = "member" /\ call[r].user = u /\ pc[r] = "ok"
         /\ account[who[r]] = [org |-> account[u].org, role |-> "owner"]

\* An account has one maker, who is there when others are refused for it, and is in the
\* organization its maker was allowed to put it in.
AccountsAreEarned == OneCreator /\ ConflictHasCause /\ MembersBelong

\* "Logout revokes the server-side session": once a logout was answered with
\* success, nobody is authenticated by its token again, be the call older or newer.
LogoutRevokes ==
  [][\A q, r \in Calls :
       /\ call[q].kind = "logout" /\ pc[q] = "ok"
       /\ pc[r] = "admitted" /\ pc'[r] = "authorized"
       => call[r].token # call[q].token]_vars

-----------------------------------------------------------------------------
(* The workspace. *)

Overlap(q, r) == q \in call[r].over \/ r \in call[q].over

\* Who is signed in on a page sees their own organization, unless the list that
\* shows it overlapped a sign-out and filled the page after it had been cleared.
ShownIsOwn ==
  \A t \in Tabs : LET r == shown[t] IN
    r # None /\ principal[t] # None =>
      \/ who[r] = principal[t]
      \/ \E q \in Calls : call[q].kind = "logout" /\ Overlap(q, r)

\* A page at rest shows the change its user has made there with an operation that is
\* run to be followed by a refresh (new members, investigations, connections to
\* repositories and proposals are not, and the trail is shown without the proposal),
\* unless the list it shows overlapped the change and arrived after the refresh, or
\* the refresh failed.
OwnChangesShow ==
  \A q \in Calls : call[q].kind = "change" /\ told[q] = "ok" =>
    LET t == Tab(q)
        r == shown[t]
    IN r # None /\ Awaited(t) = {} /\ Organization(r) = Organization(q) /\ seen[r] < seen[q] =>
         \/ Overlap(q, r)
         \/ \E l \in Calls : /\ call[l].kind = "relist" /\ Tab(l) = t
                             /\ l > q /\ told[l] = "failed"

\* A session that no tab holds the token of, and no sign-in under way will bring
\* back, stays alive on the server only if its tab was closed; or a call went wrong -
\* the sign-in's answer lost, the sign-out or the check after a reload refused or
\* failed; or the sign-in overlapped a sign-out or another sign-in of its tab.  A
\* sign-out that was answered, and every other way a tab loses its token, leaves none.
Abandoned(k) ==
  /\ Valid(k) /\ k \notin {token[t] : t \in Tabs}
  /\ k \in Calls => told[k] # "awaiting"
WentWrong(k) ==
  \/ k \in closed
  \/ k \in Calls /\ told[k] \in {"failed", "gone"}
  \/ \E q \in Calls : /\ call[q].kind \in {"logout", "me"} /\ call[q].token = k
                      /\ told[q] = "failed"
  \/ \E q \in Calls : /\ k \in Calls /\ call[q].kind \in SignIns \cup {"logout"}
                      /\ Overlap(q, k)
LeftSessionsHaveCause == \A k \in Tokens : Abandoned(k) => WentWrong(k)

=============================================================================
