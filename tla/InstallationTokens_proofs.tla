--------------------- MODULE InstallationTokens_proofs ----------------------
(***************************************************************************)
(* Proofs about the token cache, for any requests, installations and times *)
(* with Fetch <= Margin < Lifetime.  InstallationTokens has no behaviours  *)
(* of its own: the lemmas are about its steps, and IncidentContext_proofs  *)
(* uses them for the system the cache is part of.                          *)
(***************************************************************************)
EXTENDS InstallationTokens, TLAPS

TokenNext ==
  \/ \E r \in Requests : TokenStep(r) \/ Release(r)
  \/ \E i \in Installations : Revoke(i)
  \/ Tick

-----------------------------------------------------------------------------
(* The invariant *)

\* A token is known to others only once it is stored, and does not change any more.
Known == {r \in Requests : holds[r] \in {"token", "released"}}

CacheIsOwn ==
  \A i \in Installations : cached[i] # None =>
    cached[i] \in Known /\ InstallationOf[cached[i]] = i

\* What a request holds lasts longer than its calls may take.
HeldLasts ==
  /\ \A r \in Requests : holds[r] = "minted" =>
       expires[r] = since[r] + Lifetime /\ now <= since[r] + Fetch
  /\ \A r \in Requests : holds[r] = "token" =>
       /\ token[r] \in Known /\ InstallationOf[token[r]] = InstallationOf[r]
       /\ expires[token[r]] > since[r] + Margin
       /\ now <= since[r] + Fetch

\* Tokens that were revoked had been minted by then.
RevokedEarlier ==
  /\ \A r \in Requests : expires[r] <= now + Lifetime
  /\ \A r \in Requests : holds[r] \in {"nothing", "asks"} => expires[r] = 0
  /\ \A r \in revoked :
       /\ expires[r] # 0
       /\ expires[r] <= revokedAt[InstallationOf[r]] + Lifetime

TokensInv == TokensTypeOK /\ CacheIsOwn /\ HeldLasts /\ RevokedEarlier

-----------------------------------------------------------------------------
(* The log *)

Misses(k, r) == k \in DOMAIN log /\ log[k].event = "missed" /\ log[k].by = r
Stores(k, r) == k \in DOMAIN log /\ log[k].event = "stored" /\ log[k].by = r

LogInOrder ==
  /\ \A k \in DOMAIN log : log[k].at <= now
  /\ \A j, k \in DOMAIN log : j <= k => log[j].at <= log[k].at

\* A token is minted between the miss and the store of its request.
LogTellsExpiry ==
  /\ \A k \in DOMAIN log, r \in Requests : Misses(k, r) =>
       holds[r] # "nothing" /\ (expires[r] # 0 => expires[r] >= log[k].at + Lifetime)
  /\ \A k \in DOMAIN log, r \in Requests : Stores(k, r) =>
       /\ r \in Known /\ expires[r] # 0 /\ expires[r] <= log[k].at + Lifetime
       /\ \E m \in 1 .. k - 1 : Misses(m, r)
  /\ \A r \in Requests : holds[r] \in {"asks", "minted"} => \E m \in DOMAIN log : Misses(m, r)

\* The cache holds the token an installation stored last.
Last(k, i) ==
  \A l \in DOMAIN log : l > k /\ log[l].event = "stored" => InstallationOf[log[l].by] # i
CacheIsLast ==
  \A i \in Installations :
    \/ cached[i] = None /\ Last(0, i)
    \/ cached[i] # None /\ \E k \in DOMAIN log : Stores(k, cached[i]) /\ Last(k, i)

LogInv == LogInOrder /\ LogTellsExpiry /\ CacheIsLast /\ MintsJustified

-----------------------------------------------------------------------------
(* The invariant is kept *)

LEMMA HoldsStep ==
  ASSUME TokensTypeOK, NEW r \in Requests, NEW h, Holds(r, h)
  PROVE  /\ holds'[r] = h
         /\ \A q \in Requests : q # r => holds'[q] = holds[q]
         /\ h \in {"nothing", "asks", "minted", "token", "released"} =>
              holds' \in [Requests -> {"nothing", "asks", "minted", "token", "released"}]
BY DEF TokensTypeOK, Holds

LEMMA LoggedStep ==
  ASSUME TokensTypeOK, NEW r \in Requests, NEW what \in {"missed", "stored"}, Logged(r, what)
  PROVE  /\ log' \in Seq([event : {"missed", "stored"}, by : Requests, at : 0 .. MaxTime])
         /\ Len(log) \in Nat /\ DOMAIN log = 1 .. Len(log)
         /\ DOMAIN log' = 1 .. Len(log) + 1 /\ Len(log') = Len(log) + 1
         /\ \A k \in 1 .. Len(log) : log'[k] = log[k]
         /\ log'[Len(log) + 1].event = what /\ log'[Len(log) + 1].by = r
         /\ log'[Len(log) + 1].at = now
<1> DEFINE Event == [event : {"missed", "stored"}, by : Requests, at : 0 .. MaxTime]
           e == [event |-> what, by |-> r, at |-> now]
<1>1. log \in Seq(Event) /\ e \in Event /\ log' = Append(log, e)
  BY DEF TokensTypeOK, Logged
<1>. HIDE DEF Event, e
<1>2. /\ log' \in Seq(Event)
      /\ Len(log) \in Nat /\ DOMAIN log = 1 .. Len(log)
      /\ DOMAIN log' = 1 .. Len(log) + 1 /\ Len(log') = Len(log) + 1
      /\ \A k \in 1 .. Len(log) : log'[k] = log[k]
      /\ log'[Len(log) + 1] = e
  BY <1>1
<1>. QED BY <1>2 DEF Event, e

LEMMA TokensInitInv == TokensInit => TokensInv
BY TokensAssumption, TimesAssumption
   DEF TokensInit, TokensInv, TokensTypeOK, CacheIsOwn, HeldLasts, RevokedEarlier, Never

LEMMA TokensStepInv == ASSUME TokensInv, [TokenNext]_tokenVars PROVE TokensInv'
<1>. USE TokensAssumption, TimesAssumption DEF TokensInv
<1>1. ASSUME NEW r \in Requests, Look(r) PROVE TokensInv'
  <2> DEFINE t == cached[InstallationOf[r]]
  <2>1. CASE Lasts(t)
    <3>1. /\ token' = [token EXCEPT ![r] = t] /\ since' = [since EXCEPT ![r] = now]
          /\ Holds(r, "token") /\ holds[r] = "nothing" /\ log' = log
          /\ UNCHANGED <<now, expires, cached, revoked, revokedAt>>
      BY <1>1, <2>1 DEF Look
    <3>2. t \in Known /\ InstallationOf[t] = InstallationOf[r] /\ expires[t] - now > Margin
      BY <2>1 DEF CacheIsOwn, Lasts
    <3>. HIDE DEF t
    <3>3. TokensTypeOK'
      BY <3>1, <3>2, HoldsStep DEF TokensTypeOK, Known
    <3>4. Known \subseteq Known'
      BY <3>1, HoldsStep DEF Known
    <3>5. CacheIsOwn'
      BY <3>1, <3>4 DEF CacheIsOwn
    <3>6. expires[t] \in Nat /\ now \in Nat
      BY <3>2 DEF TokensTypeOK, Known
    <3>7. HeldLasts'
      <4>1. /\ token'[r] = t /\ since'[r] = now /\ holds'[r] = "token"
            /\ \A q \in Requests \ {r} :
                 token'[q] = token[q] /\ since'[q] = since[q] /\ holds'[q] = holds[q]
        BY <3>1, HoldsStep DEF TokensTypeOK
      <4>2. t \in Known' /\ expires[t] > now + Margin /\ now <= now + Fetch
        BY <3>2, <3>4, <3>6
      <4>. QED BY <3>1, <3>2, <3>4, <4>1, <4>2 DEF HeldLasts
    <3>8. RevokedEarlier'
      BY <3>1, HoldsStep DEF RevokedEarlier
    <3>. QED BY <3>3, <3>5, <3>7, <3>8
  <2>2. CASE ~Lasts(t)
    <3>1. /\ Holds(r, "asks") /\ Logged(r, "missed") /\ holds[r] = "nothing"
          /\ UNCHANGED <<now, token, since, expires, cached, revoked, revokedAt>>
      BY <1>1, <2>2 DEF Look
    <3>2. TokensTypeOK'
      BY <3>1, HoldsStep, LoggedStep DEF TokensTypeOK
    <3>3. Known' = Known
      BY <3>1, HoldsStep DEF Known
    <3>4. CacheIsOwn' /\ RevokedEarlier'
      BY <3>1, <3>3, HoldsStep DEF CacheIsOwn, RevokedEarlier
    <3>5. HeldLasts'
      BY <3>1, <3>3, HoldsStep DEF HeldLasts
    <3>. QED BY <3>2, <3>4, <3>5
  <2>. QED BY <2>1, <2>2
<1>2. ASSUME NEW r \in Requests, Mint(r) PROVE TokensInv'
  <2>1. /\ expires' = [expires EXCEPT ![r] = now + Lifetime]
        /\ since' = [since EXCEPT ![r] = now]
        /\ Holds(r, "minted") /\ holds[r] = "asks"
        /\ UNCHANGED <<now, token, cached, log, revoked, revokedAt>>
    BY <1>2 DEF Mint
  <2>2. TokensTypeOK'
    <3>1. now + Lifetime \in 0 .. MaxTime + Lifetime
      BY DEF TokensTypeOK
    <3>. QED BY <2>1, <3>1, HoldsStep DEF TokensTypeOK
  <2>3. Known' = Known /\ r \notin Known
    BY <2>1, HoldsStep DEF Known
  <2>4. CacheIsOwn'
    BY <2>1, <2>3 DEF CacheIsOwn
  <2>5. \A q \in Known : expires'[q] = expires[q]
    BY <2>1, <2>3 DEF TokensTypeOK, Known
  <2>6. HeldLasts'
    BY <2>1, <2>3, <2>5, HoldsStep DEF HeldLasts, TokensTypeOK
  <2>7. r \notin revoked
    BY <2>1 DEF RevokedEarlier
  <2>8. RevokedEarlier'
    BY <2>1, <2>7, HoldsStep DEF RevokedEarlier, TokensTypeOK
  <2>. QED BY <2>2, <2>4, <2>6, <2>8
<1>3. ASSUME NEW r \in Requests, Store(r) PROVE TokensInv'
  <2>1. /\ cached' = [cached EXCEPT ![InstallationOf[r]] = r]
        /\ token' = [token EXCEPT ![r] = r]
        /\ Holds(r, "token") /\ holds[r] = "minted" /\ Logged(r, "stored")
        /\ UNCHANGED <<now, expires, since, revoked, revokedAt>>
    BY <1>3 DEF Store, Stored
  <2>2. TokensTypeOK'
    BY <2>1, HoldsStep, LoggedStep DEF TokensTypeOK
  <2>3. Known \subseteq Known' /\ r \in Known'
    BY <2>1, HoldsStep DEF Known
  <2>4. CacheIsOwn'
    BY <2>1, <2>3 DEF CacheIsOwn, TokensTypeOK
  <2>5. expires[r] > since[r] + Margin /\ now <= since[r] + Fetch
    BY <2>1 DEF HeldLasts, TokensTypeOK
  <2>6. HeldLasts'
    BY <2>1, <2>3, <2>5, HoldsStep DEF HeldLasts, TokensTypeOK
  <2>7. RevokedEarlier'
    BY <2>1, HoldsStep DEF RevokedEarlier
  <2>. QED BY <2>2, <2>4, <2>6, <2>7
<1>4. ASSUME NEW r \in Requests, Release(r) PROVE TokensInv'
  <2>1. /\ Holds(r, "released")
        /\ UNCHANGED <<now, token, expires, since, cached, log, revoked, revokedAt>>
    BY <1>4 DEF Release
  <2>2. TokensTypeOK'
    BY <2>1, HoldsStep DEF TokensTypeOK
  <2>3. Known \subseteq Known'
    BY <2>1, HoldsStep DEF Known
  <2>4. CacheIsOwn' /\ RevokedEarlier'
    BY <2>1, <2>3, HoldsStep DEF CacheIsOwn, RevokedEarlier
  <2>5. HeldLasts'
    BY <2>1, <2>3, HoldsStep DEF HeldLasts
  <2>. QED BY <2>2, <2>4, <2>5
<1>5. ASSUME NEW i \in Installations, Revoke(i) PROVE TokensInv'
  <2>1. /\ revokedAt[i] = Never /\ revokedAt' = [revokedAt EXCEPT ![i] = now]
        /\ revoked' = revoked \cup {r \in Requests : InstallationOf[r] = i /\ expires[r] # 0}
        /\ UNCHANGED <<now, holds, token, expires, since, cached, log>>
    BY <1>5 DEF Revoke
  <2>2. TokensTypeOK'
    BY <2>1 DEF TokensTypeOK, Never
  <2>3. CacheIsOwn' /\ HeldLasts'
    BY <2>1 DEF CacheIsOwn, HeldLasts, Known
  <2>4. \A r \in revoked' : expires[r] # 0 /\ expires[r] <= revokedAt'[InstallationOf[r]] + Lifetime
    BY <2>1 DEF RevokedEarlier, TokensTypeOK
  <2>. QED BY <2>1, <2>2, <2>3, <2>4 DEF RevokedEarlier
<1>6. CASE Tick
  <2>1. /\ now < MaxTime /\ now' = now + 1
        /\ \A r \in Requests : holds[r] \in {"minted", "token"} => now < since[r] + Fetch
        /\ UNCHANGED <<holds, token, expires, since, cached, log, revoked, revokedAt>>
    BY <1>6 DEF Tick
  <2>2. TokensTypeOK'
    BY <2>1 DEF TokensTypeOK
  <2>3. CacheIsOwn' /\ Known' = Known
    BY <2>1 DEF CacheIsOwn, Known
  <2>4. HeldLasts'
    BY <2>1, <2>3 DEF HeldLasts, TokensTypeOK
  <2>5. RevokedEarlier'
    BY <2>1 DEF RevokedEarlier, TokensTypeOK
  <2>. QED BY <2>2, <2>3, <2>4, <2>5
<1>7. CASE UNCHANGED tokenVars
  BY <1>7 DEF tokenVars, TokensTypeOK, CacheIsOwn, HeldLasts, RevokedEarlier, Known
<1>. QED
  BY <1>1, <1>2, <1>3, <1>4, <1>5, <1>6, <1>7 DEF TokenNext, TokenStep

LEMMA InvImpliesOutlive == TokensInv => TokensOutliveFetches
<1>. SUFFICES ASSUME TokensInv, NEW r \in Requests, holds[r] = "token"
              PROVE  token[r] # None /\ now < expires[token[r]]
  BY DEF TokensOutliveFetches
<1>1. /\ token[r] \in Requests /\ expires[token[r]] > since[r] + Margin
      /\ now <= since[r] + Fetch
  BY DEF TokensInv, HeldLasts, Known
<1>2. expires[token[r]] \in Nat /\ since[r] \in Nat /\ now \in Nat
  BY <1>1, TimesAssumption DEF TokensInv, TokensTypeOK
<1>. QED BY <1>1, <1>2, TokensAssumption, TimesAssumption

LEMMA InvImpliesHeals == TokensInv => RevocationHeals
<1>. SUFFICES ASSUME TokensInv, NEW r \in Requests, holds[r] = "token", token[r] \in revoked
              PROVE  since[r] < revokedAt[InstallationOf[r]] + (Lifetime - Margin)
  BY DEF RevocationHeals
<1>1. /\ token[r] \in Requests /\ expires[token[r]] > since[r] + Margin
      /\ InstallationOf[token[r]] = InstallationOf[r]
      /\ expires[token[r]] <= revokedAt[InstallationOf[r]] + Lifetime
  BY DEF TokensInv, HeldLasts, RevokedEarlier, Known
<1>2. /\ expires[token[r]] \in Nat /\ since[r] \in Nat
      /\ revokedAt[InstallationOf[r]] \in Nat
  BY <1>1, TokensAssumption, TimesAssumption DEF TokensInv, TokensTypeOK, Never
<1>. QED BY <1>1, <1>2, TimesAssumption

-----------------------------------------------------------------------------
(* The log is kept *)

LEMMA LogType ==
  ASSUME TokensTypeOK, NEW k \in DOMAIN log
  PROVE  /\ Len(log) \in Nat /\ DOMAIN log = 1 .. Len(log) /\ k \in Nat
         /\ log[k].event \in {"missed", "stored"} /\ log[k].by \in Requests
         /\ log[k].at \in Nat /\ now \in Nat
         /\ \A r \in Requests : expires[r] \in Nat
<1> DEFINE Event == [event : {"missed", "stored"}, by : Requests, at : 0 .. MaxTime]
<1>1. log \in Seq(Event)
  BY DEF TokensTypeOK
<1>. HIDE DEF Event
<1>2. Len(log) \in Nat /\ DOMAIN log = 1 .. Len(log) /\ log[k] \in Event
  BY <1>1
<1>3. /\ log[k].event \in {"missed", "stored"} /\ log[k].by \in Requests
      /\ log[k].at \in 0 .. MaxTime
  BY <1>2 DEF Event
<1>4. now \in Nat /\ \A r \in Requests : expires[r] \in Nat
  BY TimesAssumption DEF TokensTypeOK
<1>. QED BY <1>2, <1>3, <1>4

LEMMA LogInit == TokensInit => LogInv
BY TokensAssumption
   DEF TokensInit, LogInv, LogInOrder, LogTellsExpiry, CacheIsLast, Last, MintsJustified

\* A step that logs nothing and lets nobody ask, miss or mint.
LEMMA LogUnchanged ==
  ASSUME TokensTypeOK, LogInv, UNCHANGED <<log, cached, expires>>, now' \in Nat, now <= now',
         \A r \in Requests : holds'[r] # holds[r] =>
           \/ holds'[r] = "released"
           \/ holds[r] = "nothing" /\ holds'[r] = "token"
  PROVE  LogInv'
<1>1. LogInOrder'
  BY LogType DEF LogInv, LogInOrder
<1>2. \A r \in Requests :
        /\ r \in Known => r \in Known'
        /\ holds[r] # "nothing" => holds'[r] # "nothing"
        /\ holds'[r] \in {"asks", "minted"} => holds[r] \in {"asks", "minted"}
  BY DEF Known
<1>3. LogTellsExpiry'
  BY <1>2 DEF LogInv, LogTellsExpiry, Misses, Stores
<1>4. CacheIsLast' /\ MintsJustified'
  BY DEF LogInv, CacheIsLast, Last, Stores, MintsJustified, Stale, Same
<1>. QED BY <1>1, <1>3, <1>4 DEF LogInv

\* What is logged now is logged last.
LEMMA OrderAppended ==
  ASSUME TokensTypeOK, LogInOrder, NEW r \in Requests, NEW what \in {"missed", "stored"},
         Logged(r, what), now' = now
  PROVE  LogInOrder'
<1>0. /\ DOMAIN log' = 1 .. Len(log) + 1 /\ log'[Len(log) + 1].at = now
      /\ DOMAIN log = 1 .. Len(log) /\ Len(log) \in Nat /\ now \in Nat
      /\ \A k \in 1 .. Len(log) : log'[k] = log[k]
  BY LoggedStep DEF TokensTypeOK
<1>1. \A k \in DOMAIN log' : log'[k].at <= now
  BY <1>0, LogType DEF LogInOrder
<1>2. \A j, k \in DOMAIN log' : j <= k => log'[j].at <= log'[k].at
  BY <1>0, LogType DEF LogInOrder
<1>. QED BY <1>1, <1>2 DEF LogInOrder

\* A miss of a token that would have lasted: an older one was stored over it.
LEMMA MissJustified ==
  ASSUME TokensInv, LogInv, NEW i \in Installations, ~Lasts(cached[i]),
         NEW k \in DOMAIN log, log[k].event = "stored", InstallationOf[log[k].by] = i,
         ~Stale(log[k].by, now)
  PROVE  \E l \in k + 1 .. Len(log) : \E m \in 1 .. k - 1 :
           /\ log[l].event = "stored" /\ log[m].event = "missed" /\ log[l].by = log[m].by
           /\ InstallationOf[log[l].by] = i /\ Stale(log[l].by, now)
<1>. USE TimesAssumption DEF TokensInv
<1>1. PICK l \in DOMAIN log : Stores(l, cached[i]) /\ Last(l, i) /\ cached[i] # None
  <2>1. k > 0
    BY LogType
  <2>. QED BY <2>1 DEF LogInv, CacheIsLast, Last
<1>2. log[l].by = cached[i] /\ log[l].event = "stored" /\ cached[i] \in Requests
  BY <1>1, LogType DEF Stores
<1>3. Stale(log[l].by, now)
  <2>1. expires[cached[i]] \in Nat /\ now \in Nat /\ Margin \in Nat
    BY <1>2 DEF TokensTypeOK
  <2>. QED BY <1>1, <1>2, <2>1 DEF Lasts, Stale
<1>4. k < l
  <2>1. ~(k > l) /\ k # l
    BY <1>1, <1>3 DEF Last
  <2>. QED BY <2>1, LogType
<1>5. PICK m \in 1 .. l - 1 : Misses(m, log[l].by)
  BY <1>1, <1>2 DEF LogInv, LogTellsExpiry
<1>6. m < k
  <2>1. SUFFICES ASSUME m > k PROVE FALSE
    <3>1. m # k
      BY <1>5 DEF Misses
    <3>. QED BY <1>5, <2>1, <3>1, LogType
  <2>2. log[k].at <= log[m].at
    BY <1>5, <2>1, LogType DEF Misses, LogInv, LogInOrder
  <2>3. Stores(k, log[k].by)
    BY DEF Stores
  <2>4. expires[log[k].by] <= log[k].at + Lifetime
    BY <2>3, LogType DEF LogInv, LogTellsExpiry
  <2>5. expires[log[l].by] >= log[m].at + Lifetime
    BY <1>1, <1>2, <1>5 DEF LogInv, LogTellsExpiry, Misses
  <2>6. expires[log[k].by] \in Nat /\ expires[log[l].by] \in Nat
    BY LogType, <1>2
  <2>7. expires[log[k].by] - now > Margin /\ expires[log[l].by] - now <= Margin
    BY <1>3, <2>6, LogType DEF Stale
  <2>8. log[m].at \in Nat /\ log[k].at \in Nat /\ now \in Nat
    BY <1>5, LogType DEF Misses
  <2>. QED BY <2>2, <2>4, <2>5, <2>6, <2>7, <2>8
<1>7. l \in k + 1 .. Len(log) /\ m \in 1 .. k - 1
  BY <1>4, <1>5, <1>6, LogType
<1>8. log[m].event = "missed" /\ log[m].by = log[l].by
  BY <1>5 DEF Misses
<1>9. InstallationOf[log[l].by] = i
  BY <1>1, <1>2 DEF CacheIsOwn
<1>. QED BY <1>2, <1>3, <1>7, <1>8, <1>9

LEMMA LogStepInv == ASSUME TokensInv, LogInv, [TokenNext]_tokenVars PROVE LogInv'
<1>. USE TokensAssumption, TimesAssumption DEF TokensInv
<1>n. now \in Nat /\ Len(log) \in Nat /\ DOMAIN log = 1 .. Len(log)
  BY DEF TokensTypeOK
<1>1. ASSUME NEW r \in Requests, Look(r) PROVE LogInv'
  <2>1. CASE Lasts(cached[InstallationOf[r]])
    <3>1. /\ Holds(r, "token") /\ holds[r] = "nothing" /\ UNCHANGED <<log, now, expires, cached>>
      BY <1>1, <2>1 DEF Look
    <3>. QED BY <3>1, <1>n, HoldsStep, LogUnchanged
  <2>2. CASE ~Lasts(cached[InstallationOf[r]])
    <3>1. /\ Holds(r, "asks") /\ Logged(r, "missed") /\ holds[r] = "nothing"
          /\ UNCHANGED <<now, expires, cached>>
      BY <1>1, <2>2 DEF Look
    <3>0. /\ DOMAIN log' = 1 .. Len(log) + 1 /\ Len(log') = Len(log) + 1
          /\ \A k \in 1 .. Len(log) : log'[k] = log[k]
          /\ log'[Len(log) + 1].event = "missed" /\ log'[Len(log) + 1].by = r
          /\ log'[Len(log) + 1].at = now
      BY <3>1, LoggedStep
    <3>2. LogInOrder'
      BY <3>1, OrderAppended DEF LogInv
    <3>3. Known' = Known /\ expires[r] = 0
      BY <3>1, HoldsStep DEF Known, RevokedEarlier
    <3>4. LogTellsExpiry'
      <4>1. \A k \in DOMAIN log, q \in Requests :
              (Misses(k, q)' <=> Misses(k, q)) /\ (Stores(k, q)' <=> Stores(k, q))
        BY <3>1, <3>0, <1>n DEF Misses, Stores
      <4>2. \A q \in Requests, n \in Nat : n = Len(log) + 1 =>
              (Misses(n, q)' <=> q = r) /\ ~Stores(n, q)'
        BY <3>1, <3>0, <1>n DEF Misses, Stores
      <4>3. DOMAIN log' = DOMAIN log \cup {Len(log) + 1} /\ Len(log) + 1 \in Nat
        BY <3>1, <3>0, <1>n
      <4>4. \A k \in DOMAIN log', q \in Requests : Misses(k, q)' =>
              holds'[q] # "nothing" /\ (expires'[q] # 0 => expires'[q] >= log'[k].at + Lifetime)
        BY <3>1, <3>3, <4>1, <4>2, <4>3, <1>n, <3>0, HoldsStep DEF LogInv, LogTellsExpiry
      <4>5. \A k \in DOMAIN log', q \in Requests : Stores(k, q)' =>
              /\ q \in Known' /\ expires'[q] # 0 /\ expires'[q] <= log'[k].at + Lifetime
              /\ \E m \in 1 .. k - 1 : Misses(m, q)'
        <5>1. SUFFICES ASSUME NEW k \in DOMAIN log, NEW q \in Requests, Stores(k, q)
                       PROVE  /\ q \in Known' /\ expires'[q] # 0
                              /\ expires'[q] <= log'[k].at + Lifetime
                              /\ \E m \in 1 .. k - 1 : Misses(m, q)'
          BY <4>1, <4>2, <4>3
        <5>2. PICK m \in 1 .. k - 1 : Misses(m, q)
          BY <5>1 DEF LogInv, LogTellsExpiry
        <5>3. m \in DOMAIN log
          BY <5>2 DEF Misses
        <5>. QED BY <5>1, <5>2, <5>3, <4>1, <3>0, <3>1, <3>3, <1>n DEF LogInv, LogTellsExpiry
      <4>6. \A q \in Requests : holds'[q] \in {"asks", "minted"} =>
              \E m \in DOMAIN log' : Misses(m, q)'
        BY <3>1, <4>1, <4>2, <4>3, HoldsStep DEF LogInv, LogTellsExpiry
      <4>. QED BY <4>4, <4>5, <4>6 DEF LogTellsExpiry
    <3>5. CacheIsLast'
      <4>1. \A k \in Nat, i \in Installations : Last(k, i) => Last(k, i)'
        BY <3>1, <3>0, <1>n DEF Last
      <4>2. \A k \in DOMAIN log, q \in Requests : Stores(k, q) => k \in DOMAIN log' /\ Stores(k, q)'
        BY <3>1, <3>0, <1>n DEF Stores
      <4>. QED BY <4>1, <4>2, <3>1, <3>0, <1>n DEF LogInv, CacheIsLast, TokensTypeOK
    <3>6. MintsJustified'
      <4>1. SUFFICES ASSUME NEW i \in DOMAIN log', NEW k \in 1 .. i - 1,
                            log'[i].event = "missed", log'[k].event = "stored",
                            Same(log'[i].by, log'[k].by), ~Stale(log'[k].by, log'[i].at)
                     PROVE  \E l \in k + 1 .. i - 1 : \E m \in 1 .. k - 1 :
                              /\ log'[l].event = "stored" /\ log'[m].event = "missed"
                              /\ log'[l].by = log'[m].by
                              /\ Same(log'[i].by, log'[l].by) /\ Stale(log'[l].by, log'[i].at)
        BY <3>1 DEF MintsJustified, Stale, Same
      <4>2. CASE i \in DOMAIN log
        <5>1. \A j \in 1 .. i : log'[j] = log[j]
          BY <4>2, <3>1, <3>0, <1>n
        <5>. QED BY <4>1, <4>2, <5>1, <1>n DEF LogInv, MintsJustified
      <4>3. CASE i = Len(log) + 1
        <5>1. /\ log'[i].by = r /\ log'[i].at = now /\ k \in DOMAIN log
              /\ \A j \in 1 .. Len(log) : log'[j] = log[j]
          BY <4>3, <3>1, <3>0, <1>n
        <5>2. InstallationOf[log[k].by] = InstallationOf[r] /\ ~Stale(log[k].by, now)
              /\ log[k].event = "stored"
          BY <4>1, <5>1, <1>n DEF Same
        <5>3. PICK l \in k + 1 .. Len(log), m \in 1 .. k - 1 :
                /\ log[l].event = "stored" /\ log[m].event = "missed" /\ log[l].by = log[m].by
                /\ InstallationOf[log[l].by] = InstallationOf[r] /\ Stale(log[l].by, now)
          BY <2>2, <5>1, <5>2, MissJustified
        <5>4. l \in k + 1 .. i - 1 /\ log'[l] = log[l] /\ log'[m] = log[m]
          BY <4>3, <5>1, <5>3, <1>n
        <5>. QED BY <5>1, <5>3, <5>4 DEF Same
      <4>. QED BY <4>1, <4>2, <4>3, <3>0, <1>n
    <3>. QED BY <3>2, <3>4, <3>5, <3>6 DEF LogInv
  <2>. QED BY <2>1, <2>2
<1>2. ASSUME NEW r \in Requests, Mint(r) PROVE LogInv'
  <2>1. /\ expires' = [expires EXCEPT ![r] = now + Lifetime]
        /\ Holds(r, "minted") /\ holds[r] = "asks" /\ UNCHANGED <<now, log, cached>>
    BY <1>2 DEF Mint
  <2>2. r \notin Known /\ Known' = Known
    BY <2>1, HoldsStep DEF Known
  <2>3. /\ expires'[r] = now + Lifetime
        /\ \A q \in Requests : q # r => expires'[q] = expires[q]
    BY <2>1 DEF TokensTypeOK
  <2>4. \A k \in DOMAIN log : log[k].event = "stored" => log[k].by # r
    <3>1. \A k \in DOMAIN log : log[k].event = "stored" => log[k].by \in Known
      BY LogType DEF LogInv, LogTellsExpiry, Stores
    <3>. QED BY <2>2, <3>1
  <2>5. LogInOrder'
    BY <2>1 DEF LogInv, LogInOrder
  <2>6. LogTellsExpiry'
    <3>1. \A k \in DOMAIN log, q \in Requests : Misses(k, q) =>
            holds'[q] # "nothing" /\ (expires'[q] # 0 => expires'[q] >= log[k].at + Lifetime)
      <4>1. SUFFICES ASSUME NEW k \in DOMAIN log, NEW q \in Requests, Misses(k, q)
                     PROVE  /\ holds'[q] # "nothing"
                            /\ expires'[q] # 0 => expires'[q] >= log[k].at + Lifetime
        OBVIOUS
      <4>2. CASE q = r
        BY <4>1, <4>2, <2>1, <2>3, HoldsStep, LogType DEF LogInv, LogInOrder
      <4>3. CASE q # r
        BY <4>1, <4>3, <2>1, <2>3, HoldsStep DEF LogInv, LogTellsExpiry
      <4>. QED BY <4>2, <4>3
    <3>2. \A k \in DOMAIN log, q \in Requests : Stores(k, q) => q # r
      BY <2>4 DEF Stores
    <3>3. \A q \in Requests : holds'[q] \in {"asks", "minted"} => holds[q] \in {"asks", "minted"}
      BY <2>1, HoldsStep
    <3>. QED BY <3>1, <3>2, <3>3, <2>1, <2>2, <2>3 DEF LogInv, LogTellsExpiry, Misses, Stores
  <2>7. CacheIsLast'
    BY <2>1 DEF LogInv, CacheIsLast, Last, Stores
  <2>8. \A k \in DOMAIN log, at \in Nat :
          log[k].event = "stored" => (Stale(log[k].by, at)' <=> Stale(log[k].by, at))
    <3>1. \A k \in DOMAIN log : log[k].event = "stored" =>
            expires'[log[k].by] = expires[log[k].by]
      BY <2>3, <2>4, LogType
    <3>. QED BY <3>1, <2>1 DEF Stale
  <2>9. MintsJustified'
    <3>1. SUFFICES ASSUME NEW i \in DOMAIN log, NEW k \in 1 .. i - 1,
                          log[i].event = "missed", log[k].event = "stored",
                          Same(log[i].by, log[k].by), ~Stale(log[k].by, log[i].at)'
                   PROVE  \E l \in k + 1 .. i - 1 : \E m \in 1 .. k - 1 :
                            /\ log[l].event = "stored" /\ log[m].event = "missed"
                            /\ log[l].by = log[m].by
                            /\ Same(log[i].by, log[l].by) /\ Stale(log[l].by, log[i].at)'
      BY <2>1 DEF MintsJustified, Stale, Same
    <3>2. log[i].at \in Nat /\ k \in DOMAIN log /\ i \in Nat
      BY LogType, <1>n
    <3>3. ~Stale(log[k].by, log[i].at)
      BY <3>1, <3>2, <2>8, <2>1 DEF Stale
    <3>4. PICK l \in k + 1 .. i - 1, m \in 1 .. k - 1 :
            /\ log[l].event = "stored" /\ log[m].event = "missed" /\ log[l].by = log[m].by
            /\ Same(log[i].by, log[l].by) /\ Stale(log[l].by, log[i].at)
      BY <3>1, <3>3 DEF LogInv, MintsJustified
    <3>5. l \in DOMAIN log
      BY <3>2, <1>n
    <3>6. Stale(log[l].by, log[i].at)'
      BY <3>2, <3>4, <3>5, <2>8, <2>1 DEF Stale
    <3>. QED BY <3>4, <3>6
  <2>. QED BY <2>5, <2>6, <2>7, <2>9 DEF LogInv
<1>3. ASSUME NEW r \in Requests, Store(r) PROVE LogInv'
  <2>1. /\ cached' = [cached EXCEPT ![InstallationOf[r]] = r]
        /\ Holds(r, "token") /\ holds[r] = "minted" /\ Logged(r, "stored")
        /\ UNCHANGED <<now, expires>>
    BY <1>3 DEF Store, Stored
  <2>0. /\ DOMAIN log' = 1 .. Len(log) + 1 /\ Len(log') = Len(log) + 1
        /\ \A k \in 1 .. Len(log) : log'[k] = log[k]
        /\ log'[Len(log) + 1].event = "stored" /\ log'[Len(log) + 1].by = r
        /\ log'[Len(log) + 1].at = now
    BY <2>1, LoggedStep
  <2>2. LogInOrder'
    BY <2>1, OrderAppended DEF LogInv
  <2>3. Known \subseteq Known' /\ r \in Known'
    BY <2>1, HoldsStep DEF Known
  <2>4. expires[r] # 0 /\ expires[r] <= now + Lifetime
    <3>1. expires[r] = since[r] + Lifetime /\ since[r] \in Nat /\ expires[r] <= now + Lifetime
      BY <2>1 DEF HeldLasts, RevokedEarlier, TokensTypeOK
    <3>. QED BY <3>1
  <2>5. \A k \in DOMAIN log, q \in Requests :
          (Misses(k, q)' <=> Misses(k, q)) /\ (Stores(k, q)' <=> Stores(k, q))
    BY <2>1, <2>0, <1>n DEF Misses, Stores
  <2>6. \A q \in Requests, n \in Nat : n = Len(log) + 1 =>
          (Stores(n, q)' <=> q = r) /\ ~Misses(n, q)'
    BY <2>1, <2>0, <1>n DEF Misses, Stores
  <2>7. DOMAIN log' = DOMAIN log \cup {Len(log) + 1} /\ Len(log) + 1 \in Nat
    BY <2>1, <2>0, <1>n
  <2>8. LogTellsExpiry'
    <3>1. \A k \in DOMAIN log', q \in Requests : Misses(k, q)' =>
            holds'[q] # "nothing" /\ (expires'[q] # 0 => expires'[q] >= log'[k].at + Lifetime)
      BY <2>1, <2>5, <2>6, <2>7, <2>0, <1>n, HoldsStep DEF LogInv, LogTellsExpiry
    <3>2. \A k \in DOMAIN log', q \in Requests : Stores(k, q)' =>
            /\ q \in Known' /\ expires'[q] # 0 /\ expires'[q] <= log'[k].at + Lifetime
            /\ \E m \in 1 .. k - 1 : Misses(m, q)'
      <4>1. SUFFICES ASSUME NEW k \in DOMAIN log', NEW q \in Requests, Stores(k, q)'
                     PROVE  /\ q \in Known' /\ expires'[q] # 0
                            /\ expires'[q] <= log'[k].at + Lifetime
                            /\ \E m \in 1 .. k - 1 : Misses(m, q)'
        OBVIOUS
      <4>2. CASE k \in DOMAIN log
        <5>1. PICK m \in 1 .. k - 1 : Misses(m, q)
          BY <4>1, <4>2, <2>5 DEF LogInv, LogTellsExpiry
        <5>2. m \in DOMAIN log
          BY <5>1 DEF Misses
        <5>. QED BY <4>1, <4>2, <5>1, <5>2, <2>1, <2>3, <2>5, <2>0, <1>n
                 DEF LogInv, LogTellsExpiry
      <4>3. CASE k = Len(log) + 1
        <5>1. q = r
          BY <4>1, <4>3, <2>6
        <5>2. PICK m \in DOMAIN log : Misses(m, r)
          BY <2>1 DEF LogInv, LogTellsExpiry
        <5>3. m \in 1 .. k - 1 /\ Misses(m, q)'
          BY <5>1, <5>2, <4>3, <2>5, <2>0, <1>n
        <5>4. log'[k].at = now
          BY <4>3, <2>1, <2>0, <1>n
        <5>. QED BY <5>1, <5>3, <5>4, <2>1, <2>3, <2>4
      <4>. QED BY <4>1, <4>2, <4>3, <2>7
    <3>3. \A q \in Requests : holds'[q] \in {"asks", "minted"} =>
            \E m \in DOMAIN log' : Misses(m, q)'
      BY <2>1, <2>5, <2>7, HoldsStep DEF LogInv, LogTellsExpiry
    <3>. QED BY <3>1, <3>2, <3>3 DEF LogTellsExpiry
  <2>9. CacheIsLast'
    <3>1. SUFFICES ASSUME NEW i \in Installations
                   PROVE  \/ cached'[i] = None /\ Last(0, i)'
                          \/ cached'[i] # None /\ \E k \in DOMAIN log', q \in Requests :
                               q = cached'[i] /\ Stores(k, q)' /\ Last(k, i)'
      BY DEF CacheIsLast, Stores, Last
    <3>2. CASE i = InstallationOf[r]
      <4>1. cached'[i] = r /\ r # None
        BY <3>2, <2>1 DEF TokensTypeOK
      <4>2. \A n \in Nat : n = Len(log) + 1 => Stores(n, r)' /\ Last(n, i)'
        BY <2>6, <2>7, <2>0, <1>n DEF Last
      <4>. QED BY <4>1, <4>2, <2>7
    <3>3. CASE i # InstallationOf[r]
      <4>1. cached'[i] = cached[i]
        BY <3>3, <2>1 DEF TokensTypeOK
      <4>2. \A k \in Nat : Last(k, i) => Last(k, i)'
        BY <3>3, <2>1, <2>0, <1>n DEF Last
      <4>3. \A k \in DOMAIN log, q \in Requests : Stores(k, q) => k \in DOMAIN log' /\ Stores(k, q)'
        BY <2>5, <2>7
      <4>4. CASE cached[i] = None
        BY <4>1, <4>2, <4>4 DEF LogInv, CacheIsLast
      <4>5. CASE cached[i] # None
        <5>1. PICK k \in DOMAIN log : Stores(k, cached[i]) /\ Last(k, i)
          BY <4>5 DEF LogInv, CacheIsLast
        <5>2. cached[i] \in Requests /\ k \in Nat
          BY <4>5, <1>n DEF TokensTypeOK
        <5>. QED BY <4>1, <4>2, <4>3, <4>5, <5>1, <5>2
      <4>. QED BY <4>4, <4>5
    <3>. QED BY <3>2, <3>3
  <2>10. MintsJustified'
    <3>1. SUFFICES ASSUME NEW i \in DOMAIN log', NEW k \in 1 .. i - 1,
                          log'[i].event = "missed", log'[k].event = "stored",
                          Same(log'[i].by, log'[k].by), ~Stale(log'[k].by, log'[i].at)
                   PROVE  \E l \in k + 1 .. i - 1 : \E m \in 1 .. k - 1 :
                            /\ log'[l].event = "stored" /\ log'[m].event = "missed"
                            /\ log'[l].by = log'[m].by
                            /\ Same(log'[i].by, log'[l].by) /\ Stale(log'[l].by, log'[i].at)
      BY <2>1 DEF MintsJustified, Stale, Same
    <3>2. i \in DOMAIN log
      BY <3>1, <2>1, <2>0, <2>7, <2>0, <1>n
    <3>3. \A j \in 1 .. i : log'[j] = log[j]
      BY <3>2, <2>1, <2>0, <1>n
    <3>. QED BY <3>1, <3>2, <3>3, <1>n DEF LogInv, MintsJustified
  <2>. QED BY <2>2, <2>8, <2>9, <2>10 DEF LogInv
<1>4. ASSUME NEW r \in Requests, Release(r) PROVE LogInv'
  BY <1>4, <1>n, HoldsStep, LogUnchanged DEF Release
<1>5. ASSUME NEW i \in Installations, Revoke(i) PROVE LogInv'
  BY <1>5, <1>n, LogUnchanged DEF Revoke
<1>6. CASE Tick
  BY <1>6, <1>n, LogUnchanged DEF Tick
<1>7. CASE UNCHANGED tokenVars
  BY <1>7, <1>n, LogUnchanged DEF tokenVars
<1>. QED
  BY <1>1, <1>2, <1>3, <1>4, <1>5, <1>6, <1>7 DEF TokenNext, TokenStep

=============================================================================
