------------------------- MODULE InstallationTokens -------------------------
(***************************************************************************)
(* GitHubAuthProvider's cache of installation tokens.  A request for a     *)
(* repository's context looks for its installation's token; when none is   *)
(* cached that lasts long enough it mints one, outside the lock, and       *)
(* stores it.  Other requests do the same meanwhile.                       *)
(***************************************************************************)
EXTENDS Integers, Sequences

CONSTANTS
  Requests,
  Installations, InstallationOf,
  None,
  Lifetime,  \* of a token
  Margin,    \* a cached token must last longer than this
  Fetch,     \* the time the clients' timeouts leave to a fetch
  MaxTime    \* bound: the clock stops

ASSUME TokensAssumption ==
  InstallationOf \in [Requests -> Installations] /\ None \notin Requests
ASSUME TimesAssumption ==
  /\ Lifetime \in Nat /\ Margin \in Nat /\ Fetch \in Nat /\ MaxTime \in Nat
  /\ Fetch <= Margin /\ Margin < Lifetime

VARIABLES
  now,
  holds,     \* a request's way to its token
  token,     \* the token it uses, named by the request that minted it
  expires,   \* when the token that a request minted does
  since,     \* when it was taken from the cache, or minted
  cached,
  log,       \* the look-ups that missed and the tokens stored, in order
  revoked,   \* the tokens GitHub no longer takes
  revokedAt  \* when an installation's tokens were revoked

tokenVars == <<now, holds, token, expires, since, cached, log, revoked, revokedAt>>

Never == MaxTime + 1
TokensTypeOK ==
  /\ now \in 0 .. MaxTime
  /\ holds \in [Requests -> {"nothing", "asks", "minted", "token", "released"}]
  /\ token \in [Requests -> Requests \cup {None}]
  /\ expires \in [Requests -> 0 .. MaxTime + Lifetime]
  /\ since \in [Requests -> 0 .. MaxTime]
  /\ cached \in [Installations -> Requests \cup {None}]
  /\ log \in Seq([event : {"missed", "stored"}, by : Requests, at : 0 .. MaxTime])
  /\ revoked \subseteq Requests
  /\ revokedAt \in [Installations -> 0 .. Never]

TokensInit ==
  /\ now = 0
  /\ holds = [r \in Requests |-> "nothing"]
  /\ token = [r \in Requests |-> None]
  /\ expires = [r \in Requests |-> 0]
  /\ since = [r \in Requests |-> 0]
  /\ cached = [i \in Installations |-> None]
  /\ log = <<>>
  /\ revoked = {}
  /\ revokedAt = [i \in Installations |-> Never]

Holds(r, h) == holds' = [holds EXCEPT ![r] = h]
Logged(r, what) == log' = Append(log, [event |-> what, by |-> r, at |-> now])

-----------------------------------------------------------------------------

Lasts_Any(t) == t # None
Lasts_Now(t) == t # None /\ expires[t] > now
Lasts(t) == t # None /\ expires[t] - now > Margin

Look(r) ==
  LET t == cached[InstallationOf[r]] IN
  /\ holds[r] = "nothing"
  /\ IF Lasts(t)
       THEN /\ token' = [token EXCEPT ![r] = t]
            /\ since' = [since EXCEPT ![r] = now]
            /\ Holds(r, "token") /\ UNCHANGED log
       ELSE Holds(r, "asks") /\ Logged(r, "missed") /\ UNCHANGED <<token, since>>
  /\ UNCHANGED <<now, expires, cached, revoked, revokedAt>>

\* GitHub mints the token; its answer is under way.
Mint(r) ==
  /\ holds[r] = "asks"
  /\ expires' = [expires EXCEPT ![r] = now + Lifetime]
  /\ since' = [since EXCEPT ![r] = now]
  /\ Holds(r, "minted")
  /\ UNCHANGED <<now, token, cached, log, revoked, revokedAt>>

Stored_First(r) == IF cached[InstallationOf[r]] = None THEN r ELSE cached[InstallationOf[r]]
Stored(r) == r

Store(r) ==
  /\ holds[r] = "minted"
  /\ cached' = [cached EXCEPT ![InstallationOf[r]] = Stored(r)]
  /\ token' = [token EXCEPT ![r] = r]
  /\ Holds(r, "token") /\ Logged(r, "stored")
  /\ UNCHANGED <<now, expires, since, revoked, revokedAt>>

\* The request has no more calls to make, or was not given a token.
Release(r) ==
  /\ Holds(r, "released")
  /\ UNCHANGED <<now, token, expires, since, cached, log, revoked, revokedAt>>

\* The app is suspended, or removed and installed again.
Revoke(i) ==
  /\ revokedAt[i] = Never
  /\ revokedAt' = [revokedAt EXCEPT ![i] = now]
  /\ revoked' = revoked \cup {r \in Requests : InstallationOf[r] = i /\ expires[r] # 0}
  /\ UNCHANGED <<now, holds, token, expires, since, cached, log>>

\* Every call has a timeout, so an answer and a fetch take no longer than Fetch.
Tick ==
  /\ now < MaxTime
  /\ \A r \in Requests : holds[r] \in {"minted", "token"} => now < since[r] + Fetch
  /\ now' = now + 1
  /\ UNCHANGED <<holds, token, expires, since, cached, log, revoked, revokedAt>>

TokenStep(r) == Look(r) \/ Mint(r) \/ Store(r)

\* Whether GitHub takes the token of a request.
Accepted(r) == token[r] \notin revoked /\ now < expires[token[r]]

-----------------------------------------------------------------------------

\* No call of a fetch carries a token that has expired, though one from the cache is
\* not checked again before the calls.
TokensOutliveFetches ==
  \A r \in Requests : holds[r] = "token" => token[r] # None /\ now < expires[token[r]]

\* The cache does not learn that its token was revoked, but no request is given a revoked
\* token that begins as long after the revocation as a token is used.
RevocationHeals ==
  \A r \in Requests : holds[r] = "token" /\ token[r] \in revoked =>
    since[r] < revokedAt[InstallationOf[r]] + (Lifetime - Margin)

\* A cached token serves for all calls of a fetch, and a revoked one not forever.
TokensServe == TokensOutliveFetches /\ RevocationHeals

Same(r, s) == InstallationOf[r] = InstallationOf[s]
Stale(r, at) == expires[r] - at <= Margin

\* A token is minted although one that was stored before would have lasted only when an
\* older one, of a request that had missed it before it was stored, overwrote it.
MintsJustified ==
  \A i \in DOMAIN log : \A k \in 1 .. i - 1 :
    /\ log[i].event = "missed" /\ log[k].event = "stored" /\ Same(log[i].by, log[k].by)
    /\ ~Stale(log[k].by, log[i].at)
    => \E l \in k + 1 .. i - 1 : \E m \in 1 .. k - 1 :
         /\ log[l].event = "stored" /\ log[m].event = "missed" /\ log[l].by = log[m].by
         /\ Same(log[i].by, log[l].by) /\ Stale(log[l].by, log[i].at)

=============================================================================
