-------------------------------- MODULE Tokens --------------------------------
(***************************************************************************)
(* Sessions: pairs of signed tokens, of which this service keeps nothing.  *)
(* A sign-in reads the account, has a refresh token signed and then an     *)
(* access token bound to it.  A refresh verifies a pair, reloads the       *)
(* account and has another access token signed under the same refresh      *)
(* token.  The middleware admits whoever shows an access token that has    *)
(* not expired, with the role it carries.                                  *)
(*                                                                         *)
(* Tokens are known to everybody: any two can be presented together.  The  *)
(* roles of the accounts change at any time (Roles.tla says how).          *)
(***************************************************************************)
EXTENDS Integers, FiniteSets

CONSTANTS Users, RoleNames,
          RoleAnon,        \* the role of tokens without an account
          Patchers,        \* the roles that resolve to credentials:role:patch
          Jtis,            \* the identities the signer gives refresh tokens
          Sessions,        \* the requests in flight
          AccessTTL, RefreshTTL,   \* lifetimes of the tokens, set by the signer
          RequestTimeout,  \* REST_TIMEOUT_REQUEST
          MaxTime,         \* bound on the clock
          MaxTokens,       \* bound on the access tokens ever signed
          NoUser, NoJti, NoRole

ASSUME TokensAssumption ==
  /\ AccessTTL \in Nat \ {0} /\ RefreshTTL \in Nat \ {0} /\ RequestTimeout \in Nat
  /\ MaxTime \in Nat /\ MaxTokens \in Nat
  /\ RoleAnon \in RoleNames /\ Patchers \subseteq RoleNames \ {RoleAnon}
  /\ NoUser \notin Users /\ NoJti \notin Jtis /\ NoRole \notin RoleNames

VARIABLES role,       \* role[u]: the role of u's account, NoRole before there is one
          refreshes,  \* the refresh tokens signed
          accesses,   \* the access tokens signed
          pc, job,    \* the statement each request is at, and its locals
          now,
          lastHeld    \* history: when u last had a role, or -1

signed == <<refreshes, accesses>>
account == <<role, lastHeld>>
vars == <<account, signed, pc, job, now>>

\* "login" is history: the refresh token signed at the sign-in the token goes back to.
AccessToken == [user : Users \union {NoUser}, role : RoleNames,
                refresh : Jtis \union {NoJti}, login : Jtis \union {NoJti}, expires : Nat]
RefreshToken == [jti : Jtis, user : Users, expires : Nat]

Steps == {"idle", "refresh token", "reload", "access token", "acting"}
Job == [user : Users \union {NoUser}, role : RoleNames \union {NoRole},
        refresh : Jtis \union {NoJti}, login : Jtis \union {NoJti}, since : Nat]
NoJob == [user |-> NoUser, role |-> NoRole, refresh |-> NoJti, login |-> NoJti, since |-> 0]

HasAccount(u) == role[u] # NoRole

Start(s, step, u, r, jti, login) ==
  /\ pc[s] = "idle"
  /\ pc' = [pc EXCEPT ![s] = step]
  /\ job' = [job EXCEPT ![s] = [user |-> u, role |-> r, refresh |-> jti, login |-> login,
                                since |-> now]]
Goto(s, step) == pc' = [pc EXCEPT ![s] = step]
Return(s) == Goto(s, "idle") /\ job' = [job EXCEPT ![s] = NoJob]

-----------------------------------------------------------------------------
\* Registration gives a role, CredentialsUpdateRole and the init job another.
SetRole(u, r) == /\ role[u] # r
                 /\ role' = [role EXCEPT ![u] = r]
                 /\ lastHeld' = [lastHeld EXCEPT ![u][r] = now]
                 /\ UNCHANGED <<signed, pc, job, now>>

-----------------------------------------------------------------------------
(* Signing in.                                                              *)
\* The row is read and its password matches; or it was just inserted.
SignIn(s, u) == /\ HasAccount(u)
                /\ Start(s, "refresh token", u, role[u], NoJti, NoJti)
                /\ UNCHANGED <<account, signed, now>>

SignRefreshToken(s, j) ==
  /\ pc[s] = "refresh token" /\ \A t \in refreshes : t.jti # j
  /\ refreshes' = refreshes \union
       {[jti |-> j, user |-> job[s].user, expires |-> now + RefreshTTL]}
  /\ job' = [job EXCEPT ![s].refresh = j, ![s].login = j]
  /\ Goto(s, "access token")
  /\ UNCHANGED <<account, accesses, now>>

CanSign == Cardinality(accesses) < MaxTokens

\* The last step of a sign-in and of a refresh.
SignAccessToken(s) ==
  /\ pc[s] = "access token" /\ CanSign
  /\ accesses' = accesses \union
       {[user |-> job[s].user, role |-> job[s].role, refresh |-> job[s].refresh,
         login |-> job[s].login, expires |-> now + AccessTTL]}
  /\ Return(s)
  /\ UNCHANGED <<account, refreshes, now>>

\* TokenCreateAnon: claims that never vary.
SignAnon == /\ CanSign
            /\ accesses' = accesses \union
                 {[user |-> NoUser, role |-> RoleAnon, refresh |-> NoJti, login |-> NoJti,
                   expires |-> now + AccessTTL]}
            /\ UNCHANGED <<account, refreshes, pc, job, now>>

-----------------------------------------------------------------------------
(* Refreshing.                                                              *)
\* Mutant: the refresh token is verified like the access token, expiry ignored.
Refresh_IgnoresExpiry(s, a, t) ==
  /\ a.user = t.user /\ a.refresh = t.jti
  /\ Start(s, "reload", a.user, a.role, t.jti, a.login)
  /\ UNCHANGED <<account, signed, now>>

\* Mutant: any refresh token of the user will do.
Refresh_AnySession(s, a, t) ==
  /\ now < t.expires
  /\ a.user = t.user
  /\ Start(s, "reload", a.user, a.role, t.jti, a.login)
  /\ UNCHANGED <<account, signed, now>>

\* Only the refresh token has to be in time; the pair has to name one user and
\* one session.
Refresh(s, a, t) ==
  /\ now < t.expires
  /\ a.user = t.user /\ a.refresh = t.jti
  /\ Start(s, "reload", a.user, a.role, t.jti, a.login)
  /\ UNCHANGED <<account, signed, now>>

\* Mutant: the new token repeats the roles of the old one.
Reload_KeepsRole(s) == /\ pc[s] = "reload"
                       /\ Goto(s, "access token")
                       /\ UNCHANGED <<account, signed, job, now>>

Reload(s) == /\ pc[s] = "reload" /\ HasAccount(job[s].user)
             /\ job' = [job EXCEPT ![s].role = role[job[s].user]]
             /\ Goto(s, "access token")
             /\ UNCHANGED <<account, signed, now>>

-----------------------------------------------------------------------------
(* Using them.                                                              *)
\* Mutant: a refresh must still be possible, but the access token may be old.
Admit_Expired(s, a) ==
  /\ Start(s, "acting", a.user, a.role, a.refresh, a.login)
  /\ UNCHANGED <<account, signed, now>>

\* The claims of the token are what the handler acts with from here on.
Admit(s, a) == /\ now < a.expires
               /\ Start(s, "acting", a.user, a.role, a.refresh, a.login)
               /\ UNCHANGED <<account, signed, now>>

\* The handler returns, a statement or the signer fails, or the client leaves.
End(s) == pc[s] # "idle" /\ Return(s) /\ UNCHANGED <<account, signed, now>>

\* No request outlives its timeout.
Tick == /\ now < MaxTime
        /\ \A s \in Sessions : pc[s] # "idle" => now < job[s].since + RequestTimeout
        /\ now' = now + 1
        /\ lastHeld' = [u \in Users |-> [r \in RoleNames |->
             IF r = role[u] THEN now' ELSE lastHeld[u][r]]]
        /\ UNCHANGED <<role, signed, pc, job>>

Init == /\ role = [u \in Users |-> NoRole]
        /\ refreshes = {} /\ accesses = {}
        /\ pc = [s \in Sessions |-> "idle"]
        /\ job = [s \in Sessions |-> NoJob]
        /\ now = 0
        /\ lastHeld = [u \in Users |-> [r \in RoleNames |-> -1]]

Next == \/ Tick \/ SignAnon
        \/ \E u \in Users, r \in RoleNames : SetRole(u, r)
        \/ \E s \in Sessions :
             \/ \E u \in Users : SignIn(s, u)
             \/ \E j \in Jtis : SignRefreshToken(s, j)
             \/ SignAccessToken(s) \/ Reload(s) \/ End(s)
             \/ \E a \in accesses : Admit(s, a) \/ \E t \in refreshes : Refresh(s, a, t)

Spec == Init /\ [][Next]_vars

-----------------------------------------------------------------------------
(* Properties.                                                              *)
Named(a) == a.user # NoUser

\* Every variable has its type; a token has a user and a refresh token, or neither and the
\* anonymous role (which an account may have too).
TypeOK == /\ role \in [Users -> RoleNames \union {NoRole}]
          /\ refreshes \subseteq RefreshToken
          /\ accesses \subseteq AccessToken
          /\ \A a \in accesses : /\ Named(a) <=> a.refresh # NoJti
                                 /\ Named(a) \/ a.role = RoleAnon
          /\ pc \in [Sessions -> Steps]
          /\ job \in [Sessions -> Job]
          /\ now \in Nat
          /\ lastHeld \in [Users -> [RoleNames -> Int]]

BoundTo(x, t) == t.jti = x.refresh /\ t.user = x.user

\* However tokens are paired at refreshes, a token of a user goes back to one sign-in
\* of that user, the one that signed the refresh token it names (signTokenPair and
\* ErrTokenRefreshMismatchSource).
TokensOfOneLogin ==
  \A a \in accesses : Named(a) => a.login = a.refresh /\ \E t \in refreshes : BoundTo(a, t)

\* "Reload credentials so any role change since the original sign lands in the new
\* token": nobody acts with a role lost longer ago than an access token lives, the time
\* the signing took and that of the request itself.
RoleChangesLand ==
  \A s \in Sessions : pc[s] = "acting" /\ Named(job[s]) =>
    LET held == lastHeld[job[s].user][job[s].role]
    IN held >= 0 /\ now <= held + AccessTTL + 2 * RequestTimeout

\* "There is no way to refresh a refresh token, so once it expires, the user must log in
\* again": nobody acts in a session longer than one last access token after that.
SessionsEnd ==
  \A s \in Sessions : pc[s] = "acting" /\ Named(job[s]) =>
    \E t \in refreshes : /\ BoundTo(job[s], t)
                         /\ now <= t.expires + AccessTTL + 2 * RequestTimeout

\* Those who can reach the role route now, or will by a token being signed: the holders
\* of Roles.tla.
Signing(s) == pc[s] \in {"refresh token", "access token"}
Holders ==
  {u \in Users : \/ \E a \in accesses : a.user = u /\ a.role \in Patchers /\ now < a.expires
                 \/ \E s \in Sessions : Signing(s) /\ job[s].user = u /\ job[s].role \in Patchers}

\* What Roles.tla takes for granted: somebody becomes a holder only while their role
\* grants the permission, one at a time, and the others stay or expire (its SignIn and
\* Expire).
Gains(u) == role[u] \in Patchers /\ Holders' = Holders \union {u}
HoldersHaveRole == [][Holders' \subseteq Holders \/ \E u \in Users : Gains(u)]_vars

\* The inductive invariant: requests are on time, refresh tokens are told apart by their
\* ids, and each token and each request that will sign one has a role held when it was
\* read and a session alive when it was verified.
OnTime(s) == pc[s] # "idle" => job[s].since <= now /\ now <= job[s].since + RequestTimeout
ReadRole(s) == Signing(s) =>
  /\ job[s].user \in Users /\ job[s].role \in RoleNames
  /\ lastHeld[job[s].user][job[s].role] >= job[s].since
ReadSession(s) == pc[s] \in {"reload", "access token"} =>
  /\ Named(job[s]) /\ job[s].login = job[s].refresh
  /\ \E t \in refreshes : BoundTo(job[s], t) /\ job[s].since <= t.expires
ReadToken(s) == pc[s] = "acting" /\ Named(job[s]) =>
  \E a \in accesses : /\ a.user = job[s].user /\ a.role = job[s].role
                      /\ a.refresh = job[s].refresh
                      /\ job[s].since <= a.expires
JobSound(s) == OnTime(s) /\ ReadRole(s) /\ ReadSession(s) /\ ReadToken(s)
JobsSound == \A s \in Sessions : JobSound(s)

AccessSound ==
  \A a \in accesses : Named(a) =>
    /\ lastHeld[a.user][a.role] >= 0
    /\ a.expires <= lastHeld[a.user][a.role] + AccessTTL + RequestTimeout
    /\ \E t \in refreshes : BoundTo(a, t) /\ a.expires <= t.expires + AccessTTL + RequestTimeout

HeldSound ==
  \A u \in Users : /\ HasAccount(u) => lastHeld[u][role[u]] = now
                   /\ \A r \in RoleNames : lastHeld[u][r] \in -1..now

TokensInv == TypeOK /\ TokensOfOneLogin /\ JobsSound /\ AccessSound /\ HeldSound
=============================================================================
