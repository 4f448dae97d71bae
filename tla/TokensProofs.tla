----------------------------- MODULE TokensProofs -----------------------------
(* Proofs about Tokens, for any users, roles, lifetimes and requests.       *)
EXTENDS Tokens, TLAPS

USE DEF HasAccount, Goto, Named, BoundTo, Signing, JobSound, OnTime, ReadRole,
        ReadSession, ReadToken

\* NoJob is a job, and so is what a request starts with.
LEMMA NoJobTyped == NoJob \in Job
  BY DEF NoJob, Job

\* Times stay natural numbers.
LEMMA Lifetimes ==
  ASSUME now \in Nat
  PROVE  /\ now + AccessTTL \in Nat /\ now + RefreshTTL \in Nat
         /\ AccessTTL \in Nat /\ RefreshTTL \in Nat /\ RequestTimeout \in Nat
  BY TokensAssumption

\* A request starts with its locals.
LEMMA Started ==
  ASSUME TypeOK, NEW s \in Sessions, NEW step \in Steps, NEW new \in Job,
         pc' = [pc EXCEPT ![s] = step], job' = [job EXCEPT ![s] = new]
  PROVE  /\ pc' \in [Sessions -> Steps] /\ job' \in [Sessions -> Job]
         /\ pc'[s] = step /\ job'[s] = new
         /\ \A x \in Sessions \ {s} : pc'[x] = pc[x] /\ job'[x] = job[x]
  BY DEF TypeOK

\* A request returns.
LEMMA Returned ==
  ASSUME TypeOK, NEW s \in Sessions, Return(s)
  PROVE  /\ pc' \in [Sessions -> Steps] /\ job' \in [Sessions -> Job]
         /\ pc'[s] = "idle"
         /\ \A x \in Sessions \ {s} : pc'[x] = pc[x] /\ job'[x] = job[x]
  BY NoJobTyped DEF TypeOK, Return, Steps

\* The token a request signs.
NewAccess(s) == [user |-> job[s].user, role |-> job[s].role, refresh |-> job[s].refresh,
                 login |-> job[s].login, expires |-> now + AccessTTL]
NewRefresh(s, j) == [jti |-> j, user |-> job[s].user, expires |-> now + RefreshTTL]
NewAnon == [user |-> NoUser, role |-> RoleAnon, refresh |-> NoJti, login |-> NoJti,
            expires |-> now + AccessTTL]

\* The token that is signed is typed and names what the request established.
LEMMA NewAccessTyped ==
  ASSUME TokensInv, NEW s \in Sessions, pc[s] = "access token"
  PROVE  /\ NewAccess(s) \in AccessToken
         /\ NewAccess(s).refresh # NoJti /\ Named(NewAccess(s))
<1>1. /\ job[s].user \in Users /\ job[s].role \in RoleNames
      /\ job[s].login = job[s].refresh
      /\ \E t \in refreshes : BoundTo(job[s], t)
  BY DEF TokensInv, JobsSound
<1>2. job[s].refresh \in Jtis
  BY <1>1 DEF TokensInv, TypeOK, RefreshToken
<1>3. job[s] \in Job
  BY DEF TokensInv, TypeOK
<1>6. now \in Nat
  BY DEF TokensInv, TypeOK
<1>7. now + AccessTTL \in Nat
  BY <1>6, Lifetimes
<1>4. NewAccess(s) \in AccessToken
  BY <1>1, <1>2, <1>3, <1>7 DEF NewAccess, AccessToken, Job
<1>5. /\ NewAccess(s).user = job[s].user /\ NewAccess(s).role = job[s].role
      /\ NewAccess(s).refresh = job[s].refresh
  BY DEF NewAccess
<1> QED BY <1>1, <1>2, <1>4, <1>5, TokensAssumption

LEMMA NewAnonTyped ==
  ASSUME TypeOK
  PROVE  /\ NewAnon \in AccessToken /\ NewAnon.refresh = NoJti /\ NewAnon.role = RoleAnon
         /\ ~Named(NewAnon)
  BY TokensAssumption DEF TypeOK, NewAnon, AccessToken

\* What the steps of a request do to its locals.
LEMMA RefreshSigned ==
  ASSUME TokensInv, NEW s \in Sessions, NEW j \in Jtis, SignRefreshToken(s, j)
  PROVE  /\ pc[s] = "refresh token" /\ pc' \in [Sessions -> Steps] /\ job' \in [Sessions -> Job]
         /\ pc'[s] = "access token"
         /\ job'[s].user = job[s].user /\ job'[s].role = job[s].role
         /\ job'[s].since = job[s].since /\ job'[s].refresh = j /\ job'[s].login = j
         /\ \A x \in Sessions \ {s} : pc'[x] = pc[x] /\ job'[x] = job[x]
         /\ NewRefresh(s, j) \in RefreshToken
         /\ refreshes' = refreshes \union {NewRefresh(s, j)}
         /\ UNCHANGED <<role, lastHeld, accesses, now>>
<1>1. pc[s] = "refresh token"
  BY DEF SignRefreshToken
<1>2. job[s].user \in Users /\ job \in [Sessions -> Job] /\ pc \in [Sessions -> Steps] /\ now \in Nat
  BY <1>1 DEF TokensInv, JobsSound, TypeOK
<1>3. NewRefresh(s, j) \in RefreshToken
  BY <1>2, TokensAssumption DEF NewRefresh, RefreshToken
<1> DEFINE next == [job[s] EXCEPT !.refresh = j, !.login = j]
<1>4. job' = [job EXCEPT ![s] = next]
  BY <1>2 DEF SignRefreshToken
<1>5. /\ next \in Job /\ next.user = job[s].user /\ next.role = job[s].role
      /\ next.since = job[s].since /\ next.refresh = j /\ next.login = j
  BY <1>2 DEF Job
<1>6. job' \in [Sessions -> Job] /\ job'[s] = next /\ \A x \in Sessions \ {s} : job'[x] = job[x]
  BY <1>2, <1>4, <1>5
<1>7. /\ pc' = [pc EXCEPT ![s] = "access token"]
      /\ refreshes' = refreshes \union {NewRefresh(s, j)}
      /\ UNCHANGED <<role, lastHeld, accesses, now>>
  BY DEF SignRefreshToken, NewRefresh, account
<1> QED BY <1>1, <1>2, <1>3, <1>5, <1>6, <1>7 DEF Steps

LEMMA Reloaded ==
  ASSUME TokensInv, NEW s \in Sessions, Reload(s)
  PROVE  /\ pc[s] = "reload" /\ pc' \in [Sessions -> Steps] /\ job' \in [Sessions -> Job]
         /\ pc'[s] = "access token"
         /\ job[s].user \in Users /\ role[job[s].user] \in RoleNames
         /\ job'[s].user = job[s].user /\ job'[s].role = role[job[s].user]
         /\ job'[s].since = job[s].since /\ job'[s].refresh = job[s].refresh
         /\ job'[s].login = job[s].login
         /\ \A x \in Sessions \ {s} : pc'[x] = pc[x] /\ job'[x] = job[x]
         /\ UNCHANGED <<role, lastHeld, refreshes, accesses, now>>
<1>1. pc[s] = "reload" /\ HasAccount(job[s].user)
  BY DEF Reload
<1>2. /\ job \in [Sessions -> Job] /\ pc \in [Sessions -> Steps]
      /\ role \in [Users -> RoleNames \union {NoRole}]
  BY DEF TokensInv, TypeOK
<1>3. job[s].user \in Users
  BY <1>1, <1>2 DEF TokensInv, JobsSound, Job
<1> DEFINE next == [job[s] EXCEPT !.role = role[job[s].user]]
<1>4. job' = [job EXCEPT ![s] = next]
  BY <1>2 DEF Reload
<1>5. /\ next \in Job /\ next.user = job[s].user /\ next.role = role[job[s].user]
      /\ next.since = job[s].since /\ next.refresh = job[s].refresh /\ next.login = job[s].login
  BY <1>1, <1>2, <1>3 DEF Job
<1>6. job' \in [Sessions -> Job] /\ job'[s] = next /\ \A x \in Sessions \ {s} : job'[x] = job[x]
  BY <1>2, <1>4, <1>5
<1>7. /\ pc' = [pc EXCEPT ![s] = "access token"]
      /\ UNCHANGED <<role, lastHeld, refreshes, accesses, now>>
  BY DEF Reload, account, signed
<1>8. pc' \in [Sessions -> Steps] /\ pc'[s] = "access token" /\ \A x \in Sessions \ {s} : pc'[x] = pc[x]
  BY <1>2, <1>7 DEF Steps
<1> QED BY <1>1, <1>2, <1>3, <1>5, <1>6, <1>7, <1>8

\* Which tokens a step adds.
LEMMA AccessSigned ==
  ASSUME TokensInv, NEW s \in Sessions, SignAccessToken(s)
  PROVE  /\ pc[s] = "access token" /\ Return(s)
         /\ accesses' = accesses \union {NewAccess(s)}
         /\ UNCHANGED <<role, lastHeld, refreshes, now>>
  BY DEF SignAccessToken, NewAccess, account

LEMMA AnonSigned ==
  ASSUME SignAnon
  PROVE  accesses' = accesses \union {NewAnon} /\ UNCHANGED <<role, lastHeld, refreshes, pc, job, now>>
  BY DEF SignAnon, NewAnon, account

\* The actions that only start or end a request.
Begins(s) == \/ \E u \in Users : SignIn(s, u)
             \/ \E a \in accesses : Admit(s, a) \/ \E t \in refreshes : Refresh(s, a, t)

\* What a request starts with.
LEMMA Begun ==
  ASSUME TokensInv, NEW s \in Sessions, Begins(s)
  PROVE  /\ pc' \in [Sessions -> Steps] /\ job' \in [Sessions -> Job]
         /\ pc[s] = "idle" /\ job'[s].since = now
         /\ \A x \in Sessions \ {s} : pc'[x] = pc[x] /\ job'[x] = job[x]
         /\ UNCHANGED <<role, lastHeld, refreshes, accesses, now>>
         /\ \/ /\ pc'[s] = "refresh token"
               /\ job'[s].user \in Users /\ job'[s].role = role[job'[s].user]
               /\ job'[s].role \in RoleNames
            \/ /\ pc'[s] = "reload" /\ job'[s].login = job'[s].refresh
               /\ Named(job'[s])
               /\ \E t \in refreshes : BoundTo(job'[s], t) /\ now < t.expires
            \/ /\ pc'[s] = "acting"
               /\ \E a \in accesses : /\ a.user = job'[s].user /\ a.role = job'[s].role
                                     /\ a.refresh = job'[s].refresh /\ now < a.expires
<1>0. TypeOK /\ now \in Nat
  BY DEF TokensInv, TypeOK
<1>1. CASE \E u \in Users : SignIn(s, u)
  <2>1. PICK u \in Users : SignIn(s, u)
    BY <1>1
  <2> DEFINE new == [user |-> u, role |-> role[u], refresh |-> NoJti, login |-> NoJti,
                     since |-> now]
  <2>2. role[u] \in RoleNames
    BY <2>1 DEF SignIn, TokensInv, TypeOK
  <2>3. /\ pc[s] = "idle" /\ pc' = [pc EXCEPT ![s] = "refresh token"]
        /\ job' = [job EXCEPT ![s] = new]
        /\ UNCHANGED <<role, lastHeld, refreshes, accesses, now>>
    BY <2>1 DEF SignIn, Start, account, signed
  <2>4. "refresh token" \in Steps /\ new \in Job
    BY <1>0, <2>2 DEF Steps, Job
  <2>5. /\ pc' \in [Sessions -> Steps] /\ job' \in [Sessions -> Job]
        /\ pc'[s] = "refresh token" /\ job'[s] = new
        /\ \A x \in Sessions \ {s} : pc'[x] = pc[x] /\ job'[x] = job[x]
    BY <1>0, <2>3, <2>4, Started
  <2> QED BY <2>2, <2>3, <2>5
<1>2. CASE \E a \in accesses : Admit(s, a)
  <2>1. PICK a \in accesses : Admit(s, a)
    BY <1>2
  <2> DEFINE new == [user |-> a.user, role |-> a.role, refresh |-> a.refresh,
                     login |-> a.login, since |-> now]
  <2>2. a \in AccessToken
    BY <2>1 DEF TokensInv, TypeOK
  <2>3. /\ pc[s] = "idle" /\ pc' = [pc EXCEPT ![s] = "acting"]
        /\ job' = [job EXCEPT ![s] = new] /\ now < a.expires
        /\ UNCHANGED <<role, lastHeld, refreshes, accesses, now>>
    BY <2>1 DEF Admit, Start, account, signed
  <2>4. "acting" \in Steps /\ new \in Job
    BY <1>0, <2>2 DEF Steps, Job, AccessToken
  <2>5. /\ pc' \in [Sessions -> Steps] /\ job' \in [Sessions -> Job]
        /\ pc'[s] = "acting" /\ job'[s] = new
        /\ \A x \in Sessions \ {s} : pc'[x] = pc[x] /\ job'[x] = job[x]
    BY <1>0, <2>3, <2>4, Started
  <2> QED BY <2>1, <2>3, <2>5
<1>3. CASE \E a \in accesses : \E t \in refreshes : Refresh(s, a, t)
  <2>1. PICK a \in accesses, t \in refreshes : Refresh(s, a, t)
    BY <1>3
  <2> DEFINE new == [user |-> a.user, role |-> a.role, refresh |-> t.jti,
                     login |-> a.login, since |-> now]
  <2>2. a \in AccessToken /\ t \in RefreshToken
    BY <2>1 DEF TokensInv, TypeOK
  <2>3. /\ pc[s] = "idle" /\ pc' = [pc EXCEPT ![s] = "reload"]
        /\ job' = [job EXCEPT ![s] = new] /\ now < t.expires
        /\ a.user = t.user /\ a.refresh = t.jti
        /\ UNCHANGED <<role, lastHeld, refreshes, accesses, now>>
    BY <2>1 DEF Refresh, Start, account, signed
  <2>4. t.user \in Users /\ t.jti \in Jtis /\ Named(a)
    BY <2>2, <2>3, TokensAssumption DEF RefreshToken
  <2>5. a.login = a.refresh
    BY <2>1, <2>4 DEF TokensInv, TokensOfOneLogin
  <2>6. "reload" \in Steps /\ new \in Job
    BY <1>0, <2>2, <2>4 DEF Steps, Job, AccessToken
  <2>7. /\ pc' \in [Sessions -> Steps] /\ job' \in [Sessions -> Job]
        /\ pc'[s] = "reload" /\ job'[s] = new
        /\ \A x \in Sessions \ {s} : pc'[x] = pc[x] /\ job'[x] = job[x]
    BY <1>0, <2>3, <2>6, Started
  <2> QED BY <2>1, <2>3, <2>4, <2>5, <2>7
<1> QED BY <1>1, <1>2, <1>3 DEF Begins

\* The actions, grouped.
LEMMA Actions ==
  ASSUME [Next]_vars
  PROVE  \/ UNCHANGED <<role, lastHeld, refreshes, accesses, pc, job, now>>
         \/ Tick \/ SignAnon
         \/ \E u \in Users, r \in RoleNames : SetRole(u, r)
         \/ \E s \in Sessions : Begins(s) \/ SignAccessToken(s) \/ Reload(s) \/ End(s)
         \/ \E s \in Sessions, j \in Jtis : SignRefreshToken(s, j)
  BY DEF Next, vars, account, signed, Begins

\* Histories, tokens and the clock only grow.
LEMMA Grows ==
  ASSUME TokensInv, [Next]_vars
  PROVE  /\ now' \in {now, now + 1} /\ now' \in Nat
         /\ refreshes \subseteq refreshes' /\ accesses \subseteq accesses'
         /\ lastHeld' \in [Users -> [RoleNames -> Int]]
         /\ \A u \in Users, r \in RoleNames : lastHeld'[u][r] >= lastHeld[u][r]
<1>1. /\ now \in Nat /\ lastHeld \in [Users -> [RoleNames -> Int]]
      /\ \A u \in Users, r \in RoleNames : lastHeld[u][r] \in Int /\ lastHeld[u][r] <= now
  BY DEF TokensInv, TypeOK, HeldSound
<1>2. CASE Tick
  <2>1. /\ now' = now + 1 /\ UNCHANGED <<refreshes, accesses>>
        /\ lastHeld' = [u \in Users |-> [r \in RoleNames |->
                          IF r = role[u] THEN now' ELSE lastHeld[u][r]]]
    BY <1>2 DEF Tick, signed
  <2>2. \A u \in Users, r \in RoleNames :
          lastHeld'[u][r] = IF r = role[u] THEN now + 1 ELSE lastHeld[u][r]
    BY <2>1
  <2>3. lastHeld' \in [Users -> [RoleNames -> Int]]
    BY <1>1, <2>1
  <2>4. \A u \in Users, r \in RoleNames : lastHeld'[u][r] >= lastHeld[u][r]
    BY <1>1, <2>2
  <2> QED BY <1>1, <2>1, <2>3, <2>4
<1>3. CASE \E u \in Users, r \in RoleNames : SetRole(u, r)
  <2>1. PICK u \in Users, r \in RoleNames : SetRole(u, r)
    BY <1>3
  <2>2. UNCHANGED <<refreshes, accesses, now>> /\ lastHeld' = [lastHeld EXCEPT ![u][r] = now]
    BY <2>1 DEF SetRole, signed
  <2>3. \A v \in Users, q \in RoleNames :
          lastHeld'[v][q] = IF v = u /\ q = r THEN now ELSE lastHeld[v][q]
    BY <1>1, <2>2
  <2>4. lastHeld' \in [Users -> [RoleNames -> Int]]
    BY <1>1, <2>2
  <2>5. \A v \in Users, q \in RoleNames : lastHeld'[v][q] >= lastHeld[v][q]
    BY <1>1, <2>3
  <2> QED BY <1>1, <2>2, <2>4, <2>5
<1>4. CASE UNCHANGED <<lastHeld, now>> /\ refreshes \subseteq refreshes' /\ accesses \subseteq accesses'
  BY <1>1, <1>4
<1>5. ASSUME NEW s \in Sessions, Begins(s) \/ SignAccessToken(s) \/ Reload(s) \/ End(s)
      PROVE  UNCHANGED <<lastHeld, now>> /\ refreshes \subseteq refreshes' /\ accesses \subseteq accesses'
  BY <1>5, Begun, AccessSigned, Reloaded DEF End, account, signed
<1>6. ASSUME NEW s \in Sessions, NEW j \in Jtis, SignRefreshToken(s, j)
      PROVE  UNCHANGED <<lastHeld, now>> /\ refreshes \subseteq refreshes' /\ accesses \subseteq accesses'
  BY <1>6, RefreshSigned
<1>7. SignAnon => UNCHANGED <<lastHeld, now>> /\ refreshes \subseteq refreshes' /\ accesses \subseteq accesses'
  BY AnonSigned
<1> QED BY <1>2, <1>3, <1>4, <1>5, <1>6, <1>7, Actions

\* Every action takes a typed state to a typed state.
LEMMA TypeInductive == TokensInv /\ [Next]_vars => TypeOK'
<1> SUFFICES ASSUME TokensInv, [Next]_vars PROVE TypeOK'
  OBVIOUS
<1>0. TypeOK /\ now' \in Nat /\ lastHeld' \in [Users -> [RoleNames -> Int]]
  BY Grows DEF TokensInv
<1>1. CASE UNCHANGED <<role, lastHeld, refreshes, accesses, pc, job, now>>
  BY <1>0, <1>1 DEF TypeOK
<1>2. CASE Tick
  BY <1>0, <1>2 DEF Tick, TypeOK, signed
<1>3. CASE SignAnon
  BY <1>0, <1>3, AnonSigned, NewAnonTyped DEF TypeOK
<1>4. ASSUME NEW u \in Users, NEW r \in RoleNames, SetRole(u, r) PROVE TypeOK'
  BY <1>0, <1>4 DEF SetRole, TypeOK, signed
<1>5. ASSUME NEW s \in Sessions, Begins(s) PROVE TypeOK'
  BY <1>0, <1>5, Begun DEF TypeOK
<1>6. ASSUME NEW s \in Sessions, SignAccessToken(s) PROVE TypeOK'
  <2>1. accesses' \subseteq AccessToken
    BY <1>0, <1>6, AccessSigned, NewAccessTyped DEF TypeOK
  <2>2. \A a \in accesses' : (Named(a) <=> a.refresh # NoJti) /\ (Named(a) \/ a.role = RoleAnon)
    BY <1>0, <1>6, AccessSigned, NewAccessTyped DEF TypeOK
  <2>3. pc' \in [Sessions -> Steps] /\ job' \in [Sessions -> Job]
    BY <1>0, <1>6, AccessSigned, Returned
  <2> QED BY <1>0, <1>6, <2>1, <2>2, <2>3, AccessSigned DEF TypeOK
<1>7. ASSUME NEW s \in Sessions, Reload(s) PROVE TypeOK'
  BY <1>0, <1>7, Reloaded DEF TypeOK
<1>8. ASSUME NEW s \in Sessions, End(s) PROVE TypeOK'
  <2>1. Return(s) /\ UNCHANGED <<role, lastHeld, refreshes, accesses, now>>
    BY <1>8 DEF End, account, signed
  <2> QED BY <1>0, <2>1, Returned DEF TypeOK
<1>9. ASSUME NEW s \in Sessions, NEW j \in Jtis, SignRefreshToken(s, j) PROVE TypeOK'
  <2>1. /\ pc' \in [Sessions -> Steps] /\ job' \in [Sessions -> Job]
        /\ NewRefresh(s, j) \in RefreshToken
        /\ refreshes' = refreshes \union {NewRefresh(s, j)}
        /\ UNCHANGED <<role, lastHeld, accesses, now>>
    BY <1>9, RefreshSigned
  <2> QED BY <1>0, <2>1 DEF TypeOK
<1> QED BY <1>1, <1>2, <1>3, <1>4, <1>5, <1>6, <1>7, <1>8, <1>9, Actions

\* Which access tokens a step adds.
LEMMA NewTokens ==
  ASSUME TokensInv, [Next]_vars
  PROVE  \A a \in accesses' : \/ a \in accesses \/ ~Named(a)
                            \/ \E s \in Sessions : /\ pc[s] = "access token"
                                                  /\ a = NewAccess(s)
                                                  /\ UNCHANGED <<role, lastHeld, refreshes, now>>
<1>1. CASE UNCHANGED accesses
  BY <1>1
<1>2. CASE SignAnon
  BY <1>2, AnonSigned, NewAnonTyped DEF TokensInv
<1>3. ASSUME NEW s \in Sessions, SignAccessToken(s)
      PROVE  /\ accesses' = accesses \union {NewAccess(s)} /\ pc[s] = "access token"
             /\ UNCHANGED <<role, lastHeld, refreshes, now>>
  BY <1>3, AccessSigned
<1>4. ASSUME NEW s \in Sessions, Begins(s) \/ Reload(s) \/ End(s) PROVE UNCHANGED accesses
  BY <1>4, Begun, Reloaded DEF End, signed
<1>5. ASSUME NEW s \in Sessions, NEW j \in Jtis, SignRefreshToken(s, j) PROVE UNCHANGED accesses
  BY <1>5, RefreshSigned
<1>6. ASSUME Tick \/ \E u \in Users, r \in RoleNames : SetRole(u, r) PROVE UNCHANGED accesses
  BY <1>6 DEF Tick, SetRole, signed
<1> QED BY <1>1, <1>2, <1>3, <1>4, <1>5, <1>6, Actions

\* Tokens go back to one sign-in: an old one keeps its refresh token, a new one has
\* that of the request that signs it.
LEMMA OneLoginInductive == TokensInv /\ [Next]_vars => TokensOfOneLogin'
<1> SUFFICES ASSUME TokensInv, [Next]_vars, NEW a \in accesses', Named(a)
             PROVE  a.login = a.refresh /\ \E t \in refreshes' : BoundTo(a, t)
  BY DEF TokensOfOneLogin
<1>1. CASE a \in accesses
  BY <1>1, Grows DEF TokensInv, TokensOfOneLogin
<1>2. ASSUME NEW s \in Sessions, pc[s] = "access token", a = NewAccess(s)
      PROVE  a.login = a.refresh /\ \E t \in refreshes' : BoundTo(a, t)
  <2>1. a.user = job[s].user /\ a.refresh = job[s].refresh /\ a.login = job[s].login
    BY <1>2 DEF NewAccess
  <2>2. job[s].login = job[s].refresh /\ \E t \in refreshes : BoundTo(job[s], t)
    BY <1>2 DEF TokensInv, JobsSound
  <2> QED BY <2>1, <2>2, Grows
<1> QED BY <1>1, <1>2, NewTokens

\* An access token expires one lifetime after it was signed, which was soon after the
\* request read the role and verified the session.
LEMMA AccessInductive == TokensInv /\ [Next]_vars => AccessSound'
<1> SUFFICES ASSUME TokensInv, [Next]_vars, NEW a \in accesses', Named(a)
             PROVE  /\ lastHeld'[a.user][a.role] >= 0
                    /\ a.expires <= lastHeld'[a.user][a.role] + AccessTTL + RequestTimeout
                    /\ \E t \in refreshes' :
                         BoundTo(a, t) /\ a.expires <= t.expires + AccessTTL + RequestTimeout
  BY DEF AccessSound
<1>0. /\ now \in Nat /\ AccessTTL \in Nat /\ RequestTimeout \in Nat
      /\ \A u \in Users, r \in RoleNames : lastHeld[u][r] \in Int /\ lastHeld'[u][r] \in Int
      /\ \A t \in refreshes : t.expires \in Nat /\ t.user \in Users
  BY Grows, Lifetimes DEF TokensInv, TypeOK, RefreshToken
<1>1. CASE a \in accesses
  <2>1. /\ a.user \in Users /\ a.role \in RoleNames /\ a.expires \in Nat
    BY <1>1 DEF TokensInv, TypeOK, AccessToken
  <2>2. /\ lastHeld[a.user][a.role] >= 0
        /\ a.expires <= lastHeld[a.user][a.role] + AccessTTL + RequestTimeout
        /\ \E t \in refreshes :
             BoundTo(a, t) /\ a.expires <= t.expires + AccessTTL + RequestTimeout
    BY <1>1 DEF TokensInv, AccessSound
  <2>3. lastHeld'[a.user][a.role] >= lastHeld[a.user][a.role] /\ refreshes \subseteq refreshes'
    BY <2>1, Grows
  <2>4. lastHeld[a.user][a.role] \in Int /\ lastHeld'[a.user][a.role] \in Int
    BY <1>0, <2>1
  <2>5. /\ lastHeld'[a.user][a.role] >= 0
        /\ a.expires <= lastHeld'[a.user][a.role] + AccessTTL + RequestTimeout
    BY <1>0, <2>1, <2>2, <2>3, <2>4
  <2> QED BY <2>2, <2>3, <2>5
<1>2. ASSUME NEW s \in Sessions, pc[s] = "access token", a = NewAccess(s),
             UNCHANGED <<role, lastHeld, refreshes, now>>
      PROVE  /\ lastHeld'[a.user][a.role] >= 0
             /\ a.expires <= lastHeld'[a.user][a.role] + AccessTTL + RequestTimeout
             /\ \E t \in refreshes' :
                  BoundTo(a, t) /\ a.expires <= t.expires + AccessTTL + RequestTimeout
  <2>1. /\ a.user = job[s].user /\ a.role = job[s].role /\ a.refresh = job[s].refresh
        /\ a.expires = now + AccessTTL
    BY <1>2 DEF NewAccess
  <2>2. /\ job[s].user \in Users /\ job[s].role \in RoleNames
        /\ lastHeld[job[s].user][job[s].role] >= job[s].since
        /\ now <= job[s].since + RequestTimeout
        /\ \E t \in refreshes : BoundTo(job[s], t) /\ job[s].since <= t.expires
    BY <1>2 DEF TokensInv, JobsSound
  <2>3. job[s].since \in Nat
    BY DEF TokensInv, TypeOK, Job
  <2>4. PICK t \in refreshes : BoundTo(job[s], t) /\ job[s].since <= t.expires
    BY <2>2
  <2>5. lastHeld[job[s].user][job[s].role] \in Int /\ t.expires \in Nat
    BY <1>0, <2>2
  <2>6. a.expires <= t.expires + AccessTTL + RequestTimeout
    BY <1>0, <2>1, <2>2, <2>3, <2>4, <2>5
  <2>7. /\ lastHeld[job[s].user][job[s].role] >= 0
        /\ a.expires <= lastHeld[job[s].user][job[s].role] + AccessTTL + RequestTimeout
    BY <1>0, <2>1, <2>2, <2>3, <2>5
  <2> QED BY <1>2, <2>1, <2>4, <2>6, <2>7
<1> QED BY <1>1, <1>2, NewTokens

\* The history of roles is that of the present ones.
LEMMA HeldInductive == TokensInv /\ [Next]_vars => HeldSound'
<1> SUFFICES ASSUME TokensInv, [Next]_vars PROVE HeldSound'
  OBVIOUS
<1>1. /\ now \in Nat /\ lastHeld \in [Users -> [RoleNames -> Int]]
      /\ role \in [Users -> RoleNames \union {NoRole}] /\ HeldSound
  BY DEF TokensInv, TypeOK
<1>2. CASE UNCHANGED <<role, lastHeld, now>>
  BY <1>1, <1>2 DEF HeldSound
<1>3. CASE Tick
  <2>1. /\ now' = now + 1 /\ role' = role
        /\ lastHeld' = [u \in Users |-> [r \in RoleNames |->
                          IF r = role[u] THEN now' ELSE lastHeld[u][r]]]
    BY <1>3 DEF Tick
  <2>2. \A u \in Users, r \in RoleNames :
          lastHeld'[u][r] = IF r = role[u] THEN now + 1 ELSE lastHeld[u][r]
    BY <2>1
  <2>3. \A u \in Users, r \in RoleNames : lastHeld'[u][r] \in -1..now'
    BY <1>1, <2>1, <2>2 DEF HeldSound
  <2>4. \A u \in Users : HasAccount(u)' => lastHeld'[u][role'[u]] = now'
    BY <1>1, <2>1, <2>2
  <2> QED BY <2>3, <2>4 DEF HeldSound
<1>4. ASSUME NEW u \in Users, NEW r \in RoleNames, SetRole(u, r) PROVE HeldSound'
  <2>1. /\ now' = now /\ role' = [role EXCEPT ![u] = r]
        /\ lastHeld' = [lastHeld EXCEPT ![u][r] = now]
    BY <1>4 DEF SetRole
  <2>2. \A v \in Users, q \in RoleNames :
          lastHeld'[v][q] = IF v = u /\ q = r THEN now ELSE lastHeld[v][q]
    BY <1>1, <2>1
  <2>3. \A v \in Users : role'[v] = IF v = u THEN r ELSE role[v]
    BY <1>1, <2>1
  <2>4. \A v \in Users, q \in RoleNames : lastHeld'[v][q] \in -1..now'
    BY <1>1, <2>1, <2>2 DEF HeldSound
  <2>5. \A v \in Users : HasAccount(v)' => lastHeld'[v][role'[v]] = now'
    BY <1>1, <2>1, <2>2, <2>3 DEF HeldSound
  <2> QED BY <2>4, <2>5 DEF HeldSound
<1>5. ASSUME NEW s \in Sessions, Begins(s) \/ SignAccessToken(s) \/ Reload(s) \/ End(s)
      PROVE  UNCHANGED <<role, lastHeld, now>>
  BY <1>5, Begun, AccessSigned, Reloaded DEF End, account
<1>6. ASSUME NEW s \in Sessions, NEW j \in Jtis, SignRefreshToken(s, j)
      PROVE  UNCHANGED <<role, lastHeld, now>>
  BY <1>6, RefreshSigned
<1>7. SignAnon => UNCHANGED <<role, lastHeld, now>>
  BY AnonSigned
<1> QED BY <1>2, <1>3, <1>4, <1>5, <1>6, <1>7, Actions

HIDE DEF JobSound, OnTime, ReadRole, ReadSession, ReadToken

\* The parts of a request's soundness, one at a time.
LEMMA JobParts ==
  ASSUME NEW x \in Sessions
  PROVE  /\ JobSound(x) <=> OnTime(x) /\ ReadRole(x) /\ ReadSession(x) /\ ReadToken(x)
         /\ JobSound(x)' <=> OnTime(x)' /\ ReadRole(x)' /\ ReadSession(x)' /\ ReadToken(x)'
         /\ TokensInv => OnTime(x) /\ ReadRole(x) /\ ReadSession(x) /\ ReadToken(x)
  BY DEF JobSound, TokensInv, JobsSound

\* The numbers in the locals of a request.
LEMMA JobNumbers ==
  ASSUME TokensInv, NEW x \in Sessions
  PROVE  /\ job[x].since \in Nat /\ now \in Nat /\ RequestTimeout \in Nat /\ RefreshTTL \in Nat
         /\ \A u \in Users, r \in RoleNames : lastHeld[u][r] \in Int
         /\ \A t \in refreshes : t.expires \in Nat
         /\ \A a \in accesses : a.expires \in Nat
  BY Lifetimes DEF TokensInv, TypeOK, Job, RefreshToken, AccessToken

\* A request a step leaves alone stays sound, if it is still on time.
LEMMA JobUntouched ==
  ASSUME TokensInv, [Next]_vars, NEW x \in Sessions,
         pc'[x] = pc[x], job'[x] = job[x],
         pc[x] # "idle" => now' <= job[x].since + RequestTimeout
  PROVE  JobSound(x)'
<1>1. OnTime(x)'
  <2>1. now \in Nat /\ job[x].since \in Nat /\ now' \in {now, now + 1}
    BY JobNumbers, Grows
  <2>2. pc[x] # "idle" => job[x].since <= now
    BY JobParts DEF OnTime
  <2>3. pc[x] # "idle" => job[x].since <= now'
    BY <2>1, <2>2
  <2> QED BY <2>3 DEF OnTime
<1>2. ReadRole(x)'
  <2> SUFFICES ASSUME Signing(x)
               PROVE  /\ job[x].user \in Users /\ job[x].role \in RoleNames
                      /\ lastHeld'[job[x].user][job[x].role] >= job[x].since
    BY DEF ReadRole
  <2>1. /\ job[x].user \in Users /\ job[x].role \in RoleNames
        /\ lastHeld[job[x].user][job[x].role] >= job[x].since
    BY JobParts DEF ReadRole
  <2>2. /\ lastHeld'[job[x].user][job[x].role] \in Int
        /\ lastHeld'[job[x].user][job[x].role] >= lastHeld[job[x].user][job[x].role]
    BY <2>1, Grows
  <2>3. PICK old \in Int : old = lastHeld[job[x].user][job[x].role]
    BY <2>1, JobNumbers
  <2>4. PICK new \in Int : new = lastHeld'[job[x].user][job[x].role]
    BY <2>2
  <2>5. PICK since \in Nat : since = job[x].since
    BY JobNumbers
  <2>6. new \in Int /\ old \in Int /\ since \in Nat /\ new >= old /\ old >= since
    BY <2>1, <2>2, <2>3, <2>4, <2>5
  <2>7. new >= since
    BY ONLY <2>6
  <2> QED BY <2>1, <2>4, <2>5, <2>7
<1>3. ReadSession(x)'
  BY Grows, JobParts DEF ReadSession
<1>4. ReadToken(x)'
  BY Grows, JobParts DEF ReadToken
<1> QED BY <1>1, <1>2, <1>3, <1>4, JobParts

\* One that starts has just read what it claims.
LEMMA JobBegun ==
  ASSUME TokensInv, NEW x \in Sessions, Begins(x)
  PROVE  JobSound(x)'
<1>0. /\ job'[x].since = now
      /\ UNCHANGED <<role, lastHeld, refreshes, accesses, now>>
      /\ \/ /\ pc'[x] = "refresh token"
            /\ job'[x].user \in Users /\ job'[x].role = role[job'[x].user]
            /\ job'[x].role \in RoleNames
         \/ /\ pc'[x] = "reload" /\ job'[x].login = job'[x].refresh
            /\ Named(job'[x])
            /\ \E t \in refreshes : BoundTo(job'[x], t) /\ now < t.expires
         \/ /\ pc'[x] = "acting"
            /\ \E a \in accesses : /\ a.user = job'[x].user /\ a.role = job'[x].role
                                  /\ a.refresh = job'[x].refresh /\ now < a.expires
  BY Begun
<1>1. now \in Nat /\ RequestTimeout \in Nat
  BY JobNumbers
<1>2. job'[x].since <= now' /\ now' <= job'[x].since + RequestTimeout
  <2>1. job'[x].since = now /\ now' = now
    BY <1>0
  <2> QED BY <1>1, <2>1
<1>3. OnTime(x)'
  BY <1>2 DEF OnTime
<1>4. CASE pc'[x] = "refresh token"
  <2>1. /\ job'[x].user \in Users /\ job'[x].role = role[job'[x].user]
        /\ job'[x].role \in RoleNames
    BY <1>0, <1>4
  <2>2. lastHeld'[job'[x].user][job'[x].role] = now
    BY <1>0, <2>1, TokensAssumption DEF HeldSound, TokensInv
  <2>3. lastHeld'[job'[x].user][job'[x].role] >= job'[x].since
    <3>1. job'[x].since = now
      BY <1>0
    <3> QED BY <1>1, <2>2, <3>1
  <2> QED BY <1>3, <1>4, <2>1, <2>3, JobParts DEF ReadRole, ReadSession, ReadToken
<1>5. CASE pc'[x] = "reload"
  <2>1. /\ job'[x].login = job'[x].refresh /\ Named(job'[x])
        /\ \E t \in refreshes : BoundTo(job'[x], t) /\ now < t.expires
    BY <1>0, <1>5
  <2>2. PICK t \in refreshes : BoundTo(job'[x], t) /\ now < t.expires
    BY <2>1
  <2>3. t.expires \in Nat /\ now < t.expires /\ job'[x].since = now
    BY <1>0, <2>2, JobNumbers
  <2>4. job'[x].since <= t.expires
    BY <1>1, <2>3
  <2>5. refreshes' = refreshes
    BY <1>0
  <2> QED BY <1>3, <1>5, <2>1, <2>2, <2>4, <2>5, JobParts DEF ReadRole, ReadSession, ReadToken
<1>6. CASE pc'[x] = "acting"
  <2>1. PICK a \in accesses : /\ a.user = job'[x].user /\ a.role = job'[x].role
                              /\ a.refresh = job'[x].refresh /\ now < a.expires
    BY <1>0, <1>6
  <2>2. a.expires \in Nat /\ now < a.expires /\ job'[x].since = now
    BY <1>0, <2>1, JobNumbers
  <2>3. job'[x].since <= a.expires
    BY <1>1, <2>2
  <2>4. accesses' = accesses
    BY <1>0
  <2> QED BY <1>3, <1>6, <2>1, <2>3, <2>4, JobParts DEF ReadRole, ReadSession, ReadToken
<1> QED BY <1>0, <1>4, <1>5, <1>6

\* One that signs a refresh token is bound to it.
LEMMA JobRefreshSigned ==
  ASSUME TokensInv, NEW x \in Sessions, NEW j \in Jtis, SignRefreshToken(x, j)
  PROVE  JobSound(x)'
<1>0. /\ pc[x] = "refresh token" /\ pc'[x] = "access token"
      /\ job'[x].user = job[x].user /\ job'[x].role = job[x].role
      /\ job'[x].since = job[x].since /\ job'[x].refresh = j /\ job'[x].login = j
      /\ refreshes' = refreshes \union {NewRefresh(x, j)}
      /\ lastHeld' = lastHeld /\ now' = now
  BY RefreshSigned
<1>1. job[x].since <= now /\ now <= job[x].since + RequestTimeout
  BY <1>0, JobParts DEF OnTime
<1>2. OnTime(x)'
  BY <1>0, <1>1 DEF OnTime
<1>3. /\ job[x].user \in Users /\ job[x].role \in RoleNames
      /\ lastHeld[job[x].user][job[x].role] >= job[x].since
  BY <1>0, JobParts DEF ReadRole
<1>4. ReadRole(x)'
  BY <1>0, <1>3 DEF ReadRole
<1>5. /\ NewRefresh(x, j).jti = j /\ NewRefresh(x, j).user = job[x].user
      /\ NewRefresh(x, j).expires = now + RefreshTTL
  BY DEF NewRefresh
<1>6. job[x].since <= now + RefreshTTL
  <2>1. job[x].since \in Nat /\ now \in Nat /\ RefreshTTL \in Nat
    BY JobNumbers
  <2> QED BY <1>1, <2>1
<1>7. \E t \in refreshes' : BoundTo(job'[x], t) /\ job'[x].since <= t.expires
  BY <1>0, <1>5, <1>6
<1>8. Named(job'[x]) /\ job'[x].login = job'[x].refresh
  BY <1>0, <1>3, TokensAssumption
<1>9. ReadSession(x)' /\ ReadToken(x)'
  BY <1>0, <1>7, <1>8 DEF ReadSession, ReadToken
<1> QED BY <1>2, <1>4, <1>9, JobParts

\* One that reloads has the role of now.
LEMMA JobReloaded ==
  ASSUME TokensInv, NEW x \in Sessions, Reload(x)
  PROVE  JobSound(x)'
<1>0. /\ pc[x] = "reload" /\ pc'[x] = "access token"
      /\ job[x].user \in Users /\ role[job[x].user] \in RoleNames
      /\ job'[x].user = job[x].user /\ job'[x].role = role[job[x].user]
      /\ job'[x].since = job[x].since /\ job'[x].refresh = job[x].refresh
      /\ job'[x].login = job[x].login
      /\ UNCHANGED <<role, lastHeld, refreshes, accesses, now>>
  BY Reloaded
<1>1. job[x].since <= now /\ now <= job[x].since + RequestTimeout
  BY <1>0, JobParts DEF OnTime
<1>2. OnTime(x)'
  BY <1>0, <1>1 DEF OnTime
<1>3. lastHeld[job[x].user][role[job[x].user]] = now
  BY <1>0, TokensAssumption DEF HeldSound, TokensInv
<1>4. lastHeld'[job'[x].user][job'[x].role] >= job'[x].since
  <2>1. /\ job[x].since \in Nat /\ now \in Nat
        /\ lastHeld'[job'[x].user][job'[x].role] = now /\ job'[x].since = job[x].since
    BY <1>0, <1>3, JobNumbers
  <2> QED BY <1>1, <2>1
<1>5. ReadRole(x)'
  BY <1>0, <1>4 DEF ReadRole
<1>6. ReadSession(x)
  BY JobParts
<1>7. ReadSession(x)' /\ ReadToken(x)'
  BY <1>0, <1>6 DEF ReadSession, ReadToken
<1> QED BY <1>2, <1>5, <1>7, JobParts

\* One that has ended claims nothing.
LEMMA JobEnded ==
  ASSUME NEW x \in Sessions, pc'[x] = "idle"
  PROVE  JobSound(x)'
  BY JobParts DEF OnTime, ReadRole, ReadSession, ReadToken

\* So every request stays sound.
LEMMA JobsInductive == TokensInv /\ [Next]_vars => JobsSound'
<1> SUFFICES ASSUME TokensInv, [Next]_vars, NEW x \in Sessions PROVE JobSound(x)'
  BY DEF JobsSound
<1>1. CASE pc'[x] = pc[x] /\ job'[x] = job[x] /\ now' = now
  <2>1. pc[x] # "idle" => now' <= job[x].since + RequestTimeout
    BY <1>1, JobParts DEF OnTime
  <2> QED BY <1>1, <2>1, JobUntouched
<1>2. CASE Tick
  <2>1. /\ pc' = pc /\ job' = job /\ now' = now + 1
        /\ pc[x] # "idle" => now < job[x].since + RequestTimeout
    BY <1>2 DEF Tick
  <2>2. now \in Nat /\ job[x].since \in Nat /\ RequestTimeout \in Nat
    BY JobNumbers
  <2>3. pc[x] # "idle" => now' <= job[x].since + RequestTimeout
    BY <2>1, <2>2
  <2> QED BY <2>1, <2>3, JobUntouched
<1>3. ASSUME NEW s \in Sessions, Begins(s) \/ SignAccessToken(s) \/ Reload(s) \/ End(s)
      PROVE  JobSound(x)'
  <2>1. CASE s = x /\ (SignAccessToken(s) \/ End(s))
    <3>1. Return(x)
      BY <2>1, AccessSigned DEF End
    <3>2. TypeOK
      BY DEF TokensInv
    <3> QED BY <3>1, <3>2, Returned, JobEnded
  <2>2. CASE s = x /\ (Begins(s) \/ Reload(s))
    BY <2>2, JobBegun, JobReloaded
  <2>3. CASE s # x
    <3>1. CASE Begins(s) \/ Reload(s)
      <4>1. pc'[x] = pc[x] /\ job'[x] = job[x] /\ now' = now
        <5>1. CASE Begins(s)
          BY <2>3, <5>1, Begun
        <5>2. CASE Reload(s)
          BY <2>3, <5>2, Reloaded
        <5> QED BY <3>1, <5>1, <5>2
      <4> QED BY <1>1, <4>1
    <3>2. CASE SignAccessToken(s) \/ End(s)
      <4>1. Return(s) /\ now' = now
        BY <3>2, AccessSigned DEF End
      <4>2. TypeOK
        BY DEF TokensInv
      <4> QED BY <1>1, <2>3, <4>1, <4>2, Returned
    <3> QED BY <1>3, <3>1, <3>2
  <2> QED BY <1>3, <2>1, <2>2, <2>3
<1>4. ASSUME NEW s \in Sessions, NEW j \in Jtis, SignRefreshToken(s, j) PROVE JobSound(x)'
  <2>1. CASE s = x
    BY <1>4, <2>1, JobRefreshSigned
  <2>2. CASE s # x
    <3>1. /\ \A y \in Sessions \ {s} : pc'[y] = pc[y] /\ job'[y] = job[y]
          /\ now' = now
      BY <1>4, RefreshSigned
    <3>2. x \in Sessions \ {s}
      BY <2>2
    <3> QED BY <1>1, <3>1, <3>2
  <2> QED BY <2>1, <2>2
<1>5. CASE SignAnon \/ \E u \in Users, r \in RoleNames : SetRole(u, r)
  <2>1. pc' = pc /\ job' = job /\ now' = now
    BY <1>5, AnonSigned DEF SetRole
  <2> QED BY <1>1, <2>1
<1>6. CASE UNCHANGED <<role, lastHeld, refreshes, accesses, pc, job, now>>
  BY <1>1, <1>6
<1> QED BY <1>2, <1>3, <1>4, <1>5, <1>6, Actions

-----------------------------------------------------------------------------
(* The theorems.                                                            *)
LEMMA InitSound == Init => TokensInv
<1> SUFFICES ASSUME Init PROVE TokensInv
  OBVIOUS
<1>1. TypeOK
  BY NoJobTyped, TokensAssumption DEF Init, TypeOK, Steps
<1>2. TokensOfOneLogin /\ AccessSound
  BY DEF Init, TokensOfOneLogin, AccessSound
<1>3. JobsSound
  BY DEF Init, JobsSound, JobSound, OnTime, ReadRole, ReadSession, ReadToken
<1>4. HeldSound
  BY TokensAssumption DEF Init, HeldSound
<1> QED BY <1>1, <1>2, <1>3, <1>4 DEF TokensInv

LEMMA StepSound == TokensInv /\ [Next]_vars => TokensInv'
  BY TypeInductive, OneLoginInductive, JobsInductive, AccessInductive, HeldInductive DEF TokensInv

\* The inductive invariant: every token and every request that will sign one has a role
\* its user held when it was read and a session that was alive when it was verified.
THEOREM Invariant == Spec => []TokensInv
<1> QED BY InitSound, StepSound, PTL DEF Spec

\* Every variable has its type.
THEOREM TypeCorrect == Spec => []TypeOK
<1>1. TokensInv => TypeOK
  BY DEF TokensInv
<1> QED BY <1>1, Invariant, PTL

\* No sequence of refreshes, whatever tokens are shown together, makes a token that goes
\* back to another sign-in than the refresh token it names, or to another user's.
THEOREM Lineage == Spec => []TokensOfOneLogin
<1>1. TokensInv => TokensOfOneLogin
  BY DEF TokensInv
<1> QED BY <1>1, Invariant, PTL

\* What a request that acts was admitted with.
LEMMA Acting ==
  ASSUME TokensInv, NEW s \in Sessions, pc[s] = "acting", Named(job[s])
  PROVE  \E a \in accesses : /\ a.user = job[s].user /\ a.role = job[s].role
                             /\ a.refresh = job[s].refresh /\ Named(a)
                             /\ a.expires \in Nat /\ a.user \in Users /\ a.role \in RoleNames
                             /\ now <= a.expires + RequestTimeout
<1>1. PICK a \in accesses : /\ a.user = job[s].user /\ a.role = job[s].role
                            /\ a.refresh = job[s].refresh /\ job[s].since <= a.expires
  BY JobParts DEF ReadToken
<1>2. now <= job[s].since + RequestTimeout
  BY JobParts DEF OnTime
<1>3. a.expires \in Nat /\ job[s].since \in Nat /\ now \in Nat /\ RequestTimeout \in Nat
  BY <1>1, JobNumbers
<1>4. job[s].since <= a.expires
  BY <1>1
<1>5. now <= a.expires + RequestTimeout
  BY <1>2, <1>3, <1>4
<1>6. a \in AccessToken
  BY <1>1 DEF TokensInv, TypeOK
<1> QED BY <1>1, <1>3, <1>5, <1>6 DEF AccessToken

\* A role that was taken away is acted with no longer than an access token lives, one
\* request took to sign it and one to use it.
THEOREM Demotions == Spec => []RoleChangesLand
<1>1. TokensInv => RoleChangesLand
  <2> SUFFICES ASSUME TokensInv, NEW s \in Sessions, pc[s] = "acting", Named(job[s])
               PROVE  LET held == lastHeld[job[s].user][job[s].role]
                      IN held >= 0 /\ now <= held + AccessTTL + 2 * RequestTimeout
    BY DEF RoleChangesLand
  <2>1. PICK a \in accesses : /\ a.user = job[s].user /\ a.role = job[s].role
                              /\ a.refresh = job[s].refresh /\ Named(a)
                              /\ a.expires \in Nat /\ a.user \in Users /\ a.role \in RoleNames
                              /\ now <= a.expires + RequestTimeout
    BY Acting
  <2> DEFINE held == lastHeld[a.user][a.role]
  <2>2. held >= 0 /\ a.expires <= held + AccessTTL + RequestTimeout
    BY <2>1 DEF TokensInv, AccessSound
  <2>3. held \in Int /\ now \in Nat /\ a.expires \in Nat /\ now <= a.expires + RequestTimeout
    BY <2>1, JobNumbers
  <2>4. now <= held + AccessTTL + 2 * RequestTimeout
    <3> HIDE DEF held
    <3>1. AccessTTL \in Nat /\ RequestTimeout \in Nat
      BY TokensAssumption
    <3> QED BY <2>2, <2>3, <3>1
  <2> QED BY <2>1, <2>2, <2>4
<1> QED BY <1>1, Invariant, PTL

\* A session ends: nobody acts in it long after its refresh token expired, however often
\* and with whatever tokens it was refreshed.
THEOREM SessionsAreBounded == Spec => []SessionsEnd
<1>1. TokensInv => SessionsEnd
  <2> SUFFICES ASSUME TokensInv, NEW s \in Sessions, pc[s] = "acting", Named(job[s])
               PROVE  \E t \in refreshes :
                        BoundTo(job[s], t) /\ now <= t.expires + AccessTTL + 2 * RequestTimeout
    BY DEF SessionsEnd
  <2>1. PICK a \in accesses : /\ a.user = job[s].user /\ a.role = job[s].role
                              /\ a.refresh = job[s].refresh /\ Named(a)
                              /\ a.expires \in Nat /\ a.user \in Users /\ a.role \in RoleNames
                              /\ now <= a.expires + RequestTimeout
    BY Acting
  <2>2. PICK t \in refreshes : BoundTo(a, t) /\ a.expires <= t.expires + AccessTTL + RequestTimeout
    BY <2>1 DEF TokensInv, AccessSound
  <2>3. /\ t.expires \in Nat /\ now \in Nat /\ a.expires \in Nat
        /\ now <= a.expires + RequestTimeout /\ a.expires <= t.expires + AccessTTL + RequestTimeout
    BY <2>1, <2>2, JobNumbers
  <2>4. now <= t.expires + AccessTTL + 2 * RequestTimeout
    <3>1. AccessTTL \in Nat /\ RequestTimeout \in Nat
      BY TokensAssumption
    <3> QED BY <2>3, <3>1
  <2>5. BoundTo(job[s], t)
    BY <2>1, <2>2
  <2> QED BY <2>4, <2>5
<1> QED BY <1>1, Invariant, PTL

\* A request that reads the account's role on its way to a token that passes the role
\* route: at a sign-in, or when it reloads the account.
Earns(s, u) == /\ (Begins(s) /\ pc'[s] = "refresh token") \/ Reload(s)
               /\ job'[s].user = u /\ role[u] \in Patchers

\* Nobody else becomes a holder.
LEMMA HoldersCome ==
  ASSUME TokensInv, [Next]_vars, NEW u \in Holders'
  PROVE  u \in Holders \/ \E s \in Sessions : Earns(s, u)
<1>0. u \in Users /\ now \in Nat /\ now' \in Nat /\ now <= now'
  <2>1. u \in Users
    BY DEF Holders
  <2>2. now \in Nat /\ now' \in Nat /\ now' \in {now, now + 1}
    BY Grows DEF TokensInv, TypeOK
  <2> QED BY <2>1, <2>2
<1>1. ASSUME NEW a \in accesses', a.user = u, a.role \in Patchers, now' < a.expires
      PROVE  u \in Holders
  <2>1. Named(a)
    BY <1>0, <1>1, TokensAssumption
  <2>2. CASE a \in accesses
    <3>1. a.expires \in Nat
      BY <2>2 DEF TokensInv, TypeOK, AccessToken
    <3>2. now < a.expires
      BY <1>0, <1>1, <3>1
    <3> QED BY <1>0, <1>1, <2>2, <3>2 DEF Holders
  <2>3. ASSUME NEW s \in Sessions, pc[s] = "access token", a = NewAccess(s)
        PROVE  u \in Holders
    BY <1>0, <1>1, <2>3 DEF NewAccess, Holders
  <2> QED BY <2>1, <2>2, <2>3, NewTokens
<1>2. ASSUME NEW s \in Sessions, Signing(s)', job'[s].user = u, job'[s].role \in Patchers
      PROVE  u \in Holders \/ \E x \in Sessions : Earns(x, u)
  <2>1. CASE pc'[s] = pc[s] /\ job'[s] = job[s]
    BY <1>0, <1>2, <2>1 DEF Holders
  <2>2. ASSUME Begins(s) PROVE Earns(s, u)
    <3>1. pc'[s] \in {"refresh token", "reload", "acting"}
          /\ (pc'[s] = "refresh token" => job'[s].role = role[job'[s].user])
      BY <2>2, Begun
    <3> QED BY <1>2, <2>2, <3>1 DEF Earns
  <2>3. ASSUME Reload(s) PROVE Earns(s, u)
    <3>1. job'[s].user = job[s].user /\ job'[s].role = role[job[s].user]
      BY <2>3, Reloaded
    <3> QED BY <1>2, <2>3, <3>1 DEF Earns
  <2>4. ASSUME NEW j \in Jtis, SignRefreshToken(s, j) PROVE u \in Holders
    <3>1. pc[s] = "refresh token" /\ job'[s].user = job[s].user /\ job'[s].role = job[s].role
      BY <2>4, RefreshSigned
    <3> QED BY <1>0, <1>2, <3>1 DEF Holders
  <2>5. ASSUME SignAccessToken(s) \/ End(s) PROVE FALSE
    <3>1. Return(s) /\ TypeOK
      BY <2>5, AccessSigned DEF End, TokensInv
    <3> QED BY <1>2, <3>1, Returned
  <2>6. ASSUME NEW x \in Sessions, x # s,
               Begins(x) \/ SignAccessToken(x) \/ Reload(x) \/ End(x)
        PROVE  pc'[s] = pc[s] /\ job'[s] = job[s]
    <3>1. CASE Begins(x)
      BY <2>6, <3>1, Begun
    <3>2. CASE Reload(x)
      BY <2>6, <3>2, Reloaded
    <3>3. CASE SignAccessToken(x) \/ End(x)
      <4>1. Return(x) /\ TypeOK
        BY <3>3, AccessSigned DEF End, TokensInv
      <4> QED BY <2>6, <4>1, Returned
    <3> QED BY <2>6, <3>1, <3>2, <3>3
  <2>7. ASSUME NEW x \in Sessions, x # s, NEW j \in Jtis, SignRefreshToken(x, j)
        PROVE  pc'[s] = pc[s] /\ job'[s] = job[s]
    <3>1. \A y \in Sessions \ {x} : pc'[y] = pc[y] /\ job'[y] = job[y]
      BY <2>7, RefreshSigned
    <3>2. s \in Sessions \ {x}
      BY <2>7
    <3> QED BY <3>1, <3>2
  <2>8. ASSUME \/ Tick \/ SignAnon \/ \E v \in Users, r \in RoleNames : SetRole(v, r)
               \/ UNCHANGED <<role, lastHeld, refreshes, accesses, pc, job, now>>
        PROVE  pc'[s] = pc[s] /\ job'[s] = job[s]
    BY <2>8, AnonSigned DEF Tick, SetRole
  <2> QED BY <2>1, <2>2, <2>3, <2>4, <2>5, <2>6, <2>7, <2>8, Actions
<1> QED BY <1>1, <1>2 DEF Holders

\* Whoever earns a hold gets it, and nobody loses theirs at that step.
LEMMA HoldersStay ==
  ASSUME TokensInv, NEW s \in Sessions, NEW u \in Users, Earns(s, u)
  PROVE  /\ Holders \union {u} \subseteq Holders'
         /\ \A x \in Sessions \ {s} : pc'[x] = pc[x] /\ job'[x] = job[x]
<1>1. /\ ~Signing(s) /\ Signing(s)' /\ job'[s].user = u /\ job'[s].role = role[u]
      /\ role[u] \in Patchers
      /\ \A x \in Sessions \ {s} : pc'[x] = pc[x] /\ job'[x] = job[x]
      /\ UNCHANGED <<accesses, now>>
  <2>1. CASE Begins(s) /\ pc'[s] = "refresh token"
    BY <2>1, Begun DEF Earns
  <2>2. CASE Reload(s)
    BY <2>2, Reloaded DEF Earns
  <2> QED BY <2>1, <2>2 DEF Earns
<1>2. u \in Holders'
  BY <1>1 DEF Holders
<1>3. ASSUME NEW v \in Holders PROVE v \in Holders'
  <2>1. CASE \E a \in accesses : a.user = v /\ a.role \in Patchers /\ now < a.expires
    BY <1>1, <1>3, <2>1 DEF Holders
  <2>2. ASSUME NEW x \in Sessions, Signing(x), job[x].user = v, job[x].role \in Patchers
        PROVE  v \in Holders'
    <3>1. x # s
      BY <1>1, <2>2
    <3>2. Signing(x)' /\ job'[x] = job[x]
      BY <1>1, <2>2, <3>1
    <3> QED BY <1>3, <2>2, <3>2 DEF Holders
  <2> QED BY <1>3, <2>1, <2>2 DEF Holders
<1> QED BY <1>1, <1>2, <1>3

\* Somebody gets a hold on the role route only while their account has a role that grants
\* it, by a step that takes nobody else's away: what Roles.tla takes for granted of tokens.
THEOREM HoldersEarned == Spec => HoldersHaveRole
<1>1. ASSUME TokensInv, [Next]_vars
      PROVE  Holders' \subseteq Holders \/ \E u \in Users : Gains(u)
  <2>1. CASE \A s \in Sessions, u \in Users : ~Earns(s, u)
    <3>1. Holders' \subseteq Users
      BY DEF Holders
    <3> QED BY <1>1, <2>1, <3>1, HoldersCome
  <2>2. ASSUME NEW s \in Sessions, NEW u \in Users, Earns(s, u) PROVE Gains(u)
    <3>1. /\ Holders \union {u} \subseteq Holders'
          /\ \A x \in Sessions \ {s} : pc'[x] = pc[x] /\ job'[x] = job[x]
      BY <1>1, <2>2, HoldersStay
    <3>2. ASSUME NEW v \in Holders', NEW x \in Sessions, Earns(x, v) PROVE v = u
      <4>1. v \in Users
        BY DEF Holders
      <4>2. \A y \in Sessions \ {x} : pc'[y] = pc[y] /\ job'[y] = job[y]
        BY <1>1, <3>2, <4>1, HoldersStay
      <4>3. pc'[x] # pc[x]
        BY <1>1, <3>2, Begun, Reloaded DEF Earns
      <4>4. x = s
        BY <3>1, <4>3
      <4> QED BY <2>2, <3>2, <4>4 DEF Earns
    <3>3. Holders' \subseteq Holders \union {u}
      BY <1>1, <3>2, HoldersCome
    <3> QED BY <2>2, <3>1, <3>3 DEF Gains, Earns
  <2> QED BY <2>1, <2>2
<1>2. TokensInv /\ [Next]_vars => [Holders' \subseteq Holders \/ \E u \in Users : Gains(u)]_vars
  BY <1>1
<1> QED BY <1>2, Invariant, PTL DEF Spec, HoldersHaveRole
=============================================================================
