--------------------------- MODULE RequestsProofs ---------------------------
(* Proofs about Requests, for any number of requests, any routes and any    *)
(* size of the pool.                                                        *)
EXTENDS Requests, TLAPS

USE DEF Goto, Running

\* What ServerErrorsExplained accepts of a request of route k that was overtaken or not.
Cause(e, k, late) ==
  \/ e = "fault"
  \/ e = "token error" /\ TakesToken(k)
  \/ e = "no account" /\ k = "changePassword"
  \/ e = "expired code" /\ k \in {"register", "updateEmail"}
  \/ e \in {"code gone", "code exists"} /\ late

\* What AnswersTruthful and ServerErrorsExplained say of r if it is answered with e.
Outcome(r, e) ==
  /\ Answer(route[r], e) = "2xx" /\ Writing(route[r]) /\ e = "ok" => r \in committed
  /\ Answer(route[r], e) = "4xx" => r \notin committed
  /\ Answer(route[r], e) = "5xx" => Cause(e, route[r], r \in overtaken)

LEMMA MineIsUsage == \A r \in Requests : Mine(r) \in Usages /\ Mine(r) \in Rows /\ Account \in Rows
  BY DEF Mine, Usage, Usages, Rows

\* Every action takes a typed state to a typed state.
LEMMA TypeInductive == TypeOK /\ [Next]_vars => TypeOK'
<1> SUFFICES ASSUME TypeOK, [Next]_vars PROVE TypeOK'
  OBVIOUS
<1> USE RequestsAssumption DEF TypeOK, Steps, Standalone, InTx, Results
<1>1. ASSUME NEW r \in Requests, NEW e \in Results, Return(r, e)
      PROVE  /\ at' \in [Requests -> Steps] /\ result' \in [Requests -> Results]
             /\ holding' \subseteq Requests /\ lock' \in [Rows -> Requests \union {Nobody}]
  BY <1>1 DEF Return, Release
<1>b. ASSUME NEW r \in Requests, NEW step \in Steps, Goto(r, step), Release(r), UNCHANGED result
      PROVE  /\ at' \in [Requests -> Steps] /\ result' \in [Requests -> Results]
             /\ holding' \subseteq Requests /\ lock' \in [Rows -> Requests \union {Nobody}]
  BY <1>b DEF Release
<1>c. ASSUME NEW r \in Requests, NEW step \in Steps, Goto(r, step),
             UNCHANGED <<holding, lock, result>>
      PROVE  /\ at' \in [Requests -> Steps] /\ result' \in [Requests -> Results]
             /\ holding' \subseteq Requests /\ lock' \in [Rows -> Requests \union {Nobody}]
  BY <1>c
<1>2. ASSUME NEW r \in Requests, NEW k \in Routes, Arrive(r, k) PROVE TypeOK'
  BY <1>2 DEF Arrive, rows, history
<1>3. ASSUME NEW r \in Requests, Admit(r) PROVE TypeOK'
  BY <1>1, <1>3 DEF Admit, First, Refusals, history
<1>4. ASSUME NEW r \in Requests, Connect(r) PROVE TypeOK'
  BY <1>4 DEF Connect, Body, rows, history
<1>5. ASSUME NEW r \in Requests, Read(r) PROVE TypeOK'
  <2>1. AfterRead(route[r]) \in Steps /\ ReadErrors(route[r]) \subseteq Results
    BY DEF AfterRead, ReadErrors
  <2>2. UNCHANGED <<route, saw, live, committed, overtaken>>
    BY <1>5 DEF Read, history
  <2>3. /\ at' \in [Requests -> Steps] /\ result' \in [Requests -> Results]
        /\ holding' \subseteq Requests /\ lock' \in [Rows -> Requests \union {Nobody}]
    <3>1. CASE Goto(r, AfterRead(route[r])) /\ Release(r) /\ UNCHANGED result
      BY <1>b, <2>1, <3>1
    <3>2. ASSUME NEW e \in Results, Return(r, e)
          PROVE  /\ at' \in [Requests -> Steps] /\ result' \in [Requests -> Results]
                 /\ holding' \subseteq Requests /\ lock' \in [Rows -> Requests \union {Nobody}]
      BY <1>1, <3>2
    <3> QED BY <1>5, <2>1, <3>1, <3>2 DEF Read
  <2> QED BY <2>2, <2>3
<1>6. ASSUME NEW r \in Requests, Rank(r) PROVE TypeOK'
  BY <1>1, <1>b, <1>6 DEF Rank, history
<1>7. ASSUME NEW r \in Requests, SetRole(r) PROVE TypeOK'
  BY <1>1, <1>7 DEF SetRole
<1>8. ASSUME NEW r \in Requests, Discard(r) PROVE TypeOK'
  BY <1>8, MineIsUsage DEF Discard, history
<1>a. ASSUME NEW r \in Requests, NEW row \in Rows, lock' = [lock EXCEPT ![row] = r],
             NEW step \in Steps, Goto(r, step), UNCHANGED <<holding, result>>
      PROVE  /\ at' \in [Requests -> Steps] /\ UNCHANGED result
             /\ holding' \subseteq Requests /\ lock' \in [Rows -> Requests \union {Nobody}]
  BY <1>a
<1>9. ASSUME NEW r \in Requests, InsertCode(r) PROVE TypeOK'
  BY <1>1, <1>a, <1>9, MineIsUsage DEF InsertCode, history
<1>10. ASSUME NEW r \in Requests, FindCode(r) PROVE TypeOK'
  BY <1>1, <1>10, MineIsUsage DEF FindCode, history
<1>11. ASSUME NEW r \in Requests, TakeCode(r) PROVE TypeOK'
  BY <1>1, <1>a, <1>11, MineIsUsage DEF TakeCode, history
<1>12. ASSUME NEW r \in Requests, Compare(r) PROVE TypeOK'
  BY <1>1, <1>c, <1>12 DEF Compare, history
<1>13. ASSUME NEW r \in Requests, Write(r) PROVE TypeOK'
  <2>1. UNCHANGED <<route, saw, live, committed, overtaken>>
    BY <1>13 DEF Write, history
  <2>2. CASE Goto(r, "commit") /\ UNCHANGED <<holding, lock, result>>
    BY <1>c, <2>1, <2>2
  <2>3. CASE /\ Goto(r, "commit") /\ UNCHANGED <<holding, result>>
             /\ lock' = [lock EXCEPT ![Account] = r]
    BY <1>a, <2>1, <2>3, MineIsUsage
  <2>4. ASSUME NEW e \in WriteErrors(route[r]), Return(r, e) PROVE TypeOK'
    <3>1. e \in Results
      BY DEF WriteErrors
    <3> QED BY <1>1, <2>1, <2>4, <3>1
  <2> QED BY <1>13, <2>2, <2>3, <2>4 DEF Write
<1>14. ASSUME NEW r \in Requests, Publish(r)
       PROVE  /\ live' \in [Usages -> Requests \union {NoCode}] /\ UNCHANGED <<route, saw>>
              /\ committed' \subseteq Requests /\ overtaken' \subseteq Requests
  <2>1. Reading(Mine(r)) \subseteq Requests
    BY DEF Reading
  <2>2. live' \in [Usages -> Requests \union {NoCode}] /\ UNCHANGED <<route, saw>>
    BY <1>14 DEF Publish
  <2>3. committed' \subseteq Requests /\ overtaken' \subseteq Requests
    BY <1>14, <2>1 DEF Publish
  <2> QED BY <2>2, <2>3
<1>15. ASSUME NEW r \in Requests, Commit(r) PROVE TypeOK'
  <2>1. CASE Return(r, "ok")
    BY <1>1, <1>14, <1>15, <2>1 DEF Commit
  <2>2. CASE Goto(r, "call") /\ Release(r) /\ UNCHANGED result
    BY <1>b, <1>14, <1>15, <2>2 DEF Commit
  <2> QED BY <1>15, <2>1, <2>2 DEF Commit
<1>16. ASSUME NEW r \in Requests, CommitUnheard(r) PROVE TypeOK'
  BY <1>1, <1>14, <1>16 DEF CommitUnheard
<1>17. ASSUME NEW r \in Requests, Call(r) \/ Fail(r) \/ ProbeFails(r) PROVE TypeOK'
  <2>1. UNCHANGED <<route, saw, live, committed, overtaken>>
    BY <1>17 DEF Call, Fail, ProbeFails, history
  <2>2. CASE Return(r, "ok") \/ Return(r, "fault")
    BY <1>1, <2>1, <2>2
  <2>3. CASE Goto(r, "call") /\ Release(r) /\ UNCHANGED result
    BY <1>b, <2>1, <2>3
  <2> QED BY <1>17, <2>2, <2>3 DEF Call, Fail, ProbeFails
<1>18. CASE UNCHANGED vars
  BY <1>18 DEF vars, rows, history
<1> QED BY <1>2, <1>3, <1>4, <1>5, <1>6, <1>7, <1>8, <1>9, <1>10, <1>11, <1>12, <1>13, <1>15,
           <1>16, <1>17, <1>18 DEF Next, Step

-----------------------------------------------------------------------------
(* The invariant, by the three kinds of steps: a request returns, goes on,  *)
(* or publishes what it has written.                                        *)
LEMMA ReturnKeeps ==
  ASSUME RequestsInv, TypeOK', NEW r \in Requests, NEW e \in Results, Return(r, e),
         at[r] # "answered", UNCHANGED <<route, live, committed, overtaken>>,
         \A q \in committed \union (Requests \ {r}) : saw'[q] = saw[q],
         Outcome(r, e)
  PROVE  RequestsInv'
<1>1. /\ at'[r] = "answered" /\ result'[r] = e /\ r \notin holding'
      /\ \A q \in Requests \ {r} : /\ at'[q] = at[q] /\ result'[q] = result[q]
                                   /\ q \in holding' <=> q \in holding
      /\ \A row \in Rows : lock'[row] = IF lock[row] = r THEN Nobody ELSE lock[row]
      /\ holding' \subseteq Requests
  BY DEF Return, Release, RequestsInv, TypeOK
<1>2. HoldersNeverWait'
  BY <1>1 DEF RequestsInv, HoldersNeverWait
<1>3. LockSound'
  <2> SUFFICES ASSUME NEW row \in Rows, lock'[row] # Nobody
               PROVE  /\ at'[lock'[row]] \in {"write", "commit"}
                      /\ row \in Usages => /\ Usage(route'[lock'[row]]) = row
                                           /\ Coded(route'[lock'[row]])
    BY DEF LockSound, Mine
  <2>1. lock'[row] = lock[row] /\ lock[row] # r /\ lock[row] \in Requests
    BY <1>1 DEF RequestsInv, TypeOK
  <2> QED BY <1>1, <2>1 DEF RequestsInv, LockSound, Mine
<1>4. LiveSound'
  <2>1. IssuedCodes' = IssuedCodes /\ SpentCodes' = SpentCodes
    BY DEF IssuedCodes, SpentCodes
  <2> QED BY <2>1 DEF RequestsInv, LiveSound, Mine
<1>5. ASSUME NEW q \in Requests PROVE RequestSound(q)'
  <2>1. CASE q = r
    BY <1>1, <2>1 DEF RequestsInv, RequestSound, RouteOfStep, InTxHolds, InTx, HasCode, ReadSound,
                      CommittedSound
  <2>2. CASE q # r
    <3>1. RequestSound(q) /\ at'[q] = at[q] /\ (q \in holding' <=> q \in holding)
      BY <1>1, <2>2 DEF RequestsInv
    <3>2. lock[Mine(q)] = q => lock'[Mine(q)] = q
      BY <1>1, <2>2, MineIsUsage
    <3>3. UNCHANGED <<route, live, committed, overtaken>> /\ saw'[q] = saw[q]
      BY <2>2
    <3>4. HasCode(q)'
      BY <3>1, <3>2, <3>3 DEF RequestSound, HasCode, Mine
    <3>5. ReadSound(q)' /\ CommittedSound(q)'
      BY <3>1, <3>3 DEF RequestSound, ReadSound, CommittedSound, Mine
    <3>6. RouteOfStep(q)' /\ InTxHolds(q)'
      BY <3>1, <3>3 DEF RequestSound, RouteOfStep, InTxHolds
    <3> QED BY <3>4, <3>5, <3>6 DEF RequestSound
  <2> QED BY <2>1, <2>2
<1>6. ASSUME NEW q \in Requests
      PROVE  /\ Answered(q, "2xx")' /\ Writing(route'[q]) /\ result'[q] = "ok" => q \in committed'
             /\ Answered(q, "4xx")' => q \notin committed'
             /\ Answered(q, "5xx")' => Cause(result'[q], route'[q], q \in overtaken')
  <2>1. CASE q = r
    BY <1>1, <2>1 DEF Outcome, Answered
  <2>2. CASE q # r
    BY <1>1, <2>2 DEF RequestsInv, AnswersTruthful, ServerErrorsExplained, Answered, Cause
  <2> QED BY <2>1, <2>2
<1> QED BY <1>2, <1>3, <1>4, <1>5, <1>6
        DEF RequestsInv, AnswersTruthful, ServerErrorsExplained, Cause

\* A step inside the service, which may write a row, or read one.
LEMMA GoesOnKeeps ==
  ASSUME RequestsInv, TypeOK', NEW r \in Requests, NEW step \in Steps,
         at' = [at EXCEPT ![r] = step], at[r] # "answered", step # "answered",
         r \notin committed, UNCHANGED <<live, committed, overtaken, result>>,
         \A q \in Requests \ {r} : /\ route'[q] = route[q] /\ saw'[q] = saw[q]
                                   /\ q \in holding' <=> q \in holding,
         \A row \in Rows : \/ lock'[row] = lock[row]
                           \/ lock'[row] = Nobody /\ lock[row] = r
                           \/ lock'[row] = r /\ lock[row] = Nobody,
         r \in holding' => step \in Standalone \union InTx,
         \A row \in Rows : lock'[row] = r =>
           /\ step \in {"write", "commit"}
           /\ row \in Usages => Mine(r)' = row /\ Coded(route'[r]),
         RequestSound(r)'
  PROVE  RequestsInv'
<1>1. at'[r] = step /\ \A q \in Requests \ {r} : at'[q] = at[q]
  BY DEF RequestsInv, TypeOK
<1>2. HoldersNeverWait'
  <2> SUFFICES ASSUME NEW q \in holding' PROVE at'[q] \in Standalone \union InTx
    BY DEF HoldersNeverWait
  <2>1. q \in Requests
    BY DEF TypeOK
  <2> QED BY <1>1, <2>1 DEF RequestsInv, HoldersNeverWait
<1>3. LockSound'
  <2> SUFFICES ASSUME NEW row \in Rows, lock'[row] # Nobody
               PROVE  /\ at'[lock'[row]] \in {"write", "commit"}
                      /\ row \in Usages => /\ Usage(route'[lock'[row]]) = row
                                           /\ Coded(route'[lock'[row]])
    BY DEF LockSound, Mine
  <2>1. CASE lock'[row] = r
    BY <1>1, <2>1 DEF Mine
  <2>2. CASE lock'[row] # r
    <3>1. lock'[row] = lock[row] /\ lock[row] \in Requests \ {r}
      BY <2>2 DEF RequestsInv, TypeOK
    <3>2. at'[lock[row]] = at[lock[row]] /\ route'[lock[row]] = route[lock[row]]
      BY <1>1, <3>1
    <3> QED BY <3>1, <3>2 DEF RequestsInv, LockSound, Mine
  <2> QED BY <2>1, <2>2
<1>4. LiveSound'
  <2>1. \A q \in committed : q \in Requests /\ route'[q] = route[q] /\ saw'[q] = saw[q]
    BY DEF RequestsInv, TypeOK
  <2>2. IssuedCodes' = IssuedCodes /\ SpentCodes' = SpentCodes
    BY <2>1 DEF IssuedCodes, SpentCodes
  <2>3. \A c \in IssuedCodes : Mine(c)' = Mine(c)
    BY <2>1 DEF IssuedCodes, Mine
  <2> QED BY <2>2, <2>3 DEF RequestsInv, LiveSound
<1>5. ASSUME NEW q \in Requests PROVE RequestSound(q)'
  <2>1. CASE q # r
    <3>1. RequestSound(q) /\ at'[q] = at[q] /\ (q \in holding' <=> q \in holding)
      BY <1>1, <2>1 DEF RequestsInv
    <3>2. lock[Mine(q)] = q => lock'[Mine(q)] = q
      BY <2>1, MineIsUsage, RequestsAssumption
    <3>3. route'[q] = route[q] /\ saw'[q] = saw[q] /\ Mine(q)' = Mine(q)
      BY <2>1 DEF Mine
    <3>4. HasCode(q)'
      BY <3>1, <3>2, <3>3 DEF RequestSound, HasCode
    <3>5. ReadSound(q)' /\ CommittedSound(q)'
      BY <3>1, <3>3 DEF RequestSound, ReadSound, CommittedSound
    <3>6. RouteOfStep(q)' /\ InTxHolds(q)'
      BY <3>1, <3>3 DEF RequestSound, RouteOfStep, InTxHolds
    <3> QED BY <3>4, <3>5, <3>6 DEF RequestSound
  <2> QED BY <2>1
<1>6. ASSUME NEW q \in Requests, NEW class \in {"2xx", "4xx", "5xx"}, Answered(q, class)'
      PROVE  Answered(q, class) /\ result'[q] = result[q] /\ route'[q] = route[q]
  BY <1>1, <1>6 DEF Answered
<1>7. AnswersTruthful' /\ ServerErrorsExplained'
  BY <1>6 DEF RequestsInv, AnswersTruthful, ServerErrorsExplained
<1> QED BY <1>2, <1>3, <1>4, <1>5, <1>7 DEF RequestsInv

\* A commit: whoever has read the row of the code is overtaken.
LEMMA PublishKeeps ==
  ASSUME RequestsInv, TypeOK', NEW r \in Requests, Release(r),
         \/ Publish(r)
         \/ at[r] = "set role" /\ committed' = committed \union {r}
            /\ UNCHANGED <<route, saw, live, overtaken>>,
         at'[r] \in {"call", "answered"},
         \A q \in Requests \ {r} : at'[q] = at[q] /\ result'[q] = result[q],
         at'[r] = "call" => route[r] = "register",
         at'[r] = "answered" => result'[r] \in {"ok", "fault"}
  PROVE  RequestsInv'
<1> DEFINE u == Mine(r)
<1>1. /\ at[r] \in {"commit", "set role"} /\ Writing(route[r]) /\ r \notin committed
      /\ Coded(route[r]) => lock[u] = r
      /\ route[r] \in Redemptions => saw[r] = live[u] /\ saw[r] # NoCode
  BY DEF Publish, RequestsInv, RequestSound, RouteOfStep, HasCode, CommittedSound, Coded,
         Transactional, Writing, Asks, Redemptions
<1>2. /\ UNCHANGED <<route, saw>> /\ committed' = committed \union {r}
      /\ Coded(route[r]) =>
           /\ live' = [live EXCEPT ![u] = IF route[r] \in Asks THEN r ELSE NoCode]
           /\ overtaken' = overtaken \union Reading(u)
      /\ ~Coded(route[r]) => UNCHANGED <<live, overtaken>>
  BY DEF Publish, Coded, RequestsInv, RequestSound, RouteOfStep, Asks, Redemptions
<1>3. /\ r \notin holding' /\ \A q \in Requests \ {r} : q \in holding' <=> q \in holding
      /\ \A row \in Rows : lock'[row] = IF lock[row] = r THEN Nobody ELSE lock[row]
  BY DEF Release, RequestsInv, TypeOK
<1>4. HoldersNeverWait'
  <2> SUFFICES ASSUME NEW q \in holding' PROVE at'[q] \in Standalone \union InTx
    BY DEF HoldersNeverWait
  <2>1. q \in Requests \ {r}
    BY <1>3 DEF TypeOK
  <2> QED BY <1>3, <2>1 DEF RequestsInv, HoldersNeverWait
<1>5. LockSound'
  <2> SUFFICES ASSUME NEW row \in Rows, lock'[row] # Nobody
               PROVE  /\ at'[lock'[row]] \in {"write", "commit"}
                      /\ row \in Usages => /\ Usage(route'[lock'[row]]) = row
                                           /\ Coded(route'[lock'[row]])
    BY DEF LockSound, Mine
  <2>1. lock'[row] = lock[row] /\ lock[row] # r /\ lock[row] \in Requests
    BY <1>3 DEF RequestsInv, TypeOK
  <2> QED BY <1>2, <2>1 DEF RequestsInv, LockSound, Mine
<1>6. LiveSound'
  <2>1. CASE route[r] \in Asks
    <3>1. IssuedCodes' = IssuedCodes \union {r} /\ SpentCodes' = SpentCodes /\ r \notin IssuedCodes
      <4>1. route[r] \notin Redemptions
        BY <2>1 DEF Asks, Redemptions
      <4>2. SpentCodes' = SpentCodes
        BY <1>2, <4>1 DEF SpentCodes
      <4> QED BY <1>1, <1>2, <2>1, <4>2 DEF IssuedCodes
    <3>2. u \in Usages /\ live'[u] = r /\ \A v \in Usages \ {u} : live'[v] = live[v]
      BY <1>2, <2>1, MineIsUsage DEF Coded, RequestsInv, TypeOK
    <3>3. SpentCodes' \subseteq IssuedCodes' /\ r \notin SpentCodes'
      BY <3>1 DEF RequestsInv, LiveSound
    <3>4. ASSUME NEW v \in Usages, live'[v] # NoCode
          PROVE  live'[v] \in IssuedCodes' \ SpentCodes' /\ Usage(route'[live'[v]]) = v
      <4>1. CASE v = u
        BY <1>2, <3>1, <3>2, <3>3, <4>1 DEF Mine
      <4>2. CASE v # u
        BY <1>2, <3>1, <3>2, <3>4, <4>2 DEF RequestsInv, LiveSound, Mine
      <4> QED BY <4>1, <4>2
    <3> QED BY <3>3, <3>4 DEF LiveSound, Mine
  <2>2. CASE route[r] \in Redemptions
    <3>1. IssuedCodes' = IssuedCodes /\ SpentCodes' = SpentCodes \union {live[u]}
      <4>1. route[r] \notin Asks
        BY <2>2 DEF Asks, Redemptions
      <4>2. IssuedCodes' = IssuedCodes
        BY <1>2, <4>1 DEF IssuedCodes
      <4>3. SpentCodes' = SpentCodes \union {saw[r]}
        BY <1>2, <2>2 DEF SpentCodes
      <4> QED BY <1>1, <2>2, <4>2, <4>3
    <3>2. u \in Usages /\ live'[u] = NoCode /\ \A v \in Usages \ {u} : live'[v] = live[v]
      BY <1>2, <2>2, MineIsUsage DEF Coded, RequestsInv, TypeOK, Asks, Redemptions
    <3>3. live[u] # NoCode /\ live[u] \in IssuedCodes /\ Mine(live[u]) = u
      BY <1>1, <2>2, <3>2 DEF RequestsInv, LiveSound
    <3>4. SpentCodes' \subseteq IssuedCodes'
      BY <3>1, <3>3 DEF RequestsInv, LiveSound
    <3>5. ASSUME NEW v \in Usages, live'[v] # NoCode
          PROVE  live'[v] \in IssuedCodes' \ SpentCodes' /\ Usage(route'[live'[v]]) = v
      <4>1. v # u /\ live'[v] = live[v]
        BY <3>2, <3>5
      <4>2. live[v] \in IssuedCodes \ SpentCodes /\ Mine(live[v]) = v
        BY <3>5, <4>1 DEF RequestsInv, LiveSound
      <4>3. Usage(route'[live[v]]) = v /\ live[v] # live[u]
        BY <1>2, <3>3, <4>1, <4>2 DEF Mine
      <4> QED BY <3>1, <4>1, <4>2, <4>3 DEF Mine
    <3> QED BY <3>4, <3>5 DEF LiveSound, Mine
  <2>3. CASE ~Coded(route[r])
    <3>1. IssuedCodes' = IssuedCodes /\ SpentCodes' = SpentCodes /\ UNCHANGED live
      BY <1>2, <2>3 DEF IssuedCodes, SpentCodes, Coded
    <3> QED BY <1>2, <3>1 DEF RequestsInv, LiveSound, Mine
  <2> QED BY <2>1, <2>2, <2>3 DEF Coded
<1>7. ASSUME NEW q \in Requests PROVE RequestSound(q)'
  <2>1. CASE q = r
    BY <1>1, <1>2, <2>1 DEF RequestSound, RouteOfStep, InTxHolds, InTx, HasCode, ReadSound,
                            CommittedSound, Writing, Transactional, Coded, Redemptions
  <2>2. CASE q # r
    <3>1. /\ RequestSound(q) /\ at'[q] = at[q] /\ (q \in holding' <=> q \in holding)
          /\ (q \in committed' <=> q \in committed) /\ Mine(q)' = Mine(q)
      BY <1>2, <1>3, <2>2 DEF RequestsInv, Mine
    <3>2. lock[Mine(q)] = q => lock'[Mine(q)] = q
      BY <1>3, <2>2, MineIsUsage
    <3>3. HasCode(q)'
      <4>1. lock[Mine(q)] = q => live'[Mine(q)] = live[Mine(q)]
        BY <1>1, <1>2, <2>2, MineIsUsage DEF RequestsInv, TypeOK
      <4> QED BY <1>2, <3>1, <3>2, <4>1 DEF RequestSound, HasCode
    <3>4. ReadSound(q)'
      <4>1. \/ live'[Mine(q)] = live[Mine(q)] /\ overtaken \subseteq overtaken'
            \/ at[q] \in {"insert code", "take code"} => q \in overtaken'
        BY <1>2, MineIsUsage DEF RequestsInv, TypeOK, Reading
      <4> QED BY <1>2, <3>1, <4>1 DEF RequestSound, ReadSound
    <3> QED BY <1>2, <3>1, <3>3, <3>4 DEF RequestSound, RouteOfStep, InTxHolds, CommittedSound
  <2> QED BY <2>1, <2>2
<1>8. overtaken \subseteq overtaken'
  BY <1>2
<1>9. ASSUME NEW q \in Requests
      PROVE  /\ Answered(q, "2xx")' /\ Writing(route'[q]) /\ result'[q] = "ok" => q \in committed'
             /\ Answered(q, "4xx")' => q \notin committed'
             /\ Answered(q, "5xx")' => Cause(result'[q], route'[q], q \in overtaken')
  <2>1. CASE q = r
    <3>1. Answer(route[r], "ok") = "2xx" /\ Answer(route[r], "fault") = "5xx"
      BY DEF Answer, ErrMap, Concealed
    <3> QED BY <1>2, <2>1, <3>1 DEF Answered, Cause
  <2>2. CASE q # r
    BY <1>2, <1>8, <2>2
       DEF RequestsInv, AnswersTruthful, ServerErrorsExplained, Answered, Cause
  <2> QED BY <2>1, <2>2
<1> QED BY <1>4, <1>5, <1>6, <1>7, <1>9
        DEF RequestsInv, AnswersTruthful, ServerErrorsExplained, Cause

-----------------------------------------------------------------------------
(* The errors and their answers.                                            *)
USE DEF Writing, Transactional, Coded, Asks, Redemptions

\* A request that has not committed may return any error its handler has an answer for,
\* or the property a cause.
LEMMA OutcomeOfError ==
  ASSUME NEW r \in Requests, NEW e \in Results \ {"ok"}, r \notin committed,
         \/ e \in {"unchanged", "rejected"} \union Concealed(route[r]) \union ErrMap(route[r])
         \/ Cause(e, route[r], r \in overtaken)
  PROVE  Outcome(r, e)
<1>1. CASE e \in {"unchanged", "rejected"} \union Concealed(route[r]) \union ErrMap(route[r])
  <2>1. Answer(route[r], e) # "5xx"
    BY <1>1 DEF Answer
  <2> QED BY <2>1, Zenon DEF Outcome
<1>2. CASE Cause(e, route[r], r \in overtaken)
  BY <1>2, Zenon DEF Outcome
<1> QED BY <1>1, <1>2

LEMMA OutcomeOfMapped ==
  ASSUME NEW r \in Requests, NEW e \in ErrMap(route[r]), r \notin committed
  PROVE  Outcome(r, e)
<1>1. ASSUME NEW k, NEW x \in ErrMap(k)
      PROVE  x \in {"no code", "wrong code", "expired code", "address taken", "wrong password",
                   "no account", "account gone", "rank"}
  BY <1>1 DEF ErrMap
<1>2. e \in Results \ {"ok"}
  BY <1>1 DEF Results
<1> QED BY <1>2, OutcomeOfError

LEMMA OutcomeOfOk ==
  ASSUME NEW r \in Requests, Writing(route[r]) => r \in committed
  PROVE  Outcome(r, "ok")
<1>1. Answer(route[r], "ok") = "2xx"
  BY DEF Answer, Concealed, ErrMap
<1>2. Answer(route[r], "ok") # "4xx" /\ Answer(route[r], "ok") # "5xx"
  BY <1>1
<1> QED BY <1>2, Zenon DEF Outcome, Writing, Transactional, Coded

LEMMA OutcomeOfFault == ASSUME NEW r \in Requests PROVE Outcome(r, "fault")
  BY DEF Outcome, Cause, Answer, ErrMap, Concealed

\* Nobody has committed before the call or the answer, and a row is held from the write on.
LEMMA BeforeCommit ==
  ASSUME RequestsInv, NEW r \in Requests
  PROVE  /\ TypeOK
         /\ at[r] \notin {"call", "answered"} => r \notin committed
         /\ at[r] \notin {"write", "commit"} => \A row \in Rows : lock[row] # r
         /\ RequestSound(r)
         /\ r \in holding => at[r] \in Standalone \union InTx
<1>1. \A row \in Rows : lock[row] = r => lock[row] # Nobody
  BY RequestsAssumption
<1>2. RequestSound(r)
  BY DEF RequestsInv
<1>3. at[r] \notin {"write", "commit"} => \A row \in Rows : lock[row] # r
  BY <1>1 DEF RequestsInv, LockSound
<1>4. r \in holding => at[r] \in Standalone \union InTx
  BY DEF RequestsInv, HoldersNeverWait
<1> QED BY <1>2, <1>3, <1>4 DEF RequestsInv, RequestSound, CommittedSound

-----------------------------------------------------------------------------
(* The actions.                                                             *)
USE DEF Standalone, InTx, history, Steps, Results

LEMMA ArriveKeeps ==
  ASSUME RequestsInv, TypeOK', NEW r \in Requests, NEW k \in Routes, Arrive(r, k)
  PROVE  RequestsInv'
<1>1. /\ TypeOK /\ at[r] = "new" /\ r \notin committed /\ r \notin holding
      /\ \A row \in Rows : lock[row] # r
  BY BeforeCommit DEF Arrive
<1>2. /\ at' = [at EXCEPT ![r] = "admit"] /\ at'[r] = "admit"
      /\ \A q \in Requests \ {r} : route'[q] = route[q]
      /\ UNCHANGED <<holding, saw, live, lock, result, committed, overtaken>>
  <2>1. route' = [route EXCEPT ![r] = k] /\ at' = [at EXCEPT ![r] = "admit"]
    BY DEF Arrive
  <2>2. UNCHANGED <<holding, saw, live, lock, result, committed, overtaken>>
    BY DEF Arrive, rows
  <2> QED BY <1>1, <2>1, <2>2 DEF TypeOK
<1>3. RequestSound(r)'
  BY <1>1, <1>2 DEF RequestSound, RouteOfStep, InTxHolds, HasCode, ReadSound, CommittedSound
<1> QED BY <1>1, <1>2, <1>3, GoesOnKeeps

LEMMA AdmitKeeps ==
  ASSUME RequestsInv, TypeOK', NEW r \in Requests, Admit(r)
  PROVE  RequestsInv'
<1>1. /\ TypeOK /\ at[r] = "admit" /\ r \notin committed /\ r \notin holding
      /\ \A row \in Rows : lock[row] # r
      /\ UNCHANGED <<route, saw, live, committed, overtaken>>
  BY BeforeCommit DEF Admit
<1>2. CASE Goto(r, First(route[r])) /\ UNCHANGED <<holding, lock, result>>
  <2>1. \/ First(route[r]) = "begin" /\ Transactional(route[r])
        \/ First(route[r]) = "call" /\ ~Writing(route[r])
        \/ First(route[r]) = "read" /\ (~Transactional(route[r]) \/ route[r] \in Asks)
    BY DEF First
  <2>2. at'[r] = First(route[r])
    BY <1>1, <1>2 DEF TypeOK
  <2>3. RequestSound(r)'
    BY <1>1, <1>2, <2>1, <2>2 DEF RequestSound, RouteOfStep, InTxHolds, HasCode,
      ReadSound, CommittedSound
  <2> QED BY <1>1, <1>2, <2>1, <2>3, GoesOnKeeps
<1>3. ASSUME NEW e \in Refusals(route[r]), Return(r, e) PROVE RequestsInv'
  <2>1. e \in Results \ {"ok"} /\ Outcome(r, e)
    BY <1>1, OutcomeOfError DEF Refusals, Cause
  <2> QED BY <1>1, <1>3, <2>1, ReturnKeeps
<1> QED BY <1>2, <1>3 DEF Admit

LEMMA ConnectKeeps ==
  ASSUME RequestsInv, TypeOK', NEW r \in Requests, Connect(r)
  PROVE  RequestsInv'
<1>1. /\ TypeOK /\ r \notin committed /\ \A row \in Rows : lock[row] # r
      /\ RequestSound(r)
      /\ at[r] \in Standalone \union {"begin"}
      /\ UNCHANGED <<route, saw, live, lock, result, committed, overtaken>>
      /\ holding' = holding \union {r}
  BY BeforeCommit DEF Connect, rows
<1>2. CASE at[r] = "begin"
  <2>1. /\ at' = [at EXCEPT ![r] = Body(route[r])] /\ Body(route[r]) \in InTx
        /\ at'[r] = Body(route[r])
    BY <1>1, <1>2 DEF Connect, Body, TypeOK
  <2>2. RequestSound(r)'
    BY <1>1, <1>2, <2>1 DEF Body, RequestSound, RouteOfStep, InTxHolds, HasCode,
      ReadSound, CommittedSound
  <2> QED BY <1>1, <1>2, <2>1, <2>2, GoesOnKeeps
<1>3. CASE at[r] # "begin"
  <2>1. at' = [at EXCEPT ![r] = at[r]] /\ at'[r] = at[r]
    BY <1>1, <1>3 DEF Connect, TypeOK
  <2>2. RequestSound(r)'
    BY <1>1, <1>3, <2>1 DEF RequestSound, RouteOfStep, InTxHolds, HasCode,
      ReadSound, CommittedSound
  <2> QED BY <1>1, <1>3, <2>1, <2>2, GoesOnKeeps
<1> QED BY <1>2, <1>3

\* A statement of its own gives its connection back.
LEMMA StandaloneKeeps ==
  ASSUME RequestsInv, TypeOK', NEW r \in Requests, Read(r) \/ Rank(r)
  PROVE  RequestsInv'
<1>1. /\ TypeOK /\ r \notin committed /\ \A row \in Rows : lock[row] # r
      /\ RequestSound(r) /\ at[r] \in {"read", "rank"}
      /\ UNCHANGED <<route, saw, live, committed, overtaken>>
  BY BeforeCommit DEF Read, Rank
<1>2. ASSUME NEW step \in {"begin", "rank", "set role", "call"}, Goto(r, step), Release(r),
             UNCHANGED result,
             step = "begin" => route[r] \in Asks,
             step \in {"rank", "set role"} => route[r] = "updateRole",
             step = "call" => ~Writing(route[r])
      PROVE  RequestsInv'
  <2>1. /\ at'[r] = step /\ r \notin holding'
        /\ \A q \in Requests \ {r} : q \in holding' <=> q \in holding
        /\ \A row \in Rows : lock'[row] = lock[row]
    BY <1>1, <1>2 DEF Release, TypeOK
  <2>2. RequestSound(r)'
    BY <1>1, <1>2, <2>1 DEF RequestSound, RouteOfStep, InTxHolds, HasCode,
      ReadSound, CommittedSound
  <2> QED BY <1>1, <1>2, <2>1, <2>2, GoesOnKeeps
<1>3. CASE Rank(r)
  <2>1. CASE Goto(r, "set role") /\ Release(r) /\ UNCHANGED result
    BY <1>1, <1>2, <1>3, <2>1 DEF Rank, RequestSound, RouteOfStep
  <2>2. ASSUME NEW e \in {"rank", "unchanged", "no account"}, Return(r, e) PROVE RequestsInv'
    <3>1. Outcome(r, e)
      BY <1>1, <1>3, OutcomeOfError DEF Rank, RequestSound, RouteOfStep, ErrMap
    <3> QED BY <1>1, <2>2, <3>1, ReturnKeeps
  <2> QED BY <1>3, <2>1, <2>2 DEF Rank
<1>4. CASE Read(r)
  <2>1. CASE route[r] # "read" /\ Goto(r, AfterRead(route[r])) /\ Release(r) /\ UNCHANGED result
    <3>1. /\ AfterRead(route[r]) \in {"begin", "rank", "call"}
          /\ AfterRead(route[r]) = "begin" => route[r] \in Asks
          /\ AfterRead(route[r]) = "rank" => route[r] = "updateRole"
          /\ AfterRead(route[r]) = "call" => ~Writing(route[r])
      BY <1>1, <1>4 DEF Read, AfterRead, RequestSound, RouteOfStep
    <3> QED BY <1>2, <2>1, <3>1
  <2>2. CASE route[r] = "read" /\ Return(r, "ok")
    <3>1. Outcome(r, "ok")
      BY <2>2, OutcomeOfOk
    <3> QED BY <1>1, <2>2, <3>1, ReturnKeeps
  <2>3. ASSUME NEW e \in ReadErrors(route[r]), Return(r, e) PROVE RequestsInv'
    <3>1. e \in {"address taken", "no account", "wrong password"} /\ Outcome(r, e)
      BY <1>1, OutcomeOfError DEF ReadErrors, ErrMap, Concealed
    <3> QED BY <1>1, <2>3, <3>1, ReturnKeeps
  <2> QED BY <1>4, <2>1, <2>2, <2>3 DEF Read
<1> QED BY <1>3, <1>4

LEMMA SetRoleKeeps ==
  ASSUME RequestsInv, TypeOK', NEW r \in Requests, SetRole(r)
  PROVE  RequestsInv'
<1>1. /\ TypeOK /\ r \notin committed /\ at[r] = "set role" /\ route[r] = "updateRole"
      /\ UNCHANGED <<route, saw, live, overtaken>>
  BY BeforeCommit DEF SetRole, RequestSound, RouteOfStep
<1>2. CASE Return(r, "ok") /\ committed' = committed \union {r}
  <2>1. at \in [Requests -> Steps] /\ result \in [Requests -> Results]
    BY <1>1 DEF TypeOK
  <2>2. at'[r] = "answered" /\ \A q \in Requests \ {r} : at'[q] = at[q]
    BY <1>2, <2>1 DEF Return
  <2>3. result'[r] = "ok" /\ \A q \in Requests \ {r} : result'[q] = result[q]
    BY <1>2, <2>1 DEF Return
  <2> QED BY <1>1, <1>2, <2>2, <2>3, PublishKeeps DEF Return
<1>3. CASE Return(r, "account gone") /\ UNCHANGED committed
  <2>1. "account gone" \in ErrMap(route[r])
    BY <1>1 DEF ErrMap
  <2>2. Outcome(r, "account gone")
    BY <1>1, <2>1, OutcomeOfMapped
  <2> QED BY <1>1, <1>3, <2>2, ReturnKeeps
<1> QED BY <1>2, <1>3 DEF SetRole

LEMMA CommitKeeps ==
  ASSUME RequestsInv, TypeOK', NEW r \in Requests, Commit(r) \/ CommitUnheard(r)
  PROVE  RequestsInv'
<1>1. TypeOK /\ Publish(r) /\ Release(r)
  BY BeforeCommit DEF Commit, CommitUnheard, Return
<1>2. /\ at'[r] \in {"call", "answered"}
      /\ \A q \in Requests \ {r} : at'[q] = at[q] /\ result'[q] = result[q]
      /\ at'[r] = "call" => route[r] = "register"
      /\ at'[r] = "answered" => result'[r] \in {"ok", "fault"}
  <2>1. CASE Goto(r, "call") /\ route[r] = "register" /\ UNCHANGED result
    BY <1>1, <2>1 DEF TypeOK
  <2>2. ASSUME NEW e \in {"ok", "fault"}, Return(r, e)
        PROVE  /\ at'[r] = "answered" /\ result'[r] = e
               /\ \A q \in Requests \ {r} : at'[q] = at[q] /\ result'[q] = result[q]
    <3>1. at' = [at EXCEPT ![r] = "answered"] /\ result' = [result EXCEPT ![r] = e]
      BY <2>2 DEF Return
    <3>2. at \in [Requests -> Steps] /\ result \in [Requests -> Results]
      BY <1>1 DEF TypeOK
    <3>3. at'[r] = "answered" /\ \A q \in Requests \ {r} : at'[q] = at[q]
      BY <3>1, <3>2
    <3>4. result'[r] = e /\ \A q \in Requests \ {r} : result'[q] = result[q]
      BY <3>1, <3>2
    <3> QED BY <3>3, <3>4
  <2> QED BY <2>1, <2>2 DEF Commit, CommitUnheard
<1> QED BY <1>1, <1>2, PublishKeeps

LEMMA DiscardKeeps ==
  ASSUME RequestsInv, TypeOK', NEW r \in Requests, Discard(r)
  PROVE  RequestsInv'
<1>1. /\ TypeOK /\ RequestSound(r) /\ r \notin committed /\ \A row \in Rows : lock[row] # r
      /\ at[r] = "discard"
      /\ UNCHANGED <<route, holding, live, lock, result, committed, overtaken>>
  BY BeforeCommit DEF Discard
<1>2. /\ at' = [at EXCEPT ![r] = "insert code"] /\ at'[r] = "insert code"
      /\ saw'[r] = live[Mine(r)] /\ \A q \in Requests \ {r} : saw'[q] = saw[q]
  <2>1. /\ at' = [at EXCEPT ![r] = "insert code"]
        /\ saw' = [saw EXCEPT ![r] = live[Mine(r)]]
    BY DEF Discard
  <2> QED BY <1>1, <2>1 DEF TypeOK
<1>3. RequestSound(r)'
  BY <1>1, <1>2 DEF RequestSound, RouteOfStep, InTxHolds, HasCode, ReadSound, CommittedSound, Mine
<1> QED BY <1>1, <1>2, <1>3, GoesOnKeeps

LEMMA FindCodeKeeps ==
  ASSUME RequestsInv, TypeOK', NEW r \in Requests, FindCode(r)
  PROVE  RequestsInv'
<1>1. /\ TypeOK /\ RequestSound(r) /\ r \notin committed /\ \A row \in Rows : lock[row] # r
      /\ at[r] = "find code" /\ UNCHANGED <<route, live, committed, overtaken>>
  BY BeforeCommit DEF FindCode
<1>2. saw'[r] = live[Mine(r)] /\ \A q \in Requests \ {r} : saw'[q] = saw[q]
  BY <1>1 DEF FindCode, TypeOK
<1>3. CASE /\ live[Mine(r)] # NoCode /\ Goto(r, "take code")
           /\ UNCHANGED <<holding, lock, result>>
  <2>1. at'[r] = "take code"
    BY <1>1, <1>3 DEF TypeOK
  <2>2. RequestSound(r)'
    BY <1>1, <1>2, <1>3, <2>1
       DEF RequestSound, RouteOfStep, InTxHolds, HasCode, ReadSound, CommittedSound, Mine
  <2> QED BY <1>1, <1>2, <1>3, <2>1, <2>2, GoesOnKeeps
<1>4. ASSUME NEW e \in {"no code", "wrong code", "expired code"}, Return(r, e) PROVE RequestsInv'
  <2>1. Outcome(r, e)
    <3>1. route[r] \in Redemptions
      BY <1>1 DEF RequestSound, RouteOfStep
    <3>2. \/ e \in ErrMap(route[r])
          \/ e = "expired code" /\ route[r] \in {"register", "updateEmail"}
      <4>1. CASE route[r] = "resetPassword"
        BY <1>4, <4>1 DEF ErrMap
      <4>2. CASE route[r] \in {"register", "updateEmail"}
        BY <1>4, <4>2 DEF ErrMap
      <4> QED BY <3>1, <4>1, <4>2 DEF Redemptions
    <3>3. CASE e \in ErrMap(route[r])
      BY <1>1, <3>3, OutcomeOfMapped
    <3>4. CASE e = "expired code" /\ route[r] \in {"register", "updateEmail"}
      BY <1>1, <3>4, OutcomeOfError DEF Cause
    <3> QED BY <3>2, <3>3, <3>4
  <2>2. \A q \in committed \union (Requests \ {r}) : saw'[q] = saw[q]
    BY <1>1, <1>2 DEF TypeOK
  <2> QED BY <1>1, <1>4, <2>1, <2>2, ReturnKeeps
<1> QED BY <1>3, <1>4 DEF FindCode

\* The codes' row is locked, and what was read is still there or the request gives up.
LEMMA LocksCode ==
  ASSUME RequestsInv, TypeOK', NEW r \in Requests, InsertCode(r) \/ TakeCode(r)
  PROVE  RequestsInv'
<1>1. /\ TypeOK /\ RequestSound(r) /\ r \notin committed /\ r \in holding
      /\ \A row \in Rows : lock[row] # r
      /\ at[r] \in {"insert code", "take code"} /\ Free(Mine(r), r)
      /\ UNCHANGED <<route, saw, live, committed, overtaken>>
  BY BeforeCommit DEF InsertCode, TakeCode, RequestSound, InTxHolds
<1>2. ASSUME NEW step \in {"write", "commit"}, Goto(r, step), UNCHANGED <<holding, result>>,
             lock' = [lock EXCEPT ![Mine(r)] = r],
             route[r] \in Redemptions => live[Mine(r)] = saw[r] /\ saw[r] # NoCode,
             Coded(route[r]), step = "write" => route[r] \notin Asks
      PROVE  RequestsInv'
  <2>1. /\ at'[r] = step /\ lock[Mine(r)] = Nobody /\ lock'[Mine(r)] = r
        /\ \A row \in Rows : row # Mine(r) => lock'[row] = lock[row]
    <3>1. Mine(r) \in Rows
      BY MineIsUsage
    <3>2. lock[Mine(r)] = Nobody
      BY <1>1, <3>1 DEF Free
    <3>3. at'[r] = step
      BY <1>1, <1>2 DEF TypeOK
    <3>4. lock \in [Rows -> Requests \union {Nobody}]
      BY <1>1 DEF TypeOK
    <3>5. /\ lock'[Mine(r)] = r
          /\ \A row \in Rows : row # Mine(r) => lock'[row] = lock[row]
      BY <1>2, <3>1, <3>4
    <3> QED BY <3>2, <3>3, <3>5
  <2>2. RequestSound(r)'
    BY <1>1, <1>2, <2>1
       DEF RequestSound, RouteOfStep, InTxHolds, HasCode, ReadSound, CommittedSound, Mine
  <2>3. Mine(r)' = Mine(r)
    BY <1>1 DEF Mine
  <2>4. \A row \in Rows : \/ lock'[row] = lock[row]
                          \/ lock'[row] = r /\ lock[row] = Nobody
    BY <2>1
  <2>5. \A row \in Rows : lock'[row] = r => row = Mine(r)
    BY <1>1, <2>1
  <2> QED BY <1>1, <1>2, <2>2, <2>3, <2>4, <2>5, GoesOnKeeps
<1>3. ASSUME NEW e \in {"code gone", "code exists"}, Return(r, e), live[Mine(r)] # saw[r]
      PROVE  RequestsInv'
  <2>1. r \in overtaken
    BY <1>1, <1>3 DEF RequestSound, ReadSound
  <2>2. Cause(e, route[r], r \in overtaken) /\ e # "ok"
    BY <1>3, <2>1 DEF Cause
  <2>3. Outcome(r, e)
    BY <1>1, <2>2, OutcomeOfError
  <2> QED BY <1>1, <1>3, <2>3, ReturnKeeps
<1>4. CASE InsertCode(r)
  <2>1. route[r] \in Asks
    BY <1>1, <1>4 DEF InsertCode, RequestSound, RouteOfStep
  <2>2. CASE live[Mine(r)] \in {NoCode, saw[r]}
    BY <1>2, <1>4, <2>1, <2>2 DEF InsertCode
  <2>3. CASE live[Mine(r)] \notin {NoCode, saw[r]}
    BY <1>3, <1>4, <2>3 DEF InsertCode
  <2> QED BY <2>2, <2>3
<1>5. CASE TakeCode(r)
  <2>1. route[r] \in Redemptions /\ saw[r] # NoCode
    BY <1>1, <1>5 DEF TakeCode, RequestSound, RouteOfStep, ReadSound
  <2>2. CASE live[Mine(r)] = saw[r]
    BY <1>2, <1>5, <2>1, <2>2 DEF TakeCode
  <2>3. CASE live[Mine(r)] # saw[r]
    BY <1>3, <1>5, <2>3 DEF TakeCode
  <2> QED BY <2>2, <2>3
<1> QED BY <1>4, <1>5

LEMMA CompareKeeps ==
  ASSUME RequestsInv, TypeOK', NEW r \in Requests, Compare(r)
  PROVE  RequestsInv'
<1>1. /\ TypeOK /\ RequestSound(r) /\ r \notin committed /\ \A row \in Rows : lock[row] # r
      /\ at[r] = "compare" /\ route[r] = "changePassword"
      /\ UNCHANGED <<route, saw, live, committed, overtaken>>
  BY BeforeCommit DEF Compare, RequestSound, RouteOfStep
<1>2. CASE Goto(r, "write") /\ UNCHANGED <<holding, lock, result>>
  <2>1. at'[r] = "write"
    BY <1>1, <1>2 DEF TypeOK
  <2>2. RequestSound(r)'
    BY <1>1, <1>2, <2>1 DEF RequestSound, RouteOfStep, InTxHolds, HasCode, ReadSound, CommittedSound
  <2> QED BY <1>1, <1>2, <2>1, <2>2, GoesOnKeeps
<1>3. CASE Return(r, "wrong password")
  <2>1. Outcome(r, "wrong password")
    <3>1. "wrong password" \in ErrMap(route[r])
      BY <1>1 DEF ErrMap
    <3> QED BY <1>1, <3>1, OutcomeOfMapped
  <2> QED BY <1>1, <1>3, <2>1, ReturnKeeps
<1>4. CASE Return(r, "no account")
  <2>1. Outcome(r, "no account")
    <3>1. Cause("no account", route[r], r \in overtaken)
      BY <1>1 DEF Cause
    <3> QED BY <1>1, <3>1, OutcomeOfError
  <2> QED BY <1>1, <1>4, <2>1, ReturnKeeps
<1> QED BY <1>2, <1>3, <1>4 DEF Compare

LEMMA WriteKeeps ==
  ASSUME RequestsInv, TypeOK', NEW r \in Requests, Write(r)
  PROVE  RequestsInv'
<1>1. /\ TypeOK /\ RequestSound(r) /\ r \notin committed
      /\ at[r] = "write" /\ UNCHANGED <<route, saw, live, committed, overtaken>>
  BY BeforeCommit DEF Write
<1>2. CASE /\ route[r] # "register" => Free(Account, r)
           /\ Goto(r, "commit") /\ UNCHANGED <<holding, result>>
           /\ lock' = IF route[r] = "register" THEN lock ELSE [lock EXCEPT ![Account] = r]
  <2>1. /\ at'[r] = "commit"
        /\ \A row \in Rows : \/ lock'[row] = lock[row]
                             \/ row = Account /\ lock'[row] = r /\ lock[row] = Nobody
    <3>1. at'[r] = "commit"
      BY <1>1, <1>2 DEF TypeOK
    <3>2. CASE UNCHANGED lock
      BY <3>1, <3>2
    <3>3. CASE Free(Account, r) /\ lock' = [lock EXCEPT ![Account] = r]
      BY <1>1, <3>1, <3>3, MineIsUsage DEF TypeOK, Free
    <3> QED BY <1>2, <3>2, <3>3
  <2>2. Account \notin Usages
    BY DEF Account, Usages
  <2>3. ASSUME NEW row \in Usages, lock'[row] = r PROVE Mine(r)' = row /\ Coded(route'[r])
    <3>1. row \in Rows /\ lock[row] = r /\ lock[row] # Nobody
      BY <2>1, <2>2, <2>3, RequestsAssumption DEF Rows
    <3> QED BY <1>1, <3>1 DEF RequestsInv, LockSound, Mine
  <2>4. Mine(r)' = Mine(r) /\ (lock[Mine(r)] = r => lock'[Mine(r)] = r)
    BY <1>1, <2>1, <2>2, MineIsUsage DEF Mine
  <2>5. RequestSound(r)'
    BY <1>1, <1>2, <2>1, <2>4
       DEF RequestSound, RouteOfStep, InTxHolds, HasCode, ReadSound, CommittedSound
  <2> QED BY <1>1, <1>2, <2>1, <2>3, <2>5, GoesOnKeeps
<1>3. ASSUME NEW e \in WriteErrors(route[r]), Return(r, e) PROVE RequestsInv'
  <2>1. route[r] \in Redemptions \union {"changePassword"}
    BY <1>1 DEF RequestSound, RouteOfStep
  <2>2. e \in ErrMap(route[r])
    <3>1. CASE route[r] \in {"register", "updateEmail"}
      BY <3>1 DEF WriteErrors, ErrMap
    <3>2. CASE route[r] \in {"resetPassword", "changePassword"}
      BY <3>2 DEF WriteErrors, ErrMap
    <3> QED BY <2>1, <3>1, <3>2
  <2>3. Outcome(r, e) /\ e \in Results
    BY <1>1, <2>2, OutcomeOfMapped, Zenon DEF WriteErrors
  <2> QED BY <1>1, <1>3, <2>3, ReturnKeeps
<1> QED BY <1>2, <1>3 DEF Write

\* What fails returns a fault, except for the health check.
LEMMA OthersKeep ==
  ASSUME RequestsInv, TypeOK', NEW r \in Requests, Call(r) \/ Fail(r) \/ ProbeFails(r)
  PROVE  RequestsInv'
<1>1. /\ TypeOK /\ RequestSound(r) /\ at[r] # "answered"
      /\ UNCHANGED <<route, saw, live, committed, overtaken>>
  BY BeforeCommit DEF Call, Fail, ProbeFails
<1>2. CASE Call(r)
  <2>1. Outcome(r, "ok")
    BY <1>1, <1>2, OutcomeOfOk DEF Call, RequestSound, RouteOfStep, CommittedSound
  <2> QED BY <1>1, <1>2, <2>1, ReturnKeeps DEF Call
<1>3. CASE Fail(r)
  <2>1. Outcome(r, "fault")
    BY OutcomeOfFault
  <2> QED BY <1>1, <1>3, <2>1, ReturnKeeps DEF Fail
<1>4. CASE ProbeFails(r) /\ at[r] = "read"
  <2>1. /\ route[r] = "health" /\ Goto(r, "call") /\ Release(r) /\ UNCHANGED result
        /\ r \notin committed /\ \A row \in Rows : lock[row] # r
    BY <1>4, BeforeCommit DEF ProbeFails
  <2>2. /\ at'[r] = "call" /\ r \notin holding'
        /\ \A q \in Requests \ {r} : q \in holding' <=> q \in holding
        /\ \A row \in Rows : lock'[row] = lock[row]
    BY <1>1, <2>1 DEF Release, TypeOK
  <2>3. RequestSound(r)'
    BY <1>1, <2>1, <2>2 DEF RequestSound, RouteOfStep, InTxHolds, HasCode, ReadSound, CommittedSound
  <2>4. r \in holding' => "call" \in Standalone \union InTx
    BY <2>2
  <2>5. at' = [at EXCEPT ![r] = "call"] /\ \A row \in Rows : lock'[row] # r
    BY <2>1, <2>2
  <2> QED BY <1>1, <2>1, <2>2, <2>3, <2>4, <2>5, GoesOnKeeps
<1>5. CASE ProbeFails(r) /\ at[r] # "read"
  <2>1. route[r] = "health" /\ Return(r, "ok")
    BY <1>5 DEF ProbeFails
  <2>2. Outcome(r, "ok")
    BY <2>1, OutcomeOfOk
  <2> QED BY <1>1, <2>1, <2>2, ReturnKeeps
<1> QED BY <1>2, <1>3, <1>4, <1>5

-----------------------------------------------------------------------------
(* The theorems.                                                            *)
LEMMA Initially == Init => RequestsInv
<1> SUFFICES ASSUME Init PROVE RequestsInv
  OBVIOUS
<1>1. TypeOK
  BY RequestsAssumption DEF Init, TypeOK
<1>2. LiveSound /\ LockSound /\ HoldersNeverWait
  BY DEF Init, LiveSound, LockSound, HoldersNeverWait, SpentCodes, IssuedCodes
<1>3. \A r \in Requests : RequestSound(r)
  BY DEF Init, RequestSound, RouteOfStep, InTxHolds, HasCode, ReadSound, CommittedSound
<1>4. AnswersTruthful /\ ServerErrorsExplained
  BY DEF Init, AnswersTruthful, ServerErrorsExplained, Answered
<1> QED BY <1>1, <1>2, <1>3, <1>4 DEF RequestsInv

LEMMA Inductive == RequestsInv /\ [Next]_vars => RequestsInv'
<1> SUFFICES ASSUME RequestsInv, [Next]_vars PROVE RequestsInv'
  OBVIOUS
<1>1. TypeOK'
  BY TypeInductive DEF RequestsInv
<1>2. ASSUME NEW r \in Requests, NEW k \in Routes, Arrive(r, k) PROVE RequestsInv'
  BY <1>1, <1>2, ArriveKeeps
<1>3. ASSUME NEW r \in Requests, Admit(r) PROVE RequestsInv'
  BY <1>1, <1>3, AdmitKeeps
<1>4. ASSUME NEW r \in Requests, Step(r) PROVE RequestsInv'
  <2>1. CASE Connect(r)
    BY <1>1, <2>1, ConnectKeeps
  <2>2. CASE Read(r) \/ Rank(r)
    BY <1>1, <2>2, StandaloneKeeps
  <2>3. CASE SetRole(r)
    BY <1>1, <2>3, SetRoleKeeps
  <2>4. CASE Discard(r)
    BY <1>1, <2>4, DiscardKeeps
  <2>5. CASE InsertCode(r) \/ TakeCode(r)
    BY <1>1, <2>5, LocksCode
  <2>6. CASE FindCode(r)
    BY <1>1, <2>6, FindCodeKeeps
  <2>7. CASE Compare(r)
    BY <1>1, <2>7, CompareKeeps
  <2>8. CASE Write(r)
    BY <1>1, <2>8, WriteKeeps
  <2>9. CASE Commit(r)
    BY <1>1, <2>9, CommitKeeps
  <2> QED BY <1>4, <2>1, <2>2, <2>3, <2>4, <2>5, <2>6, <2>7, <2>8, <2>9 DEF Step
<1>5. ASSUME NEW r \in Requests, CommitUnheard(r) PROVE RequestsInv'
  BY <1>1, <1>5, CommitKeeps
<1>6. ASSUME NEW r \in Requests, Call(r) \/ Fail(r) \/ ProbeFails(r) PROVE RequestsInv'
  BY <1>1, <1>6, OthersKeep
<1>7. CASE UNCHANGED vars
  <2>1. UNCHANGED <<route, at, holding, saw, live, lock, result, committed, overtaken>>
    BY <1>7 DEF vars, rows
  <2>2. HoldersNeverWait' /\ LockSound' /\ AnswersTruthful' /\ ServerErrorsExplained'
    BY <2>1 DEF RequestsInv, HoldersNeverWait, LockSound, Mine, AnswersTruthful,
                ServerErrorsExplained, Answered
  <2>3. LiveSound'
    BY <2>1 DEF RequestsInv, LiveSound, IssuedCodes, SpentCodes, Mine
  <2>4. ASSUME NEW r \in Requests PROVE RequestSound(r)'
    <3>1. RequestSound(r)
      BY DEF RequestsInv
    <3>2. HasCode(r)' /\ ReadSound(r)' /\ CommittedSound(r)'
      BY <2>1, <3>1 DEF RequestSound, HasCode, ReadSound, CommittedSound, Mine
    <3>3. RouteOfStep(r)' /\ InTxHolds(r)'
      BY <2>1, <3>1 DEF RequestSound, RouteOfStep, InTxHolds
    <3> QED BY <3>2, <3>3 DEF RequestSound
  <2> QED BY <1>1, <2>2, <2>3, <2>4 DEF RequestsInv
<1> QED BY <1>2, <1>3, <1>4, <1>5, <1>6, <1>7 DEF Next

\* The invariant of the requests, from the route to the answer.
THEOREM Invariant == Spec => []RequestsInv
  BY Initially, Inductive, PTL DEF Spec

\* The variables keep their types.
THEOREM TypeCorrect == Spec => []TypeOK
<1>1. RequestsInv => TypeOK
  BY DEF RequestsInv
<1> QED BY <1>1, Invariant, PTL

\* Nobody who holds a connection waits for another one, or for the JSON-keys service.
THEOREM Connections == Spec => []HoldersNeverWait
<1>1. RequestsInv => HoldersNeverWait
  BY DEF RequestsInv
<1> QED BY <1>1, Invariant, PTL

\* A success is committed, a refusal is not.
THEOREM Answers == Spec => []AnswersTruthful
<1>1. RequestsInv => AnswersTruthful
  BY DEF RequestsInv
<1> QED BY <1>1, Invariant, PTL

\* A server error without a fault is a token nobody has a status for, a change of password
\* that finds no account, an expired code, or a lost race.
THEOREM ServerErrors == Spec => []ServerErrorsExplained
<1>1. RequestsInv => ServerErrorsExplained
  BY DEF RequestsInv
<1> QED BY <1>1, Invariant, PTL

-----------------------------------------------------------------------------
(* Who waits for whom.                                                      *)

\* What a step of r does to the row of the account and to who is where.
AccountStep(r) ==
  /\ \A q \in Requests \ {r} : at'[q] = at[q]
  /\ \/ lock'[Account] = lock[Account] /\ at[r] # "commit"
     \/ lock'[Account] = IF lock[Account] = r THEN Nobody ELSE lock[Account]
     \/ lock'[Account] = r /\ at'[r] = "commit"

LEMMA AccountSteps ==
  ASSUME TypeOK, [Next]_vars, ~UNCHANGED vars
  PROVE  \E r \in Requests : AccountStep(r)
<1>1. ASSUME NEW r \in Requests, NEW e, Return(r, e) PROVE AccountStep(r)
  BY <1>1, MineIsUsage DEF Return, Release, AccountStep, TypeOK
<1>2. ASSUME NEW r \in Requests, NEW step, Goto(r, step), Release(r) PROVE AccountStep(r)
  BY <1>2, MineIsUsage DEF Release, AccountStep, TypeOK
<1>3. ASSUME NEW r \in Requests, NEW step, Goto(r, step), UNCHANGED lock, at[r] # "commit"
      PROVE  AccountStep(r)
  BY <1>3 DEF AccountStep, TypeOK
<1>4. ASSUME NEW r \in Requests, NEW k \in Routes, Arrive(r, k) PROVE AccountStep(r)
  BY <1>3, <1>4 DEF Arrive, rows
<1>5. ASSUME NEW r \in Requests, Admit(r) \/ Rank(r) \/ SetRole(r) PROVE AccountStep(r)
  BY <1>1, <1>2, <1>3, <1>5 DEF Admit, Rank, SetRole
<1>6. ASSUME NEW r \in Requests, Connect(r) PROVE AccountStep(r)
  BY <1>3, <1>6 DEF Connect, rows, AccountStep, Standalone
<1>7. ASSUME NEW r \in Requests, Read(r) PROVE AccountStep(r)
  BY <1>1, <1>2, <1>7 DEF Read
<1>8. ASSUME NEW r \in Requests, Discard(r) \/ FindCode(r) \/ Compare(r) PROVE AccountStep(r)
  BY <1>1, <1>3, <1>8 DEF Discard, FindCode, Compare
<1>9. ASSUME NEW r \in Requests, InsertCode(r) \/ TakeCode(r) PROVE AccountStep(r)
  <2>1. ASSUME lock' = [lock EXCEPT ![Mine(r)] = r], NEW step, Goto(r, step), at[r] # "commit"
        PROVE  AccountStep(r)
    <3>1. Mine(r) # Account
      BY MineIsUsage DEF Usages, Account
    <3> QED BY <2>1, <3>1, MineIsUsage DEF AccountStep, TypeOK
  <2> QED BY <1>1, <1>9, <2>1 DEF InsertCode, TakeCode
<1>10. ASSUME NEW r \in Requests, Write(r) PROVE AccountStep(r)
  <2>1. CASE Goto(r, "commit") /\ lock' = [lock EXCEPT ![Account] = r]
    BY <2>1, MineIsUsage DEF AccountStep, TypeOK
  <2> QED BY <1>1, <1>3, <1>10, <2>1 DEF Write
<1>11. ASSUME NEW r \in Requests, Commit(r) \/ CommitUnheard(r) PROVE AccountStep(r)
  BY <1>1, <1>2, <1>11 DEF Commit, CommitUnheard
<1>12. ASSUME NEW r \in Requests, Call(r) \/ Fail(r) \/ ProbeFails(r) PROVE AccountStep(r)
  BY <1>1, <1>2, <1>12 DEF Call, Fail, ProbeFails
<1> QED BY <1>4, <1>5, <1>6, <1>7, <1>8, <1>9, <1>10, <1>11, <1>12 DEF Next, Step

\* Whoever has written the row of the account is at its commit, and has it until that.
LEMMA AccountInductive == TypeOK /\ AccountLast /\ [Next]_vars => AccountLast'
<1> SUFFICES ASSUME TypeOK, AccountLast, [Next]_vars PROVE AccountLast'
  OBVIOUS
<1>1. CASE UNCHANGED vars
  BY <1>1 DEF vars, rows, AccountLast
<1>2. CASE ~UNCHANGED vars
  <2>1. PICK r \in Requests : AccountStep(r)
    BY <1>2, AccountSteps
  <2>2. lock[Account] \in Requests \union {Nobody}
    BY MineIsUsage DEF TypeOK, Rows
  <2> QED BY <2>1, <2>2 DEF AccountStep, AccountLast
<1> QED BY <1>1, <1>2

\* The account is the last row anybody writes.
THEOREM LastRow == Spec => []AccountLast
<1>1. Init => AccountLast
  BY DEF Init, AccountLast, Rows
<1> QED BY <1>1, AccountInductive, TypeCorrect, PTL DEF Spec

LEMMA ShortWaits == RequestsInv /\ AccountLast => WaitsAreShort
<1> SUFFICES ASSUME RequestsInv, AccountLast, NEW r \in Requests, Blocked(r)
             PROVE  LET q == lock[RowOf(r)]
                    IN /\ q \in holding /\ at[q] \in {"write", "commit"}
                       /\ Blocked(q) => at[r] # "write" /\ at[lock[RowOf(q)]] = "commit"
  BY DEF WaitsAreShort
<1> DEFINE q == lock[RowOf(r)]
<1>1. RowOf(r) \in Rows /\ q # Nobody /\ q \in Requests
  BY MineIsUsage DEF Blocked, Free, RowOf, RequestsInv, TypeOK
<1>2. at[q] \in {"write", "commit"} /\ q \in holding
  BY <1>1 DEF RequestsInv, LockSound, RequestSound, InTxHolds, InTx
<1>3. ASSUME Blocked(q) PROVE at[r] # "write" /\ at[lock[RowOf(q)]] = "commit"
  <2>1. at[q] = "write" /\ RowOf(q) = Account /\ lock[Account] # Nobody
    BY <1>2, <1>3 DEF Blocked, NeedsRow, RowOf, Free
  <2>2. at[lock[Account]] = "commit"
    BY <2>1 DEF AccountLast
  <2>3. at[r] = "write" => RowOf(r) = Account
    BY DEF RowOf
  <2> QED BY <2>1, <2>2, <2>3
<1> QED BY <1>2, <1>3

\* A request that waits for a row waits for one that is about to commit, or for one that
\* waits for such a one: no circle, however many requests and whatever they ask.
THEOREM Waits == Spec => []WaitsAreShort
  BY Invariant, LastRow, ShortWaits, PTL

\* As long as connections are out, one of those who have them waits for nothing: the pool
\* is never full of requests that wait for each other.
THEOREM Pool == Spec => []PoolMoves
<1>1. TypeOK /\ WaitsAreShort => PoolMoves
  <2> SUFFICES ASSUME TypeOK, WaitsAreShort, NEW r \in holding
               PROVE  \E p \in holding : ~Blocked(p)
    BY DEF PoolMoves
  <2>1. CASE ~Blocked(r)
    BY <2>1
  <2>2. CASE Blocked(r)
    <3> DEFINE q == lock[RowOf(r)]  p == lock[RowOf(q)]
    <3>1. q \in holding /\ (Blocked(q) => at[p] = "commit")
      BY <2>2 DEF WaitsAreShort, TypeOK
    <3>2. Blocked(q) => p \in holding
      BY <3>1 DEF WaitsAreShort, TypeOK
    <3>3. at[p] = "commit" => ~Blocked(p)
      BY DEF Blocked, NeedsRow
    <3> QED BY <3>1, <3>2, <3>3
  <2> QED BY <2>1, <2>2
<1> QED BY <1>1, TypeCorrect, Waits, PTL

-----------------------------------------------------------------------------
(* The order of the steps.                                                  *)

LEMMA AnsweredIsLast == \A step \in Steps \ {"answered"} : Place("answered") > Place(step)
<1>1. \A step \in {"new", "admit", "begin", "call"} : Place(step) \in {0, 1, 5, 10}
  <2>1. Place("new") = 0 /\ Place("admit") = 1 /\ Place("begin") = 5 /\ Place("call") = 10
    BY DEF Place
  <2> QED BY <2>1, Zenon
<1>2. \A step \in Standalone : Place(step) \in {2, 3, 4}
  <2>1. Place("read") = 2 /\ Place("rank") = 3 /\ Place("set role") = 4
    BY DEF Place
  <2> QED BY <2>1, Zenon DEF Standalone
<1>3. \A step \in InTx : Place(step) \in {6, 7, 8, 9}
  <2>1. /\ Place("discard") = 6 /\ Place("find code") = 6 /\ Place("compare") = 6
        /\ Place("insert code") = 7 /\ Place("take code") = 7
        /\ Place("write") = 8 /\ Place("commit") = 9
    BY DEF Place
  <2> QED BY <2>1, Zenon DEF InTx
<1>4. ASSUME NEW n \in {0, 1, 5, 10} \union {2, 3, 4} \union {6, 7, 8, 9} PROVE 11 > n
  OBVIOUS
<1>5. \A step \in Steps \ {"answered"} : 11 > Place(step)
  BY <1>1, <1>2, <1>3, <1>4, Zenon DEF Steps
<1>6. Place("answered") = 11
  BY DEF Place
<1> QED BY <1>5, <1>6, Zenon

LEMMA StepForward ==
  ASSUME TypeOK, [Next]_vars, NEW q \in Requests, at'[q] # at[q]
  PROVE  Place(at'[q]) > Place(at[q])
<1>1. at[q] # "answered" => Place("answered") > Place(at[q])
  BY AnsweredIsLast DEF TypeOK
<1>2. ASSUME NEW r \in Requests, NEW e, Return(r, e), at[r] # "answered"
      PROVE  Place(at'[q]) > Place(at[q])
  BY <1>1, <1>2 DEF Return, TypeOK
<1>3. ASSUME NEW r \in Requests, NEW step, Goto(r, step), Place(step) > Place(at[r])
      PROVE  Place(at'[q]) > Place(at[q])
  BY <1>3 DEF TypeOK
<1>4. ASSUME NEW r \in Requests, NEW k \in Routes, Arrive(r, k)
      PROVE  Place(at'[q]) > Place(at[q])
  <2>1. Place("admit") > Place("new")
    BY DEF Place
  <2> QED BY <1>3, <1>4, <2>1 DEF Arrive
<1>5. ASSUME NEW r \in Requests, Admit(r) PROVE Place(at'[q]) > Place(at[q])
  <2>1. Place(First(route[r])) > Place("admit")
    BY DEF Place, First
  <2> QED BY <1>2, <1>3, <1>5, <2>1 DEF Admit
<1>6. ASSUME NEW r \in Requests, Connect(r) PROVE Place(at'[q]) > Place(at[q])
  <2>1. Place(Body(route[r])) > Place("begin")
    BY DEF Place, Body
  <2> QED BY <1>3, <1>6, <2>1 DEF Connect
<1>7. ASSUME NEW r \in Requests, Read(r) PROVE Place(at'[q]) > Place(at[q])
  <2>1. Place(AfterRead(route[r])) > Place("read")
    BY DEF Place, AfterRead
  <2> QED BY <1>2, <1>3, <1>7, <2>1 DEF Read
<1>8. ASSUME NEW r \in Requests, Rank(r) \/ SetRole(r) PROVE Place(at'[q]) > Place(at[q])
  <2>1. Place("set role") > Place("rank")
    BY DEF Place
  <2> QED BY <1>2, <1>3, <1>8, <2>1 DEF Rank, SetRole
<1>9. ASSUME NEW r \in Requests, Discard(r) \/ FindCode(r) \/ Compare(r)
      PROVE  Place(at'[q]) > Place(at[q])
  <2>1. /\ Place("insert code") > Place("discard") /\ Place("take code") > Place("find code")
        /\ Place("write") > Place("compare")
    BY DEF Place
  <2> QED BY <1>2, <1>3, <1>9, <2>1 DEF Discard, FindCode, Compare
<1>10. ASSUME NEW r \in Requests, InsertCode(r) \/ TakeCode(r) \/ Write(r)
       PROVE  Place(at'[q]) > Place(at[q])
  <2>1. /\ Place("commit") > Place("insert code") /\ Place("write") > Place("take code")
        /\ Place("commit") > Place("write")
    BY DEF Place
  <2> QED BY <1>2, <1>3, <1>10, <2>1 DEF InsertCode, TakeCode, Write
<1>11. ASSUME NEW r \in Requests, Commit(r) \/ CommitUnheard(r)
       PROVE  Place(at'[q]) > Place(at[q])
  <2>1. at[r] = "commit" /\ Place("call") > Place("commit")
    BY <1>11 DEF Commit, CommitUnheard, Publish, Place
  <2> QED BY <1>2, <1>3, <1>11, <2>1 DEF Commit, CommitUnheard
<1>12. ASSUME NEW r \in Requests, Call(r) \/ Fail(r) \/ ProbeFails(r)
       PROVE  Place(at'[q]) > Place(at[q])
  <2>1. Place("call") > Place("read")
    BY DEF Place
  <2> QED BY <1>2, <1>3, <1>12, <2>1 DEF Call, Fail, ProbeFails
<1>13. CASE UNCHANGED vars
  BY <1>13 DEF vars
<1> QED BY <1>4, <1>5, <1>6, <1>7, <1>8, <1>9, <1>10, <1>11, <1>12, <1>13 DEF Next, Step

\* No service goes back to an earlier step: whatever a request meets, it goes from its
\* arrival to its answer in at most eleven, and waits at none of them twice.
THEOREM GoesForward == Spec => ForwardOnly
<1>1. TypeOK /\ [Next]_vars =>
        [\A r \in Requests : at'[r] # at[r] => Place(at'[r]) > Place(at[r])]_vars
  BY StepForward
<1> QED BY <1>1, TypeCorrect, PTL DEF Spec, ForwardOnly

-----------------------------------------------------------------------------
(* The services implement the one-time store.                               *)

\* Of what the store is made of nothing changes but by a commit.
LEMMA Stutters ==
  ASSUME RequestsInv, UNCHANGED <<live, committed>>,
         \A q \in committed : route'[q] = route[q] /\ saw'[q] = saw[q]
  PROVE  UNCHANGED Store!vars
<1>1. IssuedCodes' = IssuedCodes
  BY DEF IssuedCodes
<1>2. SpentCodes' = SpentCodes
  BY DEF SpentCodes
<1> QED BY <1>1, <1>2 DEF Store!vars

LEMMA PublishRefines ==
  ASSUME RequestsInv, NEW r \in Requests, Publish(r)
  PROVE  [Store!Next]_Store!vars
<1> DEFINE u == Mine(r)
<1>1. /\ TypeOK /\ r \notin committed /\ at[r] = "commit" /\ u \in Usages
      /\ UNCHANGED <<route, saw>> /\ committed' = committed \union {r}
  BY BeforeCommit, MineIsUsage DEF Publish
<1>2. CASE route[r] \in Asks
  <2>1. route[r] \notin Redemptions /\ r # NoCode
    BY <1>2, RequestsAssumption
  <2>2. IssuedCodes' = IssuedCodes \union {r} /\ r \notin IssuedCodes
    BY <1>1, <1>2 DEF IssuedCodes
  <2>3. SpentCodes' = SpentCodes
    BY <1>1, <2>1 DEF SpentCodes
  <2>4. live' = [live EXCEPT ![u] = r]
    BY <1>1, <1>2 DEF Publish
  <2>5. live'[u] = r /\ \A v \in Usages \ {u} : live'[v] = live[v]
    BY <1>1, <2>4 DEF TypeOK
  <2>6. [v \in Usages |-> {live'[v]} \ {NoCode}]
          = [[v \in Usages |-> {live[v]} \ {NoCode}] EXCEPT ![u] = {r}]
    BY <1>1, <2>1, <2>5
  <2>7. Store!Issue(u, r)
    BY <2>2, <2>3, <2>6 DEF Store!Issue
  <2> QED BY <1>1, <2>7 DEF Store!Next
<1>3. CASE route[r] \in Redemptions
  <2>1. route[r] \notin Asks /\ saw[r] = live[u] /\ live[u] # NoCode
    BY <1>1, <1>3, BeforeCommit DEF RequestSound, HasCode
  <2>2. IssuedCodes' = IssuedCodes
    BY <1>1, <2>1 DEF IssuedCodes
  <2>3. SpentCodes' = SpentCodes \union {live[u]}
    BY <1>1, <1>3, <2>1 DEF SpentCodes
  <2>4. live' = [live EXCEPT ![u] = NoCode]
    BY <1>1, <1>3, <2>1 DEF Publish
  <2>5. live'[u] = NoCode /\ \A v \in Usages \ {u} : live'[v] = live[v]
    BY <1>1, <2>4 DEF TypeOK
  <2>6. [v \in Usages |-> {live'[v]} \ {NoCode}]
          = [[v \in Usages |-> {live[v]} \ {NoCode}] EXCEPT ![u] = {}]
    BY <1>1, <2>5
  <2>7. live[u] \in Requests /\ live[u] \notin SpentCodes
    BY <1>1, <2>1 DEF RequestsInv, LiveSound, TypeOK
  <2>8. [v \in Usages |-> {live[v]} \ {NoCode}][u] = {live[u]}
    BY <1>1, <2>1
  <2>9. PICK c \in Requests : c = live[u]
    BY <2>7
  <2>10. Store!Redeem(u, c)
    BY <2>2, <2>3, <2>6, <2>7, <2>8, <2>9 DEF Store!Redeem
  <2> QED BY <1>1, <2>10 DEF Store!Next
<1>4. CASE ~Coded(route[r])
  <2>1. UNCHANGED live
    BY <1>4 DEF Publish
  <2>2. IssuedCodes' = IssuedCodes
    BY <1>1, <1>4 DEF IssuedCodes
  <2>3. SpentCodes' = SpentCodes
    BY <1>1, <1>4 DEF SpentCodes
  <2> QED BY <2>1, <2>2, <2>3 DEF Store!vars
<1> QED BY <1>2, <1>3, <1>4

LEMMA StepRefines == RequestsInv /\ [Next]_vars => [Store!Next]_Store!vars
<1> SUFFICES ASSUME RequestsInv, [Next]_vars PROVE [Store!Next]_Store!vars
  OBVIOUS
<1>1. ASSUME NEW r \in Requests, Commit(r) \/ CommitUnheard(r) PROVE [Store!Next]_Store!vars
  BY <1>1, PublishRefines DEF Commit, CommitUnheard
<1>2. ASSUME NEW r \in Requests, SetRole(r) PROVE [Store!Next]_Store!vars
  <2>1. /\ route[r] = "updateRole" /\ committed' \in {committed, committed \union {r}}
        /\ UNCHANGED <<route, saw, live>>
    BY <1>2, BeforeCommit DEF SetRole, RequestSound, RouteOfStep
  <2>2. IssuedCodes' = IssuedCodes
    BY <2>1 DEF IssuedCodes
  <2>3. SpentCodes' = SpentCodes
    BY <2>1 DEF SpentCodes
  <2> QED BY <2>1, <2>2, <2>3 DEF Store!vars
<1>3. ASSUME NEW r \in Requests, Discard(r) \/ FindCode(r) PROVE [Store!Next]_Store!vars
  <2>1. /\ TypeOK /\ r \notin committed /\ UNCHANGED <<route, live, committed>>
        /\ saw' = [saw EXCEPT ![r] = live[Mine(r)]]
    BY <1>3, BeforeCommit DEF Discard, FindCode
  <2>2. \A q \in committed : saw'[q] = saw[q]
    BY <2>1 DEF TypeOK
  <2> QED BY <2>1, <2>2, Stutters
<1>4. ASSUME NEW r \in Requests, NEW k \in Routes, Arrive(r, k) PROVE [Store!Next]_Store!vars
  <2>1. /\ TypeOK /\ r \notin committed /\ UNCHANGED <<saw, live, committed>>
        /\ route' = [route EXCEPT ![r] = k]
    BY <1>4, BeforeCommit DEF Arrive, rows
  <2>2. \A q \in committed : route'[q] = route[q]
    BY <2>1 DEF TypeOK
  <2> QED BY <2>1, <2>2, Stutters
<1>5. ASSUME NEW r \in Requests,
             \/ Admit(r) \/ Connect(r) \/ Read(r) \/ Rank(r) \/ InsertCode(r) \/ TakeCode(r)
             \/ Compare(r) \/ Write(r) \/ Call(r) \/ Fail(r) \/ ProbeFails(r)
      PROVE [Store!Next]_Store!vars
  <2>1. UNCHANGED <<route, saw, live, committed>>
    BY <1>5 DEF Admit, Connect, Read, Rank, InsertCode, TakeCode, Compare, Write, Call, Fail,
                ProbeFails, rows
  <2> QED BY <2>1, Stutters
<1>6. CASE UNCHANGED vars
  <2>1. UNCHANGED <<route, saw, live, committed>>
    BY <1>6 DEF vars, rows
  <2> QED BY <2>1, Stutters
<1> QED BY <1>1, <1>2, <1>3, <1>4, <1>5, <1>6 DEF Next, Step

\* Whatever the services do to the codes is an issue or a redemption of the one-time
\* store, or nothing.
THEOREM Refinement == Spec => ImplementsStore
<1>1. Init => Store!Init
  <2> SUFFICES ASSUME Init PROVE Store!Init
    OBVIOUS
  <2>1. IssuedCodes = {} /\ SpentCodes = {}
    BY DEF Init, IssuedCodes, SpentCodes
  <2>2. [v \in Usages |-> {live[v]} \ {NoCode}] = [v \in Usages |-> {}]
    BY DEF Init
  <2> QED BY <2>1, <2>2 DEF Store!Init
<1> QED BY <1>1, StepRefines, Invariant, PTL DEF Spec, ImplementsStore, Store!Spec
=============================================================================
