------------------------------ MODULE Requests ------------------------------
(***************************************************************************)
(* Requests, from the route to the answer: what each service asks of the   *)
(* connection pool, of the database's locks and of the JSON-keys service,  *)
(* in which order, and what its handler makes of the error it gets.        *)
(*                                                                         *)
(* Every request is handled once.  The code a request issues has the name  *)
(* of the request.  A code row is its committed state and the transaction  *)
(* that has written to it; ShortCodes.tla has the statements in between,   *)
(* and both implement OneTimeCodes.tla.                                    *)
(***************************************************************************)
EXTENDS Naturals, FiniteSets

CONSTANTS Requests,
          Routes,         \* those the requests of the instance take
          MaxOpenConns,   \* POSTGRES_MAX_OPEN_CONNS
          NoCode, Nobody

Asks == {"askRegister", "askEmailUpdate", "askReset"}
Redemptions == {"register", "updateEmail", "resetPassword"}
\* "read" is any of get, exist and list.
AllRoutes == Asks \union Redemptions \union
             {"changePassword", "updateRole", "signIn", "anon", "refresh", "read", "health"}

ASSUME RequestsAssumption ==
  /\ Routes \subseteq AllRoutes
  /\ MaxOpenConns \in Nat \ {0}
  /\ NoCode \notin Requests /\ Nobody \notin Requests

VARIABLES route,      \* route[r]: chosen when r arrives
          at,         \* at[r]: what r does or waits for
          holding,    \* the requests that hold a connection of the pool
          saw,        \* saw[r]: the code r's transaction has read
          live,       \* live[u]: the code of usage u that can be redeemed
          lock,       \* lock[row]: the transaction that has written the row
          result,     \* result[r]: what r's service has returned
          committed,  \* history: the requests whose writes are in the database
          overtaken   \* history: those whose code row another commit changed after they read it

rows == <<saw, live, lock>>
history == <<committed, overtaken>>
vars == <<route, at, holding, rows, result, history>>

Usages == {"register", "validateEmail", "resetPassword"}
Usage(k) == CASE k \in {"askRegister", "register"} -> "register"
              [] k \in {"askEmailUpdate", "updateEmail"} -> "validateEmail"
              [] OTHER -> "resetPassword"

Account == "account"   \* the row of the account all these requests are about
Rows == Usages \union {Account}

\* Statements with a connection of their own, and those of a transaction.
Standalone == {"read", "rank", "set role"}
InTx == {"discard", "insert code", "find code", "take code", "compare", "write", "commit"}
Steps == {"new", "admit", "begin", "call", "answered"} \union Standalone \union InTx

\* A SELECT finds "no account" where an UPDATE finds the "account gone": two errors.
Results == {"none", "ok", "unchanged", "rejected", "token error", "no code", "wrong code",
            "expired code", "code gone", "code exists", "address taken", "no account",
            "account gone", "wrong password", "rank", "fault"}

-----------------------------------------------------------------------------
(* The handlers.                                                            *)
\* The errors of the service a handler maps to a 4xx.
ErrMap(k) ==
  CASE k = "register" -> {"no code", "wrong code", "address taken"}
    [] k = "updateEmail" -> {"no code", "wrong code", "address taken", "account gone"}
    [] k = "resetPassword" -> {"no code", "wrong code", "expired code", "account gone"}
    [] k = "changePassword" -> {"wrong password", "account gone"}
    [] k = "updateRole" -> {"no account", "account gone", "rank"}
    [] k = "signIn" -> {"no account", "wrong password"}
    [] k \in {"refresh", "read"} -> {"no account"}
    [] OTHER -> {}

\* Those it answers as if nothing had happened, so that nobody learns which addresses
\* have accounts.
Concealed(k) == CASE k \in {"askRegister", "askEmailUpdate"} -> {"address taken"}
                  [] k = "askReset" -> {"no account"}
                  [] OTHER -> {}

\* httpf.HandleError: an error that is in no map is a 500.
Answer(k, e) == CASE e \in {"ok", "unchanged"} \union Concealed(k) -> "2xx"
                  [] e \in {"rejected"} \union ErrMap(k) -> "4xx"
                  [] OTHER -> "5xx"

\* The routes mounted with a permission, and the one with tokens in its body.
TakesToken(k) == k \notin {"signIn", "anon", "health"}

\* What the middleware and the handler refuse before the service is called, and
\* TokenRefresh before its only statement: tokens, permissions, bodies, fields.  A "token
\* error" is one they have no status for.  The middleware knows a false signature only: a
\* token that cannot be read, has expired or is for somebody else, or whose role is not
\* configured, is none.  TokenRefresh knows invalid claims too, which leaves the first.
Refusals(k) == (IF k \in {"anon", "health"} THEN {} ELSE {"rejected"})
               \union (IF TakesToken(k) THEN {"token error"} ELSE {})

First(k) == CASE k \in Redemptions \union {"changePassword"} -> "begin"
              [] k = "anon" -> "call"
              [] OTHER -> "read"

-----------------------------------------------------------------------------
Goto(r, step) == at' = [at EXCEPT ![r] = step]
Free(row, r) == lock[row] \in {Nobody, r}
Release(r) == /\ holding' = holding \ {r}
              /\ lock' = [row \in Rows |-> IF lock[row] = r THEN Nobody ELSE lock[row]]

\* Mutant: the transaction of a request that ends early stays open on the server.
Return_LeavesOpen(r, e) == /\ at' = [at EXCEPT ![r] = "answered"]
                           /\ result' = [result EXCEPT ![r] = e]
                           /\ holding' = holding \ {r} /\ UNCHANGED lock

\* The service returns, which ends its transaction if it is in one.
Return(r, e) == /\ Goto(r, "answered")
                /\ result' = [result EXCEPT ![r] = e]
                /\ Release(r)

Arrive(r, k) == /\ at[r] = "new"
                /\ route' = [route EXCEPT ![r] = k]
                /\ Goto(r, "admit")
                /\ UNCHANGED <<holding, rows, result, history>>

\* Verifying a token may need the keys of the JSON-keys service.
Admit(r) ==
  /\ at[r] = "admit"
  /\ \/ Goto(r, First(route[r])) /\ UNCHANGED <<holding, lock, result>>
     \/ \E e \in Refusals(route[r]) : Return(r, e)
  /\ UNCHANGED <<route, saw, live, history>>

\* A connection is free: for a statement, or for the whole of a transaction.
Body(k) == CASE k \in Asks -> "discard" [] k \in Redemptions -> "find code" [] OTHER -> "compare"
Connect(r) ==
  /\ at[r] \in Standalone \union {"begin"} /\ r \notin holding
  /\ Cardinality(holding) < MaxOpenConns
  /\ holding' = holding \union {r}
  /\ IF at[r] = "begin" THEN Goto(r, Body(route[r])) ELSE UNCHANGED at
  /\ UNCHANGED <<route, rows, result, history>>

-----------------------------------------------------------------------------
(* Statements outside a transaction.                                        *)
Running(r, step) == at[r] = step /\ r \in holding

\* What can be wrong with the account, or with there being one.
ReadErrors(k) == CASE k \in {"askRegister", "askEmailUpdate"} -> {"address taken"}
                   [] k = "signIn" -> {"no account", "wrong password"}
                   [] k \in {"askReset", "updateRole", "refresh", "read"} -> {"no account"}
                   [] OTHER -> {}
AfterRead(k) == CASE k \in Asks -> "begin" [] k = "updateRole" -> "rank" [] OTHER -> "call"

\* Mutant: the connection is kept for the statements to come.
Read_KeepsConnection(r) ==
  /\ Running(r, "read")
  /\ \/ route[r] # "read" /\ Goto(r, AfterRead(route[r])) /\ UNCHANGED <<holding, lock, result>>
     \/ route[r] = "read" /\ Return(r, "ok")
     \/ \E e \in ReadErrors(route[r]) : Return(r, e)
  /\ UNCHANGED <<route, saw, live, history>>

\* For "health" it is the ping.
Read(r) ==
  /\ Running(r, "read")
  /\ \/ /\ route[r] # "read"
        /\ Goto(r, AfterRead(route[r])) /\ Release(r) /\ UNCHANGED result
     \/ route[r] = "read" /\ Return(r, "ok")
     \/ \E e \in ReadErrors(route[r]) : Return(r, e)
  /\ UNCHANGED <<route, saw, live, history>>

\* The second SELECT of CredentialsUpdateRole, and what it decides.
Rank(r) ==
  /\ Running(r, "rank")
  /\ \/ Goto(r, "set role") /\ Release(r) /\ UNCHANGED result
     \/ \E e \in {"rank", "unchanged", "no account"} : Return(r, e)
  /\ UNCHANGED <<route, saw, live, history>>

SetRole(r) ==
  /\ Running(r, "set role") /\ Free(Account, r)
  /\ \/ Return(r, "ok") /\ committed' = committed \union {r}
     \/ Return(r, "account gone") /\ UNCHANGED committed
  /\ UNCHANGED <<route, saw, live, overtaken>>

-----------------------------------------------------------------------------
(* Transactions on a code.                                                  *)
Mine(r) == Usage(route[r])

\* The snapshot of discardConflicts.
Discard(r) ==
  /\ at[r] = "discard"
  /\ saw' = [saw EXCEPT ![r] = live[Mine(r)]]
  /\ Goto(r, "insert code")
  /\ UNCHANGED <<route, holding, live, lock, result, history>>

\* Whoever wrote the pair's rows has committed or not; the unique index decides.
InsertCode(r) ==
  /\ at[r] = "insert code" /\ Free(Mine(r), r)
  /\ IF live[Mine(r)] \in {NoCode, saw[r]}
     THEN /\ lock' = [lock EXCEPT ![Mine(r)] = r]
          /\ Goto(r, "commit") /\ UNCHANGED <<holding, result>>
     ELSE Return(r, "code exists")
  /\ UNCHANGED <<route, saw, live, history>>

\* ShortCodeConsume up to the comparison.  A code the database takes for live may have
\* expired by Go's clock.
FindCode(r) ==
  /\ at[r] = "find code"
  /\ saw' = [saw EXCEPT ![r] = live[Mine(r)]]
  /\ IF live[Mine(r)] = NoCode
     THEN Return(r, "no code")
     ELSE \/ Goto(r, "take code") /\ UNCHANGED <<holding, lock, result>>
          \/ \E e \in {"wrong code", "expired code"} : Return(r, e)
  /\ UNCHANGED <<route, live, history>>

\* Mutant: a row that is locked is taken for deleted.
TakeCode_SkipsLocked(r) ==
  /\ at[r] = "take code"
  /\ IF Free(Mine(r), r) /\ live[Mine(r)] = saw[r]
     THEN /\ lock' = [lock EXCEPT ![Mine(r)] = r]
          /\ Goto(r, "write") /\ UNCHANGED <<holding, result>>
     ELSE Return(r, "code gone")
  /\ UNCHANGED <<route, saw, live, history>>

\* Mutant: the row is deleted by its id, deleted already or not.
TakeCode_DeletedToo(r) ==
  /\ at[r] = "take code" /\ Free(Mine(r), r)
  /\ lock' = [lock EXCEPT ![Mine(r)] = r]
  /\ Goto(r, "write")
  /\ UNCHANGED <<route, holding, result, saw, live, history>>

\* ShortCodeDelete waits for the row and looks at it again.
TakeCode(r) ==
  /\ at[r] = "take code" /\ Free(Mine(r), r)
  /\ IF live[Mine(r)] = saw[r]
     THEN /\ lock' = [lock EXCEPT ![Mine(r)] = r]
          /\ Goto(r, "write") /\ UNCHANGED <<holding, result>>
     ELSE Return(r, "code gone")
  /\ UNCHANGED <<route, saw, live, history>>

\* The account's SELECT and the current password, for a change without a code.
Compare(r) ==
  /\ at[r] = "compare"
  /\ \/ Goto(r, "write") /\ UNCHANGED <<holding, lock, result>>
     \/ \E e \in {"no account", "wrong password"} : Return(r, e)
  /\ UNCHANGED <<route, saw, live, history>>

\* The unique index on addresses, and an UPDATE that finds no row.
WriteErrors(k) == CASE k = "register" -> {"address taken"}
                    [] k = "updateEmail" -> {"address taken", "account gone"}
                    [] OTHER -> {"account gone"}

\* Mutant: the statement is run with the context from outside WithinTx.
Write_OuterContext(r) ==
  /\ at[r] = "write" /\ Cardinality(holding) < MaxOpenConns
  /\ route[r] # "register" => Free(Account, r)
  /\ \/ /\ Goto(r, "commit") /\ UNCHANGED <<holding, result>>
        /\ lock' = IF route[r] = "register" THEN lock ELSE [lock EXCEPT ![Account] = r]
     \/ \E e \in WriteErrors(route[r]) : Return(r, e)
  /\ UNCHANGED <<route, saw, live, history>>

\* The credentials: a row of its own for a registration, the account's otherwise, once
\* nobody else holds it.
Write(r) ==
  /\ at[r] = "write"
  /\ route[r] # "register" => Free(Account, r)
  /\ \/ /\ Goto(r, "commit") /\ UNCHANGED <<holding, result>>
        /\ lock' = IF route[r] = "register" THEN lock ELSE [lock EXCEPT ![Account] = r]
     \/ \E e \in WriteErrors(route[r]) : Return(r, e)
  /\ UNCHANGED <<route, saw, live, history>>

\* What others wait for on the row of a code, having read it.
Reading(u) == {q \in Requests : at[q] \in {"insert code", "take code"} /\ Mine(q) = u}

Publish(r) ==
  /\ at[r] = "commit"
  /\ committed' = committed \union {r}
  /\ IF route[r] \in Asks \union Redemptions
     THEN /\ live' = [live EXCEPT ![Mine(r)] = IF route[r] \in Asks THEN r ELSE NoCode]
          /\ overtaken' = overtaken \union Reading(Mine(r))
     ELSE UNCHANGED <<live, overtaken>>
  /\ UNCHANGED <<route, saw>>

\* A registration signs its tokens when the account is committed.
Commit(r) == /\ Publish(r)
             /\ IF route[r] = "register"
                THEN Goto(r, "call") /\ Release(r) /\ UNCHANGED result
                ELSE Return(r, "ok")

\* The connection is lost after the server has committed.
CommitUnheard(r) == Publish(r) /\ Return(r, "fault")

\* The JSON-keys service answers.
Call(r) == /\ at[r] = "call"
           /\ Return(r, "ok")
           /\ UNCHANGED <<route, saw, live, history>>

-----------------------------------------------------------------------------
\* Mutant: the error of the commit is dropped.
Fail_NotAtCommit(r) ==
  /\ at[r] \notin {"new", "answered"} /\ route[r] # "health"
  /\ Return(r, IF at[r] = "commit" THEN "ok" ELSE "fault")
  /\ UNCHANGED <<route, saw, live, history>>

\* A lost connection, REST_TIMEOUT_REQUEST, a client that leaves, a panic, a deadlock
\* victim, a call that fails.
Fail(r) ==
  /\ at[r] \notin {"new", "answered"} /\ route[r] # "health"
  /\ Return(r, "fault")
  /\ UNCHANGED <<route, saw, live, history>>

\* The health check reports what fails, and Ping does not take the request's context:
\* waiting for a connection, it does not give up.
ProbeFails(r) ==
  /\ route[r] = "health" /\ at[r] \in {"read", "call"}
  /\ at[r] = "read" => r \in holding
  /\ IF at[r] = "read" THEN Goto(r, "call") /\ Release(r) /\ UNCHANGED result
                       ELSE Return(r, "ok")
  /\ UNCHANGED <<route, saw, live, history>>

Init == /\ route = [r \in Requests |-> "none"]
        /\ at = [r \in Requests |-> "new"]
        /\ holding = {}
        /\ saw = [r \in Requests |-> NoCode]
        /\ live = [u \in Usages |-> NoCode]
        /\ lock = [row \in Rows |-> Nobody]
        /\ result = [r \in Requests |-> "none"]
        /\ committed = {} /\ overtaken = {}

\* What the process and the database do by themselves.
Step(r) == \/ Connect(r) \/ Read(r) \/ Rank(r) \/ SetRole(r)
           \/ Discard(r) \/ InsertCode(r)
           \/ FindCode(r) \/ TakeCode(r) \/ Compare(r) \/ Write(r)
           \/ Commit(r)

Next == \E r \in Requests :
          \/ \E k \in Routes : Arrive(r, k)
          \/ Admit(r) \/ Step(r) \/ Call(r)
          \/ CommitUnheard(r) \/ Fail(r) \/ ProbeFails(r)

Spec == Init /\ [][Next]_vars

\* A goroutine is scheduled, the pool hands freed connections to those who wait, and
\* PostgreSQL does the same with rows.  The JSON-keys service may never answer.
FairSpec == Spec /\ \A r \in Requests : WF_vars(Step(r))

-----------------------------------------------------------------------------
(* Properties.                                                              *)
Coded(k) == k \in Asks \union Redemptions
Transactional(k) == Coded(k) \/ k = "changePassword"
Writing(k) == Transactional(k) \/ k = "updateRole"
Answered(r, class) == at[r] = "answered" /\ Answer(route[r], result[r]) = class

TypeOK == /\ route \in [Requests -> AllRoutes \union {"none"}]
          /\ at \in [Requests -> Steps]
          /\ holding \subseteq Requests
          /\ saw \in [Requests -> Requests \union {NoCode}]
          /\ live \in [Usages -> Requests \union {NoCode}]
          /\ lock \in [Rows -> Requests \union {Nobody}]
          /\ result \in [Requests -> Results]
          /\ committed \subseteq Requests /\ overtaken \subseteq Requests

\* A connection is held for one statement or one transaction: whoever has one is at a
\* statement, never waiting for the next connection (the pool would be full of those
\* who wait for it) nor for the JSON-keys service (one that hangs would empty the pool).
HoldersNeverWait == \A r \in holding : at[r] \in Standalone \union InTx

\* What the client is told is what the database has: "done" means that the write is
\* committed, unless there was nothing to write or the answer conceals that; refused
\* means that nothing is.  After a 5xx either may be the case.
AnswersTruthful ==
  \A r \in Requests :
    /\ Answered(r, "2xx") /\ Writing(route[r]) /\ result[r] = "ok" => r \in committed
    /\ Answered(r, "4xx") => r \notin committed

\* Every server error no fault is behind: a token nobody has a status for, a change of
\* password that finds no account, a code that expires under the reader where the handler
\* forgets that, and the loser of a race for a code, whose row was changed by another
\* commit after it was read.  Nothing else a client sends, and no other race, is answered
\* as a failure of the server.
ServerErrorsExplained ==
  \A r \in Requests :
    Answered(r, "5xx") =>
      \/ result[r] = "fault"
      \/ result[r] = "token error" /\ TakesToken(route[r])
      \/ result[r] = "no account" /\ route[r] = "changePassword"
      \/ result[r] = "expired code" /\ route[r] \in {"register", "updateEmail"}
      \/ result[r] \in {"code gone", "code exists"} /\ r \in overtaken

\* Whoever is past the middleware is answered, or waits for the JSON-keys service,
\* even if that never answers anybody: the pool and the rows do not fill up.
Served == \A r \in Requests :
            at[r] \notin {"new", "admit"} ~> at[r] \in {"call", "answered"}

\* What Served takes, fairness apart.  Every service writes the row of a code before the
\* row of the account and commits when it has that: a request that waits for a row waits
\* for one that is about to commit, or for one that waits for such a one.
RowOf(r) == IF at[r] \in {"insert code", "take code"} THEN Mine(r) ELSE Account
NeedsRow(r) == \/ at[r] \in {"insert code", "take code"}
               \/ at[r] = "write" /\ route[r] # "register"
               \/ at[r] = "set role" /\ r \in holding
Blocked(r) == NeedsRow(r) /\ ~Free(RowOf(r), r)
WaitsAreShort ==
  \A r \in Requests : Blocked(r) =>
    LET q == lock[RowOf(r)]
    IN /\ q \in holding /\ at[q] \in {"write", "commit"}
       /\ Blocked(q) => at[r] # "write" /\ at[lock[RowOf(q)]] = "commit"

\* The pool never holds only requests that wait for each other: as long as anybody has a
\* connection, somebody who has one waits for nothing.
PoolMoves == holding # {} => \E r \in holding : ~Blocked(r)

\* No service goes back to an earlier step: nothing is retried.
Place(step) ==
  CASE step = "new" -> 0 [] step = "admit" -> 1
    [] step = "read" -> 2 [] step = "rank" -> 3 [] step = "set role" -> 4
    [] step = "begin" -> 5 [] step \in {"discard", "find code", "compare"} -> 6
    [] step \in {"insert code", "take code"} -> 7
    [] step = "write" -> 8 [] step = "commit" -> 9
    [] step = "call" -> 10 [] step = "answered" -> 11
ForwardOnly ==
  [][\A r \in Requests : at'[r] # at[r] => Place(at'[r]) > Place(at[r])]_vars

\* The code a request for a code has committed, and the one a redemption has.
IssuedCodes == {r \in committed : route[r] \in Asks}
SpentCodes == {saw[r] : r \in {q \in committed : route[q] \in Redemptions}}

\* Together the services keep the promises of the one-time store.
Store == INSTANCE OneTimeCodes WITH
           Pairs <- Usages, Codes <- Requests,
           issued <- IssuedCodes, spent <- SpentCodes,
           live <- [u \in Usages |-> {live[u]} \ {NoCode}]
ImplementsStore == Store!Spec

-----------------------------------------------------------------------------
(* The inductive invariant.                                                 *)
RouteOfStep(r) ==
  /\ at[r] \in {"discard", "insert code"} => route[r] \in Asks
  /\ at[r] \in {"find code", "take code"} => route[r] \in Redemptions
  /\ at[r] = "compare" => route[r] = "changePassword"
  /\ at[r] = "write" => Transactional(route[r]) /\ route[r] \notin Asks
  /\ at[r] \in {"begin", "commit"} => Transactional(route[r])
  /\ at[r] \in {"rank", "set role"} => route[r] = "updateRole"
  /\ at[r] = "read" => ~Transactional(route[r]) \/ route[r] \in Asks
  /\ at[r] = "call" => ~Writing(route[r]) \/ route[r] = "register"

InTxHolds(r) == at[r] \in InTx => r \in holding

\* Only an open transaction has rows, and one about to commit has its code's.
LockSound == \A row \in Rows :
               lock[row] # Nobody =>
                 /\ at[lock[row]] \in {"write", "commit"}
                 /\ row \in Usages => Mine(lock[row]) = row /\ Coded(route[lock[row]])
HasCode(r) ==
  at[r] \in {"write", "commit"} /\ Coded(route[r]) =>
    /\ lock[Mine(r)] = r
    /\ route[r] \in Redemptions => saw[r] = live[Mine(r)] /\ saw[r] # NoCode

\* What a request has read is what there is, or it is known to be overtaken.
ReadSound(r) ==
  /\ at[r] \in {"insert code", "take code"} /\ saw[r] # live[Mine(r)] => r \in overtaken
  /\ at[r] = "take code" => saw[r] # NoCode

LiveSound ==
  /\ SpentCodes \subseteq IssuedCodes
  /\ \A u \in Usages : live[u] # NoCode => /\ live[u] \in IssuedCodes \ SpentCodes
                                         /\ Mine(live[u]) = u

CommittedSound(r) ==
  /\ r \in committed => at[r] \in {"call", "answered"} /\ Writing(route[r])
  /\ at[r] = "call" /\ route[r] = "register" => r \in committed

RequestSound(r) == /\ RouteOfStep(r) /\ InTxHolds(r) /\ HasCode(r)
                   /\ ReadSound(r) /\ CommittedSound(r)

\* Who has written the account's row has nothing left to wait for.
AccountLast == lock[Account] # Nobody => at[lock[Account]] = "commit"

RequestsInv == /\ TypeOK
               /\ HoldersNeverWait
               /\ LockSound /\ LiveSound
               /\ \A r \in Requests : RequestSound(r)
               /\ AnswersTruthful /\ ServerErrorsExplained
=============================================================================
