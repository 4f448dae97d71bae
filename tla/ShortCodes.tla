----------------------------- MODULE ShortCodes -----------------------------
(***************************************************************************)
(* The short_codes table and the two operations on it, ShortCodeInsert and *)
(* ShortCodeConsume, statement by statement, as PostgreSQL runs them at    *)
(* read committed for requests that arrive concurrently.                   *)
(*                                                                         *)
(* A row has the version last committed and, while a transaction holds its *)
(* lock, the version that transaction wrote.  An UPDATE finds its rows in  *)
(* the snapshot of its start, waits for each to be unlocked and evaluates  *)
(* its WHERE clause again on what was committed meanwhile.  An INSERT      *)
(* waits for a transaction whose outcome decides a unique violation.       *)
(*                                                                         *)
(* Time is counted in half seconds, so that the rounding of the            *)
(* timestamp(0) columns to whole seconds is visible.                       *)
(***************************************************************************)
EXTENDS Integers, FiniteSets

CONSTANTS Sessions,   \* the requests that can be in flight together
          Codes,      \* row identities; a row's identity stands for its plaintext
          Pairs,      \* the (usage, target) pairs
          TTL,        \* lifetime of a code, in half seconds
          Skew,       \* how far a Go clock is from the database's, either way
          MaxTime,    \* bound on the database clock
          NoSession, NoCode

ASSUME ConstantsAssumption ==
  /\ NoSession \notin Sessions /\ NoCode \notin Codes
  /\ Pairs # {}
  /\ TTL \in Nat \ {0}
  /\ Skew \in Nat
  /\ MaxTime \in Nat

VARIABLES committed,  \* committed[c]: the version of row c every snapshot sees
          latest,     \* latest[c]: the newest version of row c, committed or not
          writer,     \* writer[c]: the session whose transaction wrote latest[c]
          pc,         \* pc[s]: the statement the request of session s is at
          job,        \* job[s]: the inputs and locals of that request
          now,        \* the database clock
          uses        \* history: how many redemptions of each code committed

rows == <<committed, latest, writer>>
vars == <<committed, latest, writer, pc, job, now, uses>>

-----------------------------------------------------------------------------
(* Rows.  deleted_at and deleted_comment are always written together, so    *)
(* the comment is the row's status and "live" stands for deleted_at NULL.   *)
Dead == {"overridden", "expired", "consumed"}

Row == [status : {"absent", "live"} \union Dead,
        pair : Pairs, expires : Int, deleted : Int]

AnyPair == CHOOSE p \in Pairs : TRUE
NoRow == [status |-> "absent", pair |-> AnyPair, expires |-> 0, deleted |-> 0]

Live(row, p) == row.status = "live" /\ row.pair = p

Second == 2
\* What a timestamp(0) column keeps of t: the nearest second, halves up.
Stored(t) == Second * ((t + 1) \div Second)

\* What a Go process may read from its clock.
Reading(t) == t \in (now - Skew)..(now + Skew)

\* What the statements of s see of row c: its own writes, else what is committed.
View(s, c) == IF writer[c] = s THEN latest[c] ELSE committed[c]

-----------------------------------------------------------------------------
(* Requests.                                                                *)
Steps == {"idle", "begin", "discard", "discarding", "check", "insert",
          "select", "verify", "delete", "deleting", "work", "commit"}

Job == [kind : {"none", "issue", "consume"},
        pair : Pairs,
        code : Codes \union {NoCode},  \* the row to insert, or the code submitted
        override : BOOLEAN,
        time : Int,              \* request.Now, read before the transaction
        start : Int,             \* CURRENT_TIMESTAMP: when the transaction began
        found : SUBSET Codes,    \* the rows the running statement has still to lock
        known : SUBSET Codes]    \* history: rows committed when the discard started

NoJob == [kind |-> "none", pair |-> AnyPair, code |-> NoCode, override |-> FALSE,
          time |-> 0, start |-> 0, found |-> {}, known |-> {}]

Goto(s, step) == pc' = [pc EXCEPT ![s] = step]

Write(s, c, row) == /\ latest' = [latest EXCEPT ![c] = row]
                    /\ writer' = [writer EXCEPT ![c] = s]
                    /\ UNCHANGED committed

-----------------------------------------------------------------------------
(* The WHERE clauses.                                                       *)
\* Mutant: only codes not expired yet are replaced.
DiscardsConflict_KeepsExpired(s, row) ==
  /\ row.pair = job[s].pair
  /\ row.status = "live" \/ (row.status \in Dead /\ row.deleted > job[s].start)
  /\ row.expires > job[s].start

\* Mutant: the usage and target are left out of the WHERE clause.
DiscardsConflict_AnyPair(s, row) ==
  row.status = "live" \/ (row.status \in Dead /\ row.deleted > job[s].start)

DiscardsConflict(s, row) ==
  /\ row.pair = job[s].pair
  /\ row.status = "live" \/ (row.status \in Dead /\ row.deleted > job[s].start)

\* Mutant: a code still counts at the instant it expires.
DiscardsExpired_Before(s, row) ==
  Live(row, job[s].pair) /\ row.expires < job[s].time

DiscardsExpired(s, row) ==
  Live(row, job[s].pair) /\ row.expires <= job[s].time

Discards(s, row) == IF job[s].override THEN DiscardsConflict(s, row)
                                       ELSE DiscardsExpired(s, row)

\* The row after the discard statement of s.
Discarded(s, row) ==
  IF job[s].override
  THEN [row EXCEPT !.status = "overridden", !.deleted = Stored(job[s].time - Second)]
  ELSE [row EXCEPT !.status = "expired", !.deleted = Stored(job[s].time)]

CheckMatches(s, row) ==
  /\ row.pair = job[s].pair
  /\ row.status = "live" \/ (row.status \in Dead /\ row.deleted > job[s].start)
  /\ row.expires > job[s].start

SelectMatches(s, row) == Live(row, job[s].pair) /\ row.expires > job[s].start

\* Mutant: "deleted_at IS NULL" is left out.
DeleteMatches_Deleted(s, row) == row.status # "absent" /\ row.expires > job[s].start

DeleteMatches(s, row) == row.status = "live" /\ row.expires > job[s].start

-----------------------------------------------------------------------------
(* The end of a transaction.                                                *)
\* Everything s wrote becomes what others see.
Publish(s) ==
  /\ committed' = [c \in Codes |-> View(s, c)]
  /\ writer' = [c \in Codes |-> IF writer[c] = s THEN NoSession ELSE writer[c]]
  /\ UNCHANGED latest

Return(s) == Goto(s, "idle") /\ job' = [job EXCEPT ![s] = NoJob]

\* WithinTx rolls back when its callback returns an error.
Rollback(s) ==
  /\ latest' = [c \in Codes |-> IF writer[c] = s THEN committed[c] ELSE latest[c]]
  /\ writer' = [c \in Codes |-> IF writer[c] = s THEN NoSession ELSE writer[c]]
  /\ Return(s)
  /\ UNCHANGED <<committed, now, uses>>

Commit(s) ==
  /\ pc[s] = "commit"
  /\ Publish(s)
  /\ uses' = IF job[s].kind = "consume"
             THEN [uses EXCEPT ![job[s].code] = @ + 1] ELSE uses
  /\ Return(s)
  /\ UNCHANGED now

-----------------------------------------------------------------------------
(* core/ShortCodeCreate and dao/ShortCodeInsert.                            *)
Fresh(c) == /\ latest[c].status = "absent"
            /\ \A s \in Sessions : ~(job[s].kind = "issue" /\ job[s].code = c)

\* ShortCodeCreate reads the clock and draws an identity before the transaction.
Issue(s, p, c, ov, t) ==
  /\ pc[s] = "idle" /\ Fresh(c) /\ Reading(t)
  /\ job' = [job EXCEPT ![s] = [NoJob EXCEPT
       !.kind = "issue", !.pair = p, !.code = c, !.override = ov, !.time = t]]
  /\ Goto(s, "begin")
  /\ UNCHANGED <<rows, now, uses>>

\* BEGIN: every CURRENT_TIMESTAMP of the transaction is this instant.
Begin(s) == /\ pc[s] = "begin"
            /\ job' = [job EXCEPT ![s].start = now]
            /\ Goto(s, IF job[s].kind = "issue" THEN "discard" ELSE "select")
            /\ UNCHANGED <<rows, now, uses>>

\* The snapshot of the discard statement: discardConflicts or discardExpired.
DiscardScan(s) ==
  /\ pc[s] = "discard"
  /\ job' = [job EXCEPT ![s].found = {c \in Codes : Discards(s, View(s, c))},
                        ![s].known = {c \in Codes : committed[c].status # "absent"}]
  /\ Goto(s, "discarding")
  /\ UNCHANGED <<rows, now, uses>>

\* Mutant: the row is updated without waiting for its lock.
DiscardRow_Unlocked(s, c) ==
  /\ pc[s] = "discarding" /\ c \in job[s].found
  /\ IF Discards(s, committed[c]) THEN Write(s, c, Discarded(s, committed[c]))
                                  ELSE UNCHANGED rows
  /\ job' = [job EXCEPT ![s].found = @ \ {c}]
  /\ UNCHANGED <<pc, now, uses>>

\* One row of the snapshot, once no other transaction holds it.
DiscardRow(s, c) ==
  /\ pc[s] = "discarding" /\ c \in job[s].found /\ writer[c] = NoSession
  /\ IF Discards(s, committed[c]) THEN Write(s, c, Discarded(s, committed[c]))
                                  ELSE UNCHANGED rows
  /\ job' = [job EXCEPT ![s].found = @ \ {c}]
  /\ UNCHANGED <<pc, now, uses>>

DiscardDone(s) ==
  /\ pc[s] = "discarding" /\ job[s].found = {}
  /\ Goto(s, IF job[s].override THEN "insert" ELSE "check")
  /\ UNCHANGED <<rows, job, now, uses>>

Conflicts(s) == {c \in Codes : CheckMatches(s, View(s, c))}

\* checkConflicts refuses on RowsAffected() == 1.
CheckPasses(s) == /\ pc[s] = "check" /\ Cardinality(Conflicts(s)) # 1
                  /\ Goto(s, "insert")
                  /\ UNCHANGED <<rows, job, now, uses>>

CheckRefuses(s) == /\ pc[s] = "check" /\ Cardinality(Conflicts(s)) = 1
                   /\ Rollback(s)

\* The rows the unique index holds against the insert of s, and the transactions
\* whose outcome it must await to know of others.
Violated(s) == {c \in Codes : /\ writer[c] \in {NoSession, s}
                              /\ Live(latest[c], job[s].pair)}

\* Mutant: transactions in flight do not count, as without the unique index.
InsertAwaits_Nobody(s) == {}

InsertAwaits(s) == {c \in Codes : /\ writer[c] \notin {NoSession, s}
                                  /\ \/ Live(committed[c], job[s].pair)
                                     \/ Live(latest[c], job[s].pair)}

InsertRow(s) ==
  /\ pc[s] = "insert" /\ Violated(s) = {} /\ InsertAwaits(s) = {}
  /\ Write(s, job[s].code,
           [status |-> "live", pair |-> job[s].pair,
            expires |-> Stored(job[s].time + TTL), deleted |-> 0])
  /\ Goto(s, "commit")
  /\ UNCHANGED <<job, now, uses>>

\* SQLSTATE 23505, mapped to ErrShortCodeInsertAlreadyExists.
InsertRefused(s) == pc[s] = "insert" /\ Violated(s) # {} /\ Rollback(s)

-----------------------------------------------------------------------------
(* core/ShortCodeConsume, inside the transaction of the operation the code  *)
(* authorises.                                                              *)
Consume(s, p, c) ==
  /\ pc[s] = "idle"
  /\ job' = [job EXCEPT ![s] = [NoJob EXCEPT !.kind = "consume", !.pair = p, !.code = c]]
  /\ Goto(s, "begin")
  /\ UNCHANGED <<rows, now, uses>>

Select(s) ==
  /\ pc[s] = "select"
  /\ \E c \in Codes : /\ SelectMatches(s, View(s, c))
                      /\ job' = [job EXCEPT ![s].found = {c}]
  /\ Goto(s, "verify")
  /\ UNCHANGED <<rows, now, uses>>

SelectMisses(s) == /\ pc[s] = "select"
                   /\ \A c \in Codes : ~SelectMatches(s, View(s, c))
                   /\ Rollback(s)

\* ExpiresAt.Before(time.Now()) is the first test, CompareArgon2 the second.
Accepts(s, c, t) == committed[c].expires >= t /\ job[s].code = c

Verify(s, t) == /\ pc[s] = "verify" /\ Reading(t)
                /\ \A c \in job[s].found : Accepts(s, c, t)
                /\ Goto(s, "delete")
                /\ UNCHANGED <<rows, job, now, uses>>

VerifyRefuses(s, t) == /\ pc[s] = "verify" /\ Reading(t)
                       /\ \E c \in job[s].found : ~Accepts(s, c, t)
                       /\ Rollback(s)

\* The snapshot of the UPDATE that retires the code, and the time it will record.
DeleteScan(s, t) ==
  /\ pc[s] = "delete" /\ Reading(t)
  /\ job' = [job EXCEPT ![s].time = t,
                        ![s].found = {c \in @ : DeleteMatches(s, View(s, c))}]
  /\ Goto(s, "deleting")
  /\ UNCHANGED <<rows, now, uses>>

DeleteRow(s, c) ==
  /\ pc[s] = "deleting" /\ c \in job[s].found /\ writer[c] = NoSession
  /\ DeleteMatches(s, committed[c])
  /\ Write(s, c, [committed[c] EXCEPT !.status = "consumed",
                                      !.deleted = Stored(job[s].time)])
  /\ Goto(s, "work")
  /\ UNCHANGED <<job, now, uses>>

\* Mutant: a row somebody holds counts as gone (SKIP LOCKED).
DeleteMisses_SkipsLocked(s) ==
  /\ pc[s] = "deleting"
  /\ \A c \in job[s].found : writer[c] # NoSession \/ ~DeleteMatches(s, committed[c])
  /\ Rollback(s)

\* No row comes back: ErrShortCodeDeleteNotFound.
DeleteMisses(s) ==
  /\ pc[s] = "deleting"
  /\ \A c \in job[s].found : writer[c] = NoSession /\ ~DeleteMatches(s, committed[c])
  /\ Rollback(s)

\* What the caller does in the same transaction: it succeeds, or its error rolls
\* the redemption back with it.
WorkSucceeds(s) == pc[s] = "work" /\ Goto(s, "commit") /\ UNCHANGED <<rows, job, now, uses>>

\* Mutant: the redemption is not in the caller's transaction.
WorkFails_KeepsRedemption(s) ==
  pc[s] = "work" /\ Publish(s) /\ Return(s) /\ UNCHANGED <<now, uses>>

WorkFails(s) == pc[s] = "work" /\ Rollback(s)

-----------------------------------------------------------------------------
(* What happens to a request from outside.                                  *)
\* The process dies, the request's context ends or the connection is lost.
Abort(s) == pc[s] # "idle" /\ Rollback(s)

\* The sessions whose transactions s waits for.
Awaits(s) ==
  CASE pc[s] \in {"discarding", "deleting"} /\ job[s].found # {} ->
         IF \E c \in job[s].found : writer[c] = NoSession THEN {}
         ELSE {writer[c] : c \in job[s].found}
    [] pc[s] = "insert" /\ Violated(s) = {} -> {writer[c] : c \in InsertAwaits(s)}
    [] OTHER -> {}

\* PostgreSQL's deadlock detector cancels a member of a circle of waiters.
Circle(C) == \A s \in C : Awaits(s) \intersect C # {}

\* Mutant: nobody looks for circles.
DeadlockVictim_Never(s) == FALSE /\ Rollback(s)

DeadlockVictim(s) ==
  /\ \E C \in SUBSET Sessions : s \in C /\ Circle(C)
  /\ Rollback(s)

Tick == /\ now < MaxTime
        /\ now' = now + 1
        /\ UNCHANGED <<rows, pc, job, uses>>

-----------------------------------------------------------------------------
Init == /\ committed = [c \in Codes |-> NoRow]
        /\ latest = committed
        /\ writer = [c \in Codes |-> NoSession]
        /\ pc = [s \in Sessions |-> "idle"]
        /\ job = [s \in Sessions |-> NoJob]
        /\ now = 0
        /\ uses = [c \in Codes |-> 0]

\* The end of a statement that may have had to wait for another transaction.
Acquire(s) == \/ \E c \in Codes : DiscardRow(s, c) \/ DeleteRow(s, c)
              \/ InsertRow(s) \/ InsertRefused(s)
              \/ DeleteMisses(s)

\* A step the request takes on its own.
Advance(s) ==
  \/ Begin(s) \/ DiscardScan(s) \/ DiscardDone(s)
  \/ CheckPasses(s) \/ CheckRefuses(s)
  \/ Select(s) \/ SelectMisses(s)
  \/ \E t \in (now - Skew)..(now + Skew) :
       Verify(s, t) \/ VerifyRefuses(s, t) \/ DeleteScan(s, t)
  \/ WorkSucceeds(s) \/ WorkFails(s) \/ Commit(s)
  \/ DeadlockVictim(s)

Arrive(s) == \E p \in Pairs, c \in Codes :
               \/ Consume(s, p, c)
               \/ \E ov \in BOOLEAN, t \in (now - Skew)..(now + Skew) : Issue(s, p, c, ov, t)

Next == Tick \/ \E s \in Sessions : Arrive(s) \/ Advance(s) \/ Acquire(s) \/ Abort(s)

Spec == Init /\ [][Next]_vars

\* A request is not left alone by the scheduler, and PostgreSQL queues those who
\* wait for the same row.
FairSpec == Spec /\ \A s \in Sessions : WF_vars(Advance(s)) /\ SF_vars(Acquire(s))

-----------------------------------------------------------------------------
TypeOK == /\ committed \in [Codes -> Row]
          /\ latest \in [Codes -> Row]
          /\ writer \in [Codes -> Sessions \union {NoSession}]
          /\ pc \in [Sessions -> Steps]
          /\ job \in [Sessions -> Job]
          /\ now \in 0..MaxTime
          /\ uses \in [Codes -> Nat]

\* A (usage, target) pair has at most one row that is not deleted, however the
\* inserts, overrides and redemptions of the pair interleave: the partial unique
\* index short_codes_active_target_usage_uniq.
OneLiveRow == \A p \in Pairs, c, d \in Codes :
                Live(committed[c], p) /\ Live(committed[d], p) => c = d

\* ShortCodeConsume: two requests that both read and both accept the same code
\* never both commit the operation it authorises.
RedeemedOnce == \A c \in Codes : uses[c] <= 1

\* The comment "key consumed" is on a row only if the operation the code
\* authorised committed: a failed operation does not burn the code.
ConsumedMeansDone == \A c \in Codes : committed[c].status = "consumed" => uses[c] = 1

Store == INSTANCE OneTimeCodes WITH
           issued <- {c \in Codes : committed[c].status # "absent"},
           live <- [p \in Pairs |-> {c \in Codes : Live(committed[c], p)}],
           spent <- {c \in Codes : uses[c] > 0}

\* The table implements the abstract store: commits are the only visible steps,
\* and each issues one code in place of the pair's last one or redeems the one code
\* of the pair.
ImplementsStore == Store!Spec

\* An override is refused only by a code committed after its own discard
\* statement began, never by one it was there to replace (shortCodeInsert's
\* "the loser" of two simultaneous overrides).
OverrideLosesToNewer ==
  [][\A s \in Sessions :
       InsertRefused(s) /\ job[s].override => Violated(s) \intersect job[s].known = {}]_vars

\* Without Override a code that had expired when the request read its clock never blocks
\* the new one ("those stale rows never block a fresh insert"): whatever refuses the
\* insert was in time then, or was committed after the discard statement began.
ExpiredNeverBlocks ==
  [][\A s \in Sessions : InsertRefused(s) /\ ~job[s].override =>
       \A c \in Violated(s) \intersect job[s].known : latest[c].expires > job[s].time]_vars

\* A code that was found, in time and matching, is only refused at the delete
\* when it is really gone: redeemed or replaced by a committed transaction, not by
\* one that rolled back.
RefusedOnlyIfGone ==
  [][\A s \in Sessions :
       pc[s] = "deleting" /\ DeleteMisses(s) => committed[job[s].code].status \in Dead]_vars

\* Every request is answered: no wait is endless, neither for a row nor for the unique
\* index, nor in a circle of both: an override that waits for the row of an override which
\* waits, with its INSERT, for the first.
RequestsReturn == \A s \in Sessions : pc[s] # "idle" ~> pc[s] = "idle"

\* What RequestsReturn takes, fairness apart.  A request only ever waits for another one of
\* its own usage and target, and for one that is still open: targets do not block each
\* other, and no lock outlives its transaction.
WaitsStayLocal ==
  \A s \in Sessions : \A w \in Awaits(s) :
    /\ w \in Sessions \ {s} /\ pc[w] # "idle"
    /\ job[w].pair = job[s].pair

\* Of the open requests of a target one waits for nobody, or they are a circle and each
\* can be the detector's victim.
OpenOn(p) == {s \in Sessions : pc[s] # "idle" /\ job[s].pair = p}
SomebodyMoves ==
  \A p \in Pairs : (\A s \in OpenOn(p) : Awaits(s) # {}) => Circle(OpenOn(p))

\* A request runs no statement twice and locks no row twice: it goes on to a later
\* statement, has one row less to lock, or ends.
Place(step) ==
  CASE step = "begin" -> 1
    [] step \in {"discard", "select"} -> 2
    [] step \in {"discarding", "verify"} -> 3
    [] step \in {"check", "delete"} -> 4
    [] step \in {"insert", "deleting"} -> 5
    [] step = "work" -> 6
    [] step = "commit" -> 7
    [] step = "idle" -> 8
ForwardOnly ==
  [][\A s \in Sessions :
       pc[s] # "idle" /\ (pc'[s] # pc[s] \/ job'[s] # job[s]) =>
         \/ Place(pc'[s]) > Place(pc[s])
         \/ /\ pc'[s] = pc[s]
            /\ job'[s].found \subseteq job[s].found /\ job'[s].found # job[s].found]_vars

-----------------------------------------------------------------------------
(* Why OneLiveRow and RedeemedOnce hold: the inductive invariant.           *)
Issuing(s) == job[s].kind = "issue" /\ pc[s] # "idle"
Consuming(s) == job[s].kind = "consume" /\ pc[s] # "idle"

\* Which requests are at which statements.
StepsOfKind ==
  \A s \in Sessions :
    /\ pc[s] \in {"discard", "discarding", "check", "insert"} => job[s].kind = "issue"
    /\ pc[s] \in {"select", "verify", "delete", "deleting", "work"} => job[s].kind = "consume"
    /\ pc[s] # "idle" => job[s].code \in Codes
    /\ pc[s] = "idle" <=> job[s].kind = "none"

\* A row nobody holds has one version; a deleted row stays deleted, an inserted one
\* stays inserted.
Versions ==
  \A c \in Codes :
    /\ writer[c] = NoSession => latest[c] = committed[c]
    /\ committed[c].status \in Dead => latest[c].status \in Dead
    /\ committed[c].status # "absent" => latest[c].status # "absent"

\* Nobody inserts a row whose identity another request drew.
FreshCodes ==
  \A s \in Sessions : Issuing(s) =>
    /\ pc[s] # "commit" =>
         latest[job[s].code].status = "absent" /\ writer[job[s].code] = NoSession
    /\ \A t \in Sessions : Issuing(t) /\ job[s].code = job[t].code => s = t

\* What each transaction has written so far.
Writes ==
  \A s \in Sessions, c \in Codes : writer[c] = s =>
    /\ pc[s] # "idle"
    /\ Issuing(s) /\ c = job[s].code =>
         /\ pc[s] = "commit"
         /\ committed[c].status = "absent"
         /\ Live(latest[c], job[s].pair)
    /\ Issuing(s) /\ c # job[s].code =>
         /\ committed[c].status \in {"live"} \union Dead
         /\ committed[c].pair = job[s].pair /\ latest[c].pair = job[s].pair
         /\ latest[c].status \in {"overridden", "expired"}
    /\ Consuming(s) =>
         /\ pc[s] \in {"work", "commit"} /\ c = job[s].code
         /\ committed[c].status = "live" /\ latest[c].status = "consumed"

\* A transaction about to commit holds the row it is about.
Holds ==
  \A s \in Sessions :
    /\ pc[s] \in {"work", "commit"} => writer[job[s].code] = s
    /\ pc[s] \in {"delete", "deleting"} => job[s].found \subseteq {job[s].code}

\* The unique index over the versions to come, and across the two versions: a row
\* can be live in one and another row of its pair live in the other only if one
\* transaction wrote both.
OneLatestRow == \A p \in Pairs, c, d \in Codes :
                  Live(latest[c], p) /\ Live(latest[d], p) => c = d

OneWriterReplaces ==
  \A p \in Pairs, c, d \in Codes :
    c # d /\ Live(committed[c], p) /\ Live(latest[d], p) =>
      writer[c] = writer[d] /\ writer[c] # NoSession

\* Only a deleted row has been redeemed, and once.
Redeemed ==
  \A c \in Codes :
    /\ uses[c] \in {0, 1}
    /\ committed[c].status \notin Dead => uses[c] = 0
    /\ committed[c].status = "consumed" => uses[c] = 1

\* What every reachable state satisfies and every step preserves; OneLiveRow,
\* RedeemedOnce and ConsumedMeansDone are part of it or follow from it.
IInv == /\ TypeOK
        /\ StepsOfKind /\ Versions /\ FreshCodes /\ Writes /\ Holds
        /\ OneLatestRow /\ OneLiveRow /\ OneWriterReplaces
        /\ Redeemed

-----------------------------------------------------------------------------
(* Why nobody is refused without cause: what a request has seen remains     *)
(* true while it waits, or a commit made it false.                          *)
\* Once committed, a row keeps its pair and its expiry.
Immutable ==
  \A c \in Codes : committed[c].status # "absent" =>
    latest[c].pair = committed[c].pair /\ latest[c].expires = committed[c].expires

\* The code of a redemption past its SELECT was in time when its transaction began, and
\* a delete with nothing left to lock has lost it to a commit.
Unexpired(s, c) == committed[c].status # "absent" /\ committed[c].expires > job[s].start
SelectedSound(s) ==
  /\ pc[s] = "verify" => \E c \in Codes : job[s].found = {c} /\ Unexpired(s, c)
  /\ pc[s] = "delete" => job[s].found = {job[s].code} /\ Unexpired(s, job[s].code)
  /\ pc[s] = "deleting" =>
       /\ Unexpired(s, job[s].code)
       /\ job[s].code \in job[s].found \/ committed[job[s].code].status \in Dead

\* Of the rows an insert knew of, those its discard statement need not lock any more are
\* written by itself, or not for it to discard: deleted by others, of another pair, or,
\* without Override, not expired.
InTheWay(s, row) == /\ Live(row, job[s].pair)
                    /\ job[s].override \/ row.expires <= job[s].time
DiscardSound(s) ==
  /\ pc[s] \in {"check", "insert"} => job[s].found = {}
  /\ pc[s] \in {"discarding", "check", "insert"} =>
       \A c \in job[s].known :
         /\ committed[c].status # "absent"
         /\ c \in job[s].found \/ writer[c] = s \/ ~InTheWay(s, committed[c])

RefusalInv == Immutable /\ \A s \in Sessions : SelectedSound(s) /\ DiscardSound(s)

-----------------------------------------------------------------------------
(* Why nobody waits across targets: what a request has still to lock, and   *)
(* what it is about to redeem, is of its own pair.                          *)
OfPair(s, c) == committed[c].status # "absent" /\ committed[c].pair = job[s].pair
WaitSound(s) ==
  /\ pc[s] \in {"begin", "discard"} => \A c \in Codes : writer[c] # s
  /\ pc[s] = "discarding" => \A c \in job[s].found : OfPair(s, c) /\ writer[c] # s
  /\ pc[s] = "verify" => \A c \in job[s].found : OfPair(s, c)
  /\ pc[s] \in {"delete", "deleting", "work"} => OfPair(s, job[s].code)
  /\ pc[s] = "commit" /\ Consuming(s) => OfPair(s, job[s].code)
WaitInv == \A s \in Sessions : WaitSound(s)

-----------------------------------------------------------------------------
(* What a comment of the repository says of the table, and the code does    *)
(* not keep.                                                                *)
\* dao/ShortCodeDeleteConsumed is "the deletion comment set when the short code has
\* been redeemed successfully", kept "for later auditing".
RedemptionStaysOnRecord ==
  [][\A c \in Codes :
       committed[c].status = "consumed" => committed'[c].status = "consumed"]_vars
=============================================================================
