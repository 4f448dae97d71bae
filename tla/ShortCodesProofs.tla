-------------------------- MODULE ShortCodesProofs --------------------------
(***************************************************************************)
(* Proofs about ShortCodes, for every set of requests, codes and pairs and *)
(* for every lifetime, clock skew and time bound.                          *)
(***************************************************************************)
EXTENDS ShortCodes, TLAPS

-----------------------------------------------------------------------------
(* Types.                                                                   *)
\* The default pair, row and job are of their types, and the rounding of a
\* timestamp(0) column yields an instant.
LEMMA Defaults == /\ AnyPair \in Pairs /\ NoRow \in Row /\ NoJob \in Job
                  /\ \A t \in Int : Stored(t) \in Int
<1>1. AnyPair \in Pairs
  BY ConstantsAssumption DEF AnyPair
<1>2. NoRow \in Row
  BY <1>1 DEF NoRow, Row
<1>3. NoJob \in Job
  BY <1>1 DEF NoJob, Job
<1>4. \A t \in Int : Stored(t) \in Int
  BY DEF Stored, Second
<1> QED
  BY <1>1, <1>2, <1>3, <1>4

\* A rollback leaves a well-typed state, whatever request it ends.
LEMMA RollbackType == ASSUME TypeOK, NEW s \in Sessions, Rollback(s)
                      PROVE  TypeOK'
  BY Defaults DEF TypeOK, Rollback, Return, Goto, Steps

\* Writing a row is well typed if the row is.
LEMMA WriteType == ASSUME TypeOK, NEW s \in Sessions, NEW c \in Codes, NEW row \in Row,
                          Write(s, c, row)
                   PROVE  /\ committed' \in [Codes -> Row]
                          /\ latest' \in [Codes -> Row]
                          /\ writer' \in [Codes -> Sessions \union {NoSession}]
  BY DEF TypeOK, Write

\* A deleted row is a row.
LEMMA DiscardedType == ASSUME TypeOK, NEW s \in Sessions, NEW row \in Row
                       PROVE  Discarded(s, row) \in Row
<1>1. job[s].time \in Int
  BY DEF TypeOK, Job
<1>2. Stored(job[s].time) \in Int /\ Stored(job[s].time - Second) \in Int
  BY <1>1, Defaults DEF Second
<1> QED
  BY <1>2 DEF Discarded, Row, Dead

\* Every step keeps the types.
LEMMA NextType == TypeOK /\ [Next]_vars => TypeOK'
<1> SUFFICES ASSUME TypeOK, [Next]_vars PROVE TypeOK'
  OBVIOUS
<1>1. CASE UNCHANGED vars
  BY <1>1 DEF vars, rows, TypeOK
<1>2. CASE Tick
  BY <1>2, ConstantsAssumption DEF Tick, rows, TypeOK
<1>3. ASSUME NEW s \in Sessions, NEW p \in Pairs, NEW c \in Codes, Consume(s, p, c)
      PROVE  TypeOK'
  BY <1>3, Defaults DEF Consume, Goto, Steps, rows, TypeOK, Job
<1>4. ASSUME NEW s \in Sessions, NEW p \in Pairs, NEW c \in Codes, NEW ov \in BOOLEAN,
             NEW t \in (now - Skew)..(now + Skew), Issue(s, p, c, ov, t)
      PROVE  TypeOK'
  <2>1. t \in Int
    OBVIOUS
  <2> QED
    BY <1>4, <2>1, Defaults DEF Issue, Goto, Steps, rows, TypeOK, Job
<1>5. ASSUME NEW s \in Sessions, Begin(s) PROVE TypeOK'
  <2>1. job[s] \in Job /\ now \in Int
    BY DEF TypeOK
  <2>2. [job[s] EXCEPT !.start = now] \in Job
    BY <2>1 DEF Job
  <2>3. job' \in [Sessions -> Job]
    BY <1>5, <2>2 DEF Begin, TypeOK
  <2>4. pc' \in [Sessions -> Steps]
    BY <1>5 DEF Begin, Goto, Steps, TypeOK
  <2> QED
    BY <1>5, <2>3, <2>4 DEF Begin, rows, TypeOK
<1>6. ASSUME NEW s \in Sessions, DiscardScan(s) PROVE TypeOK'
  <2> DEFINE found == {c \in Codes : Discards(s, View(s, c))}
             known == {c \in Codes : committed[c].status # "absent"}
  <2>1. [job[s] EXCEPT !.found = found, !.known = known] \in Job
    BY DEF TypeOK, Job
  <2>2. job' = [job EXCEPT ![s] = [job[s] EXCEPT !.found = found, !.known = known]]
    BY <1>6 DEF DiscardScan, TypeOK
  <2> HIDE DEF found, known
  <2>3. job' \in [Sessions -> Job]
    BY <2>1, <2>2 DEF TypeOK
  <2>4. pc' \in [Sessions -> Steps]
    BY <1>6 DEF DiscardScan, Goto, Steps, TypeOK
  <2> QED
    BY <1>6, <2>3, <2>4 DEF DiscardScan, rows, TypeOK
<1>7. ASSUME NEW s \in Sessions, DiscardDone(s) \/ CheckPasses(s) \/ WorkSucceeds(s)
      PROVE  TypeOK'
  BY <1>7 DEF DiscardDone, CheckPasses, WorkSucceeds, Goto, Steps, rows, TypeOK
<1>8. ASSUME NEW s \in Sessions, Select(s) PROVE TypeOK'
  BY <1>8 DEF Select, Goto, Steps, rows, TypeOK, Job
<1>9. ASSUME NEW s \in Sessions, NEW t \in (now - Skew)..(now + Skew), Verify(s, t)
      PROVE  TypeOK'
  BY <1>9 DEF Verify, Goto, Steps, rows, TypeOK
<1>10. ASSUME NEW s \in Sessions, NEW t \in (now - Skew)..(now + Skew), DeleteScan(s, t)
       PROVE  TypeOK'
  <2>1. t \in Int
    OBVIOUS
  <2> QED
    <3> DEFINE found == {c \in job[s].found : DeleteMatches(s, View(s, c))}
    <3>1. [job[s] EXCEPT !.time = t, !.found = found] \in Job
      BY <2>1 DEF TypeOK, Job
    <3>2. job' = [job EXCEPT ![s] = [job[s] EXCEPT !.time = t, !.found = found]]
      BY <1>10 DEF DeleteScan, TypeOK
    <3> HIDE DEF found
    <3>3. job' \in [Sessions -> Job]
      BY <3>1, <3>2 DEF TypeOK
    <3>4. pc' \in [Sessions -> Steps]
      BY <1>10 DEF DeleteScan, Goto, Steps, TypeOK
    <3> QED
      BY <1>10, <3>3, <3>4 DEF DeleteScan, rows, TypeOK
<1>11. ASSUME NEW s \in Sessions, Commit(s) PROVE TypeOK'
  <2>1. committed' \in [Codes -> Row] /\ latest' \in [Codes -> Row]
        /\ writer' \in [Codes -> Sessions \union {NoSession}]
    BY <1>11 DEF Commit, Publish, View, TypeOK
  <2>2. uses' \in [Codes -> Nat]
    <3>1. CASE job[s].kind = "consume"
      <4> DEFINE k == job[s].code
      <4>1. uses' = [c \in Codes |-> IF c = k THEN uses[c] + 1 ELSE uses[c]]
        BY <1>11, <3>1 DEF Commit, TypeOK
      <4> HIDE DEF k
      <4> QED
        BY <4>1 DEF TypeOK
    <3>2. CASE job[s].kind # "consume"
      BY <1>11, <3>2 DEF Commit, TypeOK
    <3> QED
      BY <3>1, <3>2
  <2>3. pc' \in [Sessions -> Steps] /\ job' \in [Sessions -> Job]
    BY <1>11, Defaults DEF Commit, Return, Goto, Steps, TypeOK
  <2> QED
    BY <1>11, <2>1, <2>2, <2>3 DEF Commit, TypeOK
<1>12. ASSUME NEW s \in Sessions, NEW c \in Codes, DiscardRow(s, c) PROVE TypeOK'
  <2>1. committed[c] \in Row /\ Discarded(s, committed[c]) \in Row
    BY DiscardedType DEF TypeOK
  <2>2. /\ committed' \in [Codes -> Row] /\ latest' \in [Codes -> Row]
        /\ writer' \in [Codes -> Sessions \union {NoSession}]
    BY <1>12, <2>1, WriteType DEF DiscardRow, rows, TypeOK
  <2> QED
    <3>1. [job[s] EXCEPT !.found = job[s].found \ {c}] \in Job
      BY DEF TypeOK, Job
    <3>2. job' \in [Sessions -> Job]
      BY <1>12, <3>1 DEF DiscardRow, TypeOK
    <3> QED
      BY <1>12, <2>2, <3>2 DEF DiscardRow, TypeOK
<1>13. ASSUME NEW s \in Sessions, InsertRow(s) PROVE TypeOK'
  <2> DEFINE row == [status |-> "live", pair |-> job[s].pair,
                     expires |-> Stored(job[s].time + TTL), deleted |-> 0]
  <2>1. job[s].time + TTL \in Int /\ job[s].pair \in Pairs
    BY ConstantsAssumption DEF TypeOK, Job
  <2>2. row \in Row
    BY <2>1, Defaults DEF Row
  <2>3. latest' = [latest EXCEPT ![job[s].code] = row] /\ UNCHANGED committed
        /\ writer' = [writer EXCEPT ![job[s].code] = s]
    BY <1>13 DEF InsertRow, Write
  <2> QED
    BY <1>13, <2>2, <2>3 DEF InsertRow, Goto, Steps, TypeOK
<1>14. ASSUME NEW s \in Sessions, NEW c \in Codes, DeleteRow(s, c) PROVE TypeOK'
  <2> DEFINE row == [committed[c] EXCEPT !.status = "consumed",
                                         !.deleted = Stored(job[s].time)]
  <2>1. job[s].time \in Int /\ committed[c] \in Row
    BY DEF TypeOK, Job
  <2>2. row \in Row
    BY <2>1, Defaults DEF Row, Dead
  <2>3. Write(s, c, row)
    BY <1>14 DEF DeleteRow
  <2>4. /\ committed' \in [Codes -> Row] /\ latest' \in [Codes -> Row]
        /\ writer' \in [Codes -> Sessions \union {NoSession}]
    BY <2>2, <2>3, WriteType
  <2> QED
    BY <1>14, <2>4 DEF DeleteRow, Goto, Steps, TypeOK
<1>15. ASSUME NEW s \in Sessions, Rollback(s) PROVE TypeOK'
  BY <1>15, RollbackType
<1> QED
  BY <1>1, <1>2, <1>3, <1>4, <1>5, <1>6, <1>7, <1>8, <1>9, <1>10, <1>11, <1>12, <1>13,
     <1>14, <1>15
  DEF Next, Arrive, Advance, Acquire, CheckRefuses, InsertRefused, SelectMisses,
      VerifyRefuses, DeleteMisses, WorkFails, Abort, DeadlockVictim

\* The state of the table and of every request stays within its types.
THEOREM TypeCorrect == Spec => []TypeOK
<1>1. Init => TypeOK
  BY Defaults, ConstantsAssumption DEF Init, TypeOK, Steps
<1> QED
  BY <1>1, NextType, PTL DEF Spec

-----------------------------------------------------------------------------
(* The inductive invariant.  TableInv is what it says of the versions,      *)
(* RequestInv what it says of the requests.                                 *)
TableInv == Versions /\ OneLatestRow /\ OneLiveRow /\ OneWriterReplaces /\ Redeemed
RequestInv == StepsOfKind /\ FreshCodes /\ Writes /\ Holds

\* A step that writes nothing keeps what is said of the table.
LEMMA QuietTable == ASSUME TableInv, UNCHANGED <<rows, uses>>
                    PROVE  TableInv'
  BY DEF TableInv, Versions, OneLatestRow, OneLiveRow, OneWriterReplaces, Redeemed,
         rows, Live

\* Request s moves on to another statement without writing.
LEMMA QuietRequest ==
  ASSUME TypeOK, RequestInv, UNCHANGED rows,
         NEW s \in Sessions, NEW step \in Steps, Goto(s, step),
         pc[s] \notin {"idle", "commit"}, step \notin {"idle", "begin", "work"},
         step = "commit" <=> pc[s] = "work",
         step \in {"discard", "discarding", "check", "insert"} => job[s].kind = "issue",
         step \in {"select", "verify", "delete", "deleting"} => job[s].kind = "consume",
         \A t \in Sessions : /\ job'[t].kind = job[t].kind
                             /\ job'[t].code = job[t].code
                             /\ job'[t].pair = job[t].pair
                             /\ t # s => job'[t].found = job[t].found,
         step \in {"delete", "deleting"} => job'[s].found \subseteq {job[s].code}
  PROVE  RequestInv'
<1>0. /\ \A t \in Sessions : pc'[t] = IF t = s THEN step ELSE pc[t]
      /\ UNCHANGED <<committed, latest, writer>>
      /\ StepsOfKind /\ FreshCodes /\ Writes /\ Holds
  BY DEF Goto, TypeOK, RequestInv, rows
<1>1. StepsOfKind'
  <2>1. ASSUME NEW t \in Sessions, t # s
        PROVE  pc'[t] = pc[t] /\ job'[t].kind = job[t].kind /\ job'[t].code = job[t].code
    BY <1>0, <2>1
  <2>2. job[s].kind # "none" /\ job[s].code \in Codes
    BY <1>0 DEF StepsOfKind
  <2>3. pc'[s] = step /\ job'[s].kind = job[s].kind /\ job'[s].code = job[s].code
    BY <1>0
  <2> QED
    BY <1>0, <2>1, <2>2, <2>3 DEF StepsOfKind
<1>2. FreshCodes'
  BY <1>0 DEF FreshCodes, Issuing, StepsOfKind
<1>3. Writes'
  BY <1>0 DEF Writes, Issuing, Consuming, StepsOfKind, Live
<1>4. Holds'
  BY <1>0 DEF Holds
<1> QED
  BY <1>1, <1>2, <1>3, <1>4 DEF RequestInv

\* A request that arrives has written nothing, and an issue draws a fresh identity.
LEMMA ArriveRequest ==
  ASSUME TypeOK, RequestInv, NEW s \in Sessions, NEW p \in Pairs, NEW c \in Codes,
         Consume(s, p, c) \/ \E ov \in BOOLEAN, t \in Int : Issue(s, p, c, ov, t)
  PROVE  RequestInv'
<1> USE DEF Goto, TypeOK, RequestInv, NoJob
<1>1. /\ pc[s] = "idle" /\ pc' = [pc EXCEPT ![s] = "begin"] /\ UNCHANGED rows
      /\ job'[s].code = c /\ job'[s].kind \in {"issue", "consume"}
      /\ \A r \in Sessions : r # s => job'[r] = job[r]
      /\ job'[s].kind = "issue" => Fresh(c)
  <2>1. CASE Consume(s, p, c)
    BY <2>1 DEF Consume
  <2>2. ASSUME NEW ov \in BOOLEAN, NEW t \in Int, Issue(s, p, c, ov, t)
        PROVE  /\ pc[s] = "idle" /\ pc' = [pc EXCEPT ![s] = "begin"] /\ UNCHANGED rows
               /\ job'[s].code = c /\ job'[s].kind \in {"issue", "consume"}
               /\ \A r \in Sessions : r # s => job'[r] = job[r]
               /\ Fresh(c)
    BY <2>2 DEF Issue
  <2> QED BY <2>1, <2>2
<1>2. StepsOfKind'
  BY <1>1 DEF StepsOfKind
<1>3. \A d \in Codes : writer[d] # s
  BY <1>1 DEF Writes
<1>4. Writes'
  BY <1>1, <1>3 DEF Writes, Issuing, Consuming, rows, Live
<1>5. Holds'
  BY <1>1 DEF Holds, rows
<1>6. Fresh(c) => /\ latest[c].status = "absent" /\ writer[c] = NoSession
                  /\ \A r \in Sessions : Issuing(r) => job[r].code # c
  <2>1. SUFFICES ASSUME Fresh(c), writer[c] # NoSession PROVE FALSE
    BY DEF Fresh, Issuing
  <2>2. PICK r \in Sessions : writer[c] = r
    BY <2>1
  <2>3. pc[r] # "idle" /\ job[r].kind \in {"none", "issue", "consume"}
    BY <2>2 DEF Writes, Job
  <2>4. latest[c].status = "absent"
    BY <2>1 DEF Fresh
  <2>5. job[r].kind # "none"
    BY <2>3 DEF StepsOfKind
  <2> QED
    BY <2>2, <2>3, <2>4, <2>5 DEF Writes, Issuing, Consuming, Live
<1>7. FreshCodes'
  BY <1>1, <1>6 DEF FreshCodes, Issuing, rows
<1> QED
  BY <1>2, <1>4, <1>5, <1>7

\* A rollback gives every row the transaction wrote its committed version back.
LEMMA RollbackTable == ASSUME TypeOK, TableInv, NEW s \in Sessions, Rollback(s)
                       PROVE  TableInv'
<1>1. /\ \A c \in Codes : latest'[c] = IF writer[c] = s THEN committed[c] ELSE latest[c]
      /\ \A c \in Codes : writer'[c] = IF writer[c] = s THEN NoSession ELSE writer[c]
      /\ UNCHANGED <<committed, uses>>
      /\ s # NoSession
  BY ConstantsAssumption DEF Rollback
<1>2. Versions'
  BY <1>1 DEF TableInv, Versions
<1>3. OneLiveRow' /\ Redeemed'
  BY <1>1 DEF TableInv, OneLiveRow, Redeemed, Live
<1>4. OneLatestRow'
  BY <1>1 DEF TableInv, OneLatestRow, OneLiveRow, OneWriterReplaces, Live
<1>5. OneWriterReplaces'
  BY <1>1 DEF TableInv, OneLiveRow, OneWriterReplaces, Live
<1> QED
  BY <1>2, <1>3, <1>4, <1>5 DEF TableInv

\* The request that rolled back has written nothing any more.
LEMMA RollbackRequest == ASSUME TypeOK, RequestInv, NEW s \in Sessions, Rollback(s)
                         PROVE  RequestInv'
<1>1. /\ \A c \in Codes : latest'[c] = IF writer[c] = s THEN committed[c] ELSE latest[c]
      /\ \A c \in Codes : writer'[c] = IF writer[c] = s THEN NoSession ELSE writer[c]
      /\ UNCHANGED committed
      /\ s # NoSession /\ NoSession \notin Sessions
      /\ \A t \in Sessions : pc'[t] = IF t = s THEN "idle" ELSE pc[t]
      /\ \A t \in Sessions : job'[t] = IF t = s THEN NoJob ELSE job[t]
      /\ NoJob.kind = "none"
  BY ConstantsAssumption DEF Rollback, Return, Goto, TypeOK, NoJob
<1>2. StepsOfKind'
  BY <1>1 DEF RequestInv, StepsOfKind
<1>3. FreshCodes'
  BY <1>1 DEF RequestInv, FreshCodes, Issuing, StepsOfKind
<1>4. Writes'
  BY <1>1 DEF RequestInv, Writes, Issuing, Consuming, Live
<1>5. Holds'
  BY <1>1 DEF RequestInv, Holds, StepsOfKind
<1> QED
  BY <1>2, <1>3, <1>4, <1>5 DEF RequestInv

\* A commit publishes the versions of one transaction; those it leaves alone are not
\* of the same pair as a row it made live.
LEMMA CommitTable == ASSUME TypeOK, TableInv, RequestInv, NEW s \in Sessions, Commit(s)
                     PROVE  TableInv'
<1>1. /\ \A c \in Codes : committed'[c] = IF writer[c] = s THEN latest[c] ELSE committed[c]
      /\ \A c \in Codes : writer'[c] = IF writer[c] = s THEN NoSession ELSE writer[c]
      /\ UNCHANGED latest
      /\ s # NoSession /\ pc[s] = "commit"
  BY ConstantsAssumption DEF Commit, Publish, View
<1>2. Versions'
  BY <1>1 DEF TableInv, Versions
<1>3. OneLatestRow'
  BY <1>1 DEF TableInv, OneLatestRow, Live
<1>4. OneLiveRow'
  BY <1>1 DEF TableInv, OneLatestRow, OneLiveRow, OneWriterReplaces, Live
<1>5. OneWriterReplaces'
  BY <1>1 DEF TableInv, OneLatestRow, OneLiveRow, OneWriterReplaces, Live
<1>6. Redeemed'
  <2> DEFINE k == job[s].code
  <2>1. k \in Codes /\ writer[k] = s
    BY <1>1 DEF RequestInv, StepsOfKind, Holds
  <2>2. CASE job[s].kind = "consume"
    <3>1. \A c \in Codes : uses'[c] = IF c = k THEN uses[c] + 1 ELSE uses[c]
      BY <2>1, <2>2 DEF Commit, TypeOK
    <3>2. /\ \A c \in Codes : writer[c] = s => c = k
          /\ committed[k].status = "live" /\ latest[k].status = "consumed"
      BY <1>1, <2>1, <2>2 DEF RequestInv, Writes, Consuming
    <3>3. uses[k] = 0
      BY <2>1, <3>2 DEF TableInv, Redeemed, Dead
    <3> QED
      BY <1>1, <2>1, <3>1, <3>2, <3>3 DEF TableInv, Redeemed, Dead
  <2>3. CASE job[s].kind # "consume"
    <3>1. UNCHANGED uses
      BY <2>3 DEF Commit
    <3>2. job[s].kind = "issue"
      BY <1>1, <2>3 DEF RequestInv, StepsOfKind, TypeOK, Job
    <3>3. \A c \in Codes : writer[c] = s =>
            \/ committed[c].status = "absent" /\ latest[c].status = "live"
            \/ latest[c].status \in {"overridden", "expired"}
      BY <1>1, <3>2 DEF RequestInv, Writes, Issuing, Live
    <3> QED
      BY <1>1, <3>1, <3>3 DEF TableInv, Redeemed, Dead
  <2> QED
    BY <2>2, <2>3
<1> QED
  BY <1>2, <1>3, <1>4, <1>5, <1>6 DEF TableInv

\* A commit ends its request and no other's writes.
LEMMA CommitRequest == ASSUME TypeOK, RequestInv, NEW s \in Sessions, Commit(s)
                       PROVE  RequestInv'
<1>1. /\ \A c \in Codes : committed'[c] = IF writer[c] = s THEN latest[c] ELSE committed[c]
      /\ \A c \in Codes : writer'[c] = IF writer[c] = s THEN NoSession ELSE writer[c]
      /\ UNCHANGED latest
      /\ s # NoSession /\ NoSession \notin Sessions
      /\ \A t \in Sessions : pc'[t] = IF t = s THEN "idle" ELSE pc[t]
      /\ \A t \in Sessions : job'[t] = IF t = s THEN NoJob ELSE job[t]
      /\ NoJob.kind = "none"
  BY ConstantsAssumption DEF Commit, Publish, View, Return, Goto, TypeOK, NoJob
<1>2. StepsOfKind'
  BY <1>1 DEF RequestInv, StepsOfKind
<1>3. FreshCodes'
  BY <1>1 DEF RequestInv, FreshCodes, Issuing, StepsOfKind
<1>4. Writes'
  BY <1>1 DEF RequestInv, Writes, Issuing, Consuming, Live
<1>5. Holds'
  BY <1>1 DEF RequestInv, Holds, StepsOfKind
<1> QED
  BY <1>2, <1>3, <1>4, <1>5 DEF RequestInv

\* The discard statement deletes one row of the pair, unlocked until then.
LEMMA DiscardRowInv ==
  ASSUME TypeOK, TableInv, RequestInv, NEW s \in Sessions, NEW c \in Codes, DiscardRow(s, c)
  PROVE  TableInv' /\ RequestInv'
<1>1. CASE ~Discards(s, committed[c])
  <2>1. UNCHANGED <<rows, uses, pc>>
    BY <1>1 DEF DiscardRow
  <2>2. /\ \A t \in Sessions : /\ job'[t].kind = job[t].kind /\ job'[t].code = job[t].code
                               /\ job'[t].pair = job[t].pair
                               /\ job'[t].found \subseteq job[t].found
    BY DEF DiscardRow, TypeOK, Job
  <2>3. RequestInv'
    BY <2>1, <2>2 DEF RequestInv, StepsOfKind, FreshCodes, Writes, Holds, Issuing, Consuming,
                      rows, Live
  <2> QED
    BY <2>1, <2>3, QuietTable
<1>2. CASE Discards(s, committed[c])
  <2> DEFINE row == Discarded(s, committed[c])
  <2>1. /\ pc[s] = "discarding" /\ writer[c] = NoSession
        /\ UNCHANGED <<committed, uses, pc>>
        /\ \A d \in Codes : latest'[d] = IF d = c THEN row ELSE latest[d]
        /\ \A d \in Codes : writer'[d] = IF d = c THEN s ELSE writer[d]
        /\ s # NoSession /\ NoSession \notin Sessions
    BY <1>2, ConstantsAssumption DEF DiscardRow, Write, TypeOK
  <2>2. /\ row.status \in {"overridden", "expired"} /\ row.pair = committed[c].pair
        /\ committed[c].pair = job[s].pair
        /\ committed[c].status \in {"live"} \union Dead
    BY <1>2 DEF Discarded, Discards, DiscardsConflict, DiscardsExpired, Live, TypeOK, Row
  <2>3. latest[c] = committed[c]
    BY <2>1 DEF TableInv, Versions
  <2>4. /\ \A t \in Sessions : /\ job'[t].kind = job[t].kind /\ job'[t].code = job[t].code
                               /\ job'[t].pair = job[t].pair
                               /\ job'[t].found \subseteq job[t].found
    BY DEF DiscardRow, TypeOK, Job
  <2> HIDE DEF row
  <2>5. \A t \in Sessions : Issuing(t) /\ pc[t] # "commit" => job[t].code # c
    BY <2>2, <2>3 DEF RequestInv, FreshCodes, Dead
  <2>6. job[s].kind = "issue" /\ Issuing(s) /\ job[s].code # c
    BY <2>1, <2>5 DEF RequestInv, StepsOfKind, Issuing
  <2>7. Versions' /\ Redeemed' /\ OneLiveRow'
    BY <2>1, <2>2, <2>3 DEF TableInv, Versions, Redeemed, OneLiveRow, Live, Dead
  <2>8. OneLatestRow' /\ OneWriterReplaces'
    BY <2>1, <2>2 DEF TableInv, OneLatestRow, OneWriterReplaces, Live
  <2>9. StepsOfKind'
    BY <2>1, <2>4 DEF RequestInv, StepsOfKind
  <2>10. FreshCodes'
    BY <2>1, <2>4, <2>5 DEF RequestInv, FreshCodes, Issuing, StepsOfKind
  <2>11. Writes'
    BY <2>1, <2>2, <2>4, <2>6 DEF RequestInv, Writes, Issuing, Consuming, Live
  <2>12. Holds'
    BY <2>1, <2>4 DEF RequestInv, Holds, StepsOfKind
  <2> QED
    BY <2>7, <2>8, <2>9, <2>10, <2>11, <2>12 DEF TableInv, RequestInv
<1> QED
  BY <1>1, <1>2

\* The insert goes ahead only when no version of another row of the pair, committed
\* or to come, is live outside the inserting transaction's own discards.
LEMMA InsertRowInv ==
  ASSUME TypeOK, TableInv, RequestInv, NEW s \in Sessions, InsertRow(s)
  PROVE  TableInv' /\ RequestInv'
<1> DEFINE k == job[s].code
           p == job[s].pair
           row == [status |-> "live", pair |-> p,
                   expires |-> Stored(job[s].time + TTL), deleted |-> 0]
<1>1. job[s].kind = "issue" /\ k \in Codes /\ Issuing(s) /\ pc[s] = "insert"
  BY DEF InsertRow, RequestInv, StepsOfKind, Issuing
<1>2. latest[k].status = "absent" /\ writer[k] = NoSession /\ committed[k].status = "absent"
  BY <1>1 DEF RequestInv, FreshCodes, TableInv, Versions
<1>3. /\ UNCHANGED <<committed, uses, job>>
      /\ \A d \in Codes : latest'[d] = IF d = k THEN row ELSE latest[d]
      /\ \A d \in Codes : writer'[d] = IF d = k THEN s ELSE writer[d]
      /\ \A t \in Sessions : pc'[t] = IF t = s THEN "commit" ELSE pc[t]
      /\ s # NoSession /\ NoSession \notin Sessions
  BY ConstantsAssumption DEF InsertRow, Write, Goto, TypeOK
<1>4. \A d \in Codes : ~Live(latest[d], p)
  BY DEF InsertRow, Violated, InsertAwaits
<1>5. \A d \in Codes : Live(committed[d], p) => writer[d] = s
  BY <1>4 DEF InsertRow, InsertAwaits, TableInv, Versions
<1>6. row.status = "live" /\ row.pair = p
  OBVIOUS
<1> HIDE DEF row
<1>7. \A t \in Sessions : t # s /\ Issuing(t) => job[t].code # k
  BY <1>1 DEF RequestInv, FreshCodes
<1>8. Versions' /\ Redeemed' /\ OneLiveRow'
  BY <1>2, <1>3, <1>6 DEF TableInv, Versions, Redeemed, OneLiveRow, Live, Dead
<1>9. OneLatestRow'
  BY <1>3, <1>4, <1>6 DEF TableInv, OneLatestRow, Live
<1>10. OneWriterReplaces'
  BY <1>2, <1>3, <1>5, <1>6 DEF TableInv, OneWriterReplaces, Live
<1>11. StepsOfKind'
  BY <1>1, <1>3 DEF RequestInv, StepsOfKind
<1>12. FreshCodes'
  BY <1>3, <1>7 DEF RequestInv, FreshCodes, Issuing, StepsOfKind
<1>13. Writes'
  BY <1>1, <1>2, <1>3, <1>6, <1>7 DEF RequestInv, Writes, Issuing, Consuming, Live
<1>14. Holds'
  BY <1>1, <1>2, <1>3 DEF RequestInv, Holds, StepsOfKind
<1> QED
  BY <1>8, <1>9, <1>10, <1>11, <1>12, <1>13, <1>14 DEF TableInv, RequestInv

\* The delete retires the one row the request submitted, live and unlocked until then.
LEMMA DeleteRowInv ==
  ASSUME TypeOK, TableInv, RequestInv, NEW s \in Sessions, NEW c \in Codes, DeleteRow(s, c)
  PROVE  TableInv' /\ RequestInv'
<1> DEFINE row == [committed[c] EXCEPT !.status = "consumed", !.deleted = Stored(job[s].time)]
<1>1. /\ pc[s] = "deleting" /\ writer[c] = NoSession /\ committed[c].status = "live"
      /\ UNCHANGED <<committed, uses, job>>
      /\ \A d \in Codes : latest'[d] = IF d = c THEN row ELSE latest[d]
      /\ \A d \in Codes : writer'[d] = IF d = c THEN s ELSE writer[d]
      /\ \A t \in Sessions : pc'[t] = IF t = s THEN "work" ELSE pc[t]
      /\ s # NoSession /\ NoSession \notin Sessions
  BY ConstantsAssumption DEF DeleteRow, DeleteMatches, Write, Goto, TypeOK
<1>2. job[s].kind = "consume" /\ c = job[s].code
  BY <1>1 DEF RequestInv, StepsOfKind, Holds, DeleteRow
<1>3. row.status = "consumed" /\ row.pair = committed[c].pair /\ latest[c] = committed[c]
  BY <1>1 DEF TableInv, Versions, TypeOK, Row
<1> HIDE DEF row
<1>4. \A t \in Sessions : Issuing(t) /\ pc[t] # "commit" => job[t].code # c
  BY <1>1, <1>3 DEF RequestInv, FreshCodes
<1>5. Versions' /\ Redeemed' /\ OneLiveRow'
  BY <1>1, <1>3 DEF TableInv, Versions, Redeemed, OneLiveRow, Live, Dead
<1>6. OneLatestRow' /\ OneWriterReplaces'
  BY <1>1, <1>3 DEF TableInv, OneLatestRow, OneWriterReplaces, Live
<1>7. StepsOfKind'
  BY <1>1, <1>2 DEF RequestInv, StepsOfKind
<1>8. FreshCodes'
  BY <1>1, <1>2, <1>4 DEF RequestInv, FreshCodes, Issuing, StepsOfKind
<1>9. \A d \in Codes : writer[d] # s
  BY <1>1, <1>2 DEF RequestInv, Writes, Consuming
<1>10. Writes'
  BY <1>1, <1>2, <1>3, <1>9 DEF RequestInv, Writes, Issuing, Consuming, Live
<1>11. Holds'
  BY <1>1, <1>2 DEF RequestInv, Holds, StepsOfKind
<1> QED
  BY <1>5, <1>6, <1>7, <1>8, <1>10, <1>11 DEF TableInv, RequestInv

\* Every step of every request keeps the invariant.
LEMMA NextInv == IInv /\ [Next]_vars => IInv'
<1> SUFFICES ASSUME TypeOK, TableInv, RequestInv, [Next]_vars
             PROVE  TableInv' /\ RequestInv'
  BY NextType DEF IInv, TableInv, RequestInv
<1> USE DEF Steps
<1>1. CASE UNCHANGED vars \/ Tick
  <2>1. UNCHANGED <<committed, latest, writer, pc, job, uses>>
    BY <1>1 DEF vars, Tick, rows
  <2>2. RequestInv'
    BY <2>1 DEF RequestInv, StepsOfKind, FreshCodes, Writes, Holds, Issuing, Consuming, Live
  <2> QED
    BY <2>1, <2>2, QuietTable DEF rows
<1>2. ASSUME NEW s \in Sessions, NEW p \in Pairs, NEW c \in Codes, Consume(s, p, c)
      PROVE  TableInv' /\ RequestInv'
  <2>1. RequestInv'
    BY <1>2, ArriveRequest
  <2> QED
    BY <1>2, <2>1, QuietTable DEF Consume
<1>3. ASSUME NEW s \in Sessions, NEW p \in Pairs, NEW c \in Codes, NEW ov \in BOOLEAN,
             NEW t \in (now - Skew)..(now + Skew), Issue(s, p, c, ov, t)
      PROVE  TableInv' /\ RequestInv'
  <2>1. t \in Int
    OBVIOUS
  <2>2. RequestInv'
    BY <1>3, <2>1, ArriveRequest
  <2> QED
    BY <1>3, <2>2, QuietTable DEF Issue
<1>4. ASSUME NEW s \in Sessions, Begin(s) PROVE TableInv' /\ RequestInv'
  <2> DEFINE step == IF job[s].kind = "issue" THEN "discard" ELSE "select"
  <2>1. Goto(s, step) /\ pc[s] = "begin" /\ UNCHANGED <<rows, uses>>
    BY <1>4 DEF Begin
  <2>2. job[s].kind \in {"issue", "consume"}
    BY <2>1 DEF RequestInv, StepsOfKind, TypeOK, Job
  <2>3. \A t \in Sessions : /\ job'[t].kind = job[t].kind /\ job'[t].code = job[t].code
                            /\ job'[t].pair = job[t].pair /\ job'[t].found = job[t].found
    BY <1>4 DEF Begin, TypeOK, Job
  <2>4. RequestInv'
    BY <2>1, <2>2, <2>3, QuietRequest
  <2> QED
    BY <2>1, <2>4, QuietTable
<1>5. ASSUME NEW s \in Sessions, DiscardScan(s) PROVE TableInv' /\ RequestInv'
  <2>1. Goto(s, "discarding") /\ pc[s] = "discard" /\ UNCHANGED <<rows, uses>>
        /\ job[s].kind = "issue"
    BY <1>5 DEF DiscardScan, RequestInv, StepsOfKind
  <2>2. \A t \in Sessions : /\ job'[t].kind = job[t].kind /\ job'[t].code = job[t].code
                            /\ job'[t].pair = job[t].pair
                            /\ t # s => job'[t].found = job[t].found
    BY <1>5 DEF DiscardScan, TypeOK, Job
  <2>3. RequestInv'
    BY <2>1, <2>2, QuietRequest
  <2> QED
    BY <2>1, <2>3, QuietTable
<1>6. ASSUME NEW s \in Sessions, DiscardDone(s) \/ CheckPasses(s)
      PROVE  TableInv' /\ RequestInv'
  <2>1. PICK step \in {"check", "insert"} :
          /\ Goto(s, step) /\ pc[s] \in {"discarding", "check"}
          /\ UNCHANGED <<rows, job, uses>> /\ job[s].kind = "issue"
    BY <1>6 DEF DiscardDone, CheckPasses, RequestInv, StepsOfKind
  <2>2. RequestInv'
    BY <2>1, QuietRequest
  <2> QED
    BY <2>1, <2>2, QuietTable
<1>7. ASSUME NEW s \in Sessions, Select(s) PROVE TableInv' /\ RequestInv'
  <2>1. Goto(s, "verify") /\ pc[s] = "select" /\ UNCHANGED <<rows, uses>>
        /\ job[s].kind = "consume"
    BY <1>7 DEF Select, RequestInv, StepsOfKind
  <2>2. \A t \in Sessions : /\ job'[t].kind = job[t].kind /\ job'[t].code = job[t].code
                            /\ job'[t].pair = job[t].pair
                            /\ t # s => job'[t].found = job[t].found
    BY <1>7 DEF Select, TypeOK, Job
  <2>3. RequestInv'
    BY <2>1, <2>2, QuietRequest
  <2> QED
    BY <2>1, <2>3, QuietTable
<1>8. ASSUME NEW s \in Sessions, NEW t \in (now - Skew)..(now + Skew), Verify(s, t)
      PROVE  TableInv' /\ RequestInv'
  <2>1. Goto(s, "delete") /\ pc[s] = "verify" /\ UNCHANGED <<rows, job, uses>>
        /\ job[s].kind = "consume"
    BY <1>8 DEF Verify, RequestInv, StepsOfKind
  <2>2. job[s].found \subseteq {job[s].code}
    BY <1>8 DEF Verify, Accepts
  <2>3. RequestInv'
    BY <2>1, <2>2, QuietRequest
  <2> QED
    BY <2>1, <2>3, QuietTable
<1>9. ASSUME NEW s \in Sessions, NEW t \in (now - Skew)..(now + Skew), DeleteScan(s, t)
      PROVE  TableInv' /\ RequestInv'
  <2>1. Goto(s, "deleting") /\ pc[s] = "delete" /\ UNCHANGED <<rows, uses>>
        /\ job[s].kind = "consume"
    BY <1>9 DEF DeleteScan, RequestInv, StepsOfKind
  <2>2. /\ \A r \in Sessions : /\ job'[r].kind = job[r].kind /\ job'[r].code = job[r].code
                               /\ job'[r].pair = job[r].pair
                               /\ r # s => job'[r].found = job[r].found
        /\ job'[s].found \subseteq job[s].found
    BY <1>9 DEF DeleteScan, TypeOK, Job
  <2>3. job[s].found \subseteq {job[s].code}
    BY <2>1 DEF RequestInv, Holds
  <2>4. RequestInv'
    BY <2>1, <2>2, <2>3, QuietRequest
  <2> QED
    BY <2>1, <2>4, QuietTable
<1>10. ASSUME NEW s \in Sessions, WorkSucceeds(s) PROVE TableInv' /\ RequestInv'
  <2>1. Goto(s, "commit") /\ pc[s] = "work" /\ UNCHANGED <<rows, job, uses>>
        /\ job[s].kind = "consume"
    BY <1>10 DEF WorkSucceeds, RequestInv, StepsOfKind
  <2>2. RequestInv'
    BY <2>1, QuietRequest
  <2> QED
    BY <2>1, <2>2, QuietTable
<1>11. ASSUME NEW s \in Sessions, Commit(s) PROVE TableInv' /\ RequestInv'
  BY <1>11, CommitTable, CommitRequest
<1>12. ASSUME NEW s \in Sessions, NEW c \in Codes, DiscardRow(s, c) \/ DeleteRow(s, c)
       PROVE  TableInv' /\ RequestInv'
  BY <1>12, DiscardRowInv, DeleteRowInv
<1>13. ASSUME NEW s \in Sessions, InsertRow(s) PROVE TableInv' /\ RequestInv'
  BY <1>13, InsertRowInv
<1>14. ASSUME NEW s \in Sessions, Rollback(s) PROVE TableInv' /\ RequestInv'
  BY <1>14, RollbackTable, RollbackRequest
<1> QED
  BY <1>1, <1>2, <1>3, <1>4, <1>5, <1>6, <1>7, <1>8, <1>9, <1>10, <1>11, <1>12, <1>13, <1>14
  DEF Next, Arrive, Advance, Acquire, CheckRefuses, InsertRefused, SelectMisses,
      VerifyRefuses, DeleteMisses, WorkFails, Abort, DeadlockVictim

\* The invariant holds in every reachable state.
THEOREM Invariant == Spec => []IInv
<1>1. Init => IInv
  <2> SUFFICES ASSUME Init PROVE IInv
    OBVIOUS
  <2>1. TypeOK
    BY Defaults, ConstantsAssumption DEF Init, TypeOK, Steps
  <2>2. StepsOfKind /\ FreshCodes /\ Writes /\ Holds
    BY ConstantsAssumption
    DEF Init, StepsOfKind, FreshCodes, Writes, Holds, Issuing, Consuming, NoJob
  <2>3. Versions /\ OneLatestRow /\ OneLiveRow /\ OneWriterReplaces /\ Redeemed
    BY DEF Init, Versions, OneLatestRow, OneLiveRow, OneWriterReplaces, Redeemed, NoRow,
           Live, Dead
  <2> QED
    BY <2>1, <2>2, <2>3 DEF IInv
<1> QED
  BY <1>1, NextInv, PTL DEF Spec

\* The partial unique index, the locks and the statement order of shortCodeInsert and
\* shortCodeConsume leave a (usage, target) pair with at most one row not deleted.
THEOREM AtMostOneLiveRow == Spec => []OneLiveRow
<1>1. IInv => OneLiveRow
  BY DEF IInv
<1> QED
  BY <1>1, Invariant, PTL

\* No code is redeemed twice, whatever requests race for it.
THEOREM CodesAreOneTime == Spec => []RedeemedOnce
<1>1. IInv => RedeemedOnce
  BY DEF IInv, Redeemed, RedeemedOnce
<1> QED
  BY <1>1, Invariant, PTL

\* A code recorded as consumed is one whose operation committed.
THEOREM ConsumptionIsAtomic == Spec => []ConsumedMeansDone
<1>1. IInv => ConsumedMeansDone
  BY DEF IInv, Redeemed, ConsumedMeansDone
<1> QED
  BY <1>1, Invariant, PTL

-----------------------------------------------------------------------------
(* Refusals have a cause.                                                   *)
\* What everybody sees of a row changes by commits only: it keeps its pair and its
\* expiry, and what is deleted stays deleted.
LEMMA RowsSettle ==
  ASSUME IInv, Immutable, [Next]_vars, NEW c \in Codes, committed[c].status # "absent"
  PROVE  /\ committed'[c].status # "absent"
         /\ committed'[c].pair = committed[c].pair
         /\ committed'[c].expires = committed[c].expires
         /\ committed[c].status \in Dead => committed'[c].status \in Dead
<1>1. ASSUME NEW s \in Sessions, Commit(s)
      PROVE  committed'[c] \in {committed[c], latest[c]}
  BY <1>1 DEF Commit, Publish, View
<1>2. ASSUME NEW s \in Sessions,
             Arrive(s) \/ Advance(s) \/ Acquire(s) \/ Abort(s), ~Commit(s)
      PROVE  committed' = committed
  BY <1>2
  DEF Arrive, Consume, Issue, Advance, Begin, DiscardScan, DiscardDone, CheckPasses,
      CheckRefuses, Select, SelectMisses, Verify, VerifyRefuses, DeleteScan, WorkSucceeds,
      WorkFails, DeadlockVictim, Acquire, DiscardRow, DeleteRow, InsertRow, InsertRefused,
      DeleteMisses, Abort, Rollback, Write, rows
<1>3. committed'[c] \in {committed[c], latest[c]}
  BY <1>1, <1>2 DEF Next, vars, Tick, rows
<1> QED
  BY <1>3 DEF IInv, Versions, Immutable

\* A row is written with the pair and the expiry it has.
LEMMA ImmutableStep == ASSUME IInv, Immutable, [Next]_vars PROVE Immutable'
<1> USE DEF Immutable
<1>1. ASSUME UNCHANGED rows PROVE Immutable'
  BY <1>1 DEF rows
<1>2. ASSUME NEW s \in Sessions, Rollback(s) PROVE Immutable'
  BY <1>2 DEF Rollback
<1>3. ASSUME NEW s \in Sessions, Commit(s) PROVE Immutable'
  BY <1>3 DEF Commit, Publish, View
<1>4. ASSUME NEW s \in Sessions, NEW c \in Codes, DiscardRow(s, c) PROVE Immutable'
  <2>1. CASE Discards(s, committed[c])
    <3>1. Discarded(s, committed[c]).pair = committed[c].pair
          /\ Discarded(s, committed[c]).expires = committed[c].expires
      BY DEF Discarded, IInv, TypeOK, Row
    <3>2. /\ UNCHANGED committed
          /\ \A d \in Codes : latest'[d] = IF d = c THEN Discarded(s, committed[c]) ELSE latest[d]
      BY <1>4, <2>1 DEF DiscardRow, Write, IInv, TypeOK
    <3> QED
      BY <3>1, <3>2
  <2>2. CASE ~Discards(s, committed[c])
    BY <1>1, <1>4, <2>2 DEF DiscardRow
  <2> QED
    BY <2>1, <2>2
<1>5. ASSUME NEW s \in Sessions, NEW c \in Codes, DeleteRow(s, c) PROVE Immutable'
  BY <1>5 DEF DeleteRow, Write, IInv, TypeOK, Row
<1>6. ASSUME NEW s \in Sessions, InsertRow(s) PROVE Immutable'
  <2>1. committed[job[s].code].status = "absent"
    BY <1>6 DEF InsertRow, IInv, StepsOfKind, FreshCodes, Issuing, Versions
  <2>2. /\ UNCHANGED committed
        /\ \A d \in Codes : d # job[s].code => latest'[d] = latest[d]
    BY <1>6 DEF InsertRow, Write, IInv, TypeOK
  <2> QED
    BY <2>1, <2>2
<1> QED
  BY <1>1, <1>2, <1>3, <1>4, <1>5, <1>6
  DEF Next, vars, Tick, Arrive, Consume, Issue, Advance, Begin, DiscardScan, DiscardDone,
      CheckPasses, CheckRefuses, Select, SelectMisses, Verify, VerifyRefuses, DeleteScan,
      WorkSucceeds, WorkFails, DeadlockVictim, Acquire, InsertRefused, DeleteMisses, Abort

\* What a request has read stays true while others act.
LEMMA OthersKeep ==
  ASSUME IInv, Immutable, [Next]_vars, NEW t \in Sessions,
         pc'[t] = pc[t], job'[t] = job[t], \A c \in Codes : writer[c] = t => writer'[c] = t,
         SelectedSound(t), DiscardSound(t)
  PROVE  SelectedSound(t)' /\ DiscardSound(t)'
<1>1. job[t].found \subseteq Codes /\ job[t].known \subseteq Codes
  BY DEF IInv, TypeOK, Job
<1>2. pc[t] \in {"delete", "deleting"} => job[t].code \in Codes
  BY DEF IInv, StepsOfKind
<1>3. SelectedSound(t)'
  BY <1>2, RowsSettle DEF SelectedSound, Unexpired
<1>4. ASSUME NEW c \in Codes, committed[c].status # "absent", ~InTheWay(t, committed[c])
      PROVE  ~InTheWay(t, committed[c])'
  BY <1>4, RowsSettle DEF InTheWay, Live, IInv, TypeOK, Row, Dead
<1>5. DiscardSound(t)'
  BY <1>1, <1>4, RowsSettle DEF DiscardSound
<1> QED
  BY <1>3, <1>5

\* A request acts on its own job and on rows nobody else holds.
LEMMA OthersStay ==
  ASSUME IInv, NEW s \in Sessions, Arrive(s) \/ Advance(s) \/ Acquire(s) \/ Abort(s),
         NEW t \in Sessions, t # s
  PROVE  pc'[t] = pc[t] /\ job'[t] = job[t] /\ \A c \in Codes : writer[c] = t => writer'[c] = t
<1>0. NoSession \notin Sessions /\ TypeOK
  BY ConstantsAssumption DEF IInv
<1>1. pc'[t] = pc[t] /\ job'[t] = job[t]
  BY <1>0
  DEF Arrive, Consume, Issue, Advance, Begin, DiscardScan, DiscardDone, CheckPasses,
      CheckRefuses, Select, SelectMisses, Verify, VerifyRefuses, DeleteScan, WorkSucceeds,
      WorkFails, DeadlockVictim, Acquire, DiscardRow, DeleteRow, InsertRow, InsertRefused,
      DeleteMisses, Abort, Rollback, Commit, Return, Goto, TypeOK
<1>2. ASSUME NEW c \in Codes, writer[c] = t PROVE writer'[c] = t
  <2>1. CASE Rollback(s) \/ Commit(s)
    BY <1>2, <2>1 DEF Rollback, Commit, Publish
  <2>2. ASSUME NEW d \in Codes, DiscardRow(s, d) \/ DeleteRow(s, d) PROVE writer'[c] = t
    BY <1>0, <1>2, <2>2 DEF DiscardRow, DeleteRow, Write, rows, TypeOK
  <2>3. CASE InsertRow(s)
    <3>1. writer[job[s].code] = NoSession
      BY <2>3 DEF InsertRow, IInv, StepsOfKind, FreshCodes, Issuing
    <3> QED
      BY <1>0, <1>2, <2>3, <3>1 DEF InsertRow, Write, TypeOK
  <2> QED
    BY <1>2, <2>1, <2>2, <2>3
    DEF Arrive, Consume, Issue, Advance, Begin, DiscardScan, DiscardDone, CheckPasses,
        CheckRefuses, Select, SelectMisses, Verify, VerifyRefuses, DeleteScan, WorkSucceeds,
        WorkFails, DeadlockVictim, Acquire, InsertRefused, DeleteMisses, Abort, rows
<1> QED
  BY <1>1, <1>2

\* The statements that read: what they find is in time, and an override leaves out only
\* rows that are not in its way.
LEMMA OwnStep ==
  ASSUME IInv, RefusalInv, NEW s \in Sessions, Arrive(s) \/ Advance(s) \/ Acquire(s) \/ Abort(s)
  PROVE  SelectedSound(s)' /\ DiscardSound(s)'
<1> USE DEF Goto
<1>0. TypeOK /\ pc[s] \in Steps /\ job[s] \in Job /\ SelectedSound(s) /\ DiscardSound(s)
  BY DEF IInv, RefusalInv, TypeOK
<1>1. ASSUME pc'[s] \in {"idle", "begin", "discard", "select", "work", "commit"}
      PROVE  SelectedSound(s)' /\ DiscardSound(s)'
  BY <1>1 DEF SelectedSound, DiscardSound
<1>2. CASE Arrive(s)
  BY <1>0, <1>1, <1>2 DEF Arrive, Consume, Issue, TypeOK
<1>3. CASE Begin(s) \/ WorkSucceeds(s) \/ InsertRow(s) \/ Commit(s) \/ Rollback(s)
           \/ \E c \in Codes : DeleteRow(s, c)
  BY <1>0, <1>1, <1>3
  DEF Begin, WorkSucceeds, InsertRow, Commit, Rollback, Return, DeleteRow, TypeOK
<1>4. CASE DiscardScan(s)
  <2>1. /\ pc'[s] = "discarding" /\ UNCHANGED rows
        /\ job'[s].known = {c \in Codes : committed[c].status # "absent"}
        /\ job'[s].found = {c \in Codes : Discards(s, View(s, c))}
        /\ job'[s].override = job[s].override /\ job'[s].pair = job[s].pair
        /\ job'[s].time = job[s].time
    BY <1>0, <1>4 DEF DiscardScan, TypeOK, Job
  <2>2. ASSUME NEW c \in Codes, InTheWay(s, committed[c]), writer[c] # s
        PROVE  Discards(s, View(s, c))
    BY <2>2 DEF InTheWay, Discards, DiscardsConflict, DiscardsExpired, View, Live
  <2> QED
    BY <2>1, <2>2 DEF SelectedSound, DiscardSound, InTheWay, rows
<1>5. CASE DiscardDone(s)
  BY <1>0, <1>5 DEF DiscardDone, rows, TypeOK, SelectedSound, DiscardSound, InTheWay
<1>6. CASE CheckPasses(s)
  BY <1>0, <1>6 DEF CheckPasses, rows, TypeOK, SelectedSound, DiscardSound, InTheWay
<1>7. ASSUME NEW c \in Codes, DiscardRow(s, c) PROVE SelectedSound(s)' /\ DiscardSound(s)'
  <2>1. /\ pc[s] = "discarding" /\ pc'[s] = "discarding" /\ UNCHANGED committed
        /\ job'[s].known = job[s].known /\ job'[s].found = job[s].found \ {c}
        /\ job'[s].override = job[s].override /\ job'[s].pair = job[s].pair
        /\ job'[s].time = job[s].time
    BY <1>0, <1>7 DEF DiscardRow, Write, rows, TypeOK, Job
  <2>2. job[s].known \subseteq Codes /\ \A d \in Codes : writer[d] = s => writer'[d] = s
    BY <1>0, <1>7 DEF DiscardRow, Write, rows, TypeOK, Job
  <2>3. writer'[c] = s \/ ~InTheWay(s, committed[c])
    BY <1>0, <1>7
    DEF DiscardRow, Write, Discards, DiscardsConflict, DiscardsExpired, InTheWay, Live, TypeOK
  <2> QED
    BY <1>0, <2>1, <2>2, <2>3 DEF SelectedSound, DiscardSound, InTheWay
<1>8. CASE Select(s)
  <2>1. \A c \in Codes : View(s, c) = committed[c]
    BY <1>8 DEF Select, View, IInv, Writes, StepsOfKind, Consuming
  <2>2. PICK c \in Codes : SelectMatches(s, committed[c]) /\ job' = [job EXCEPT ![s].found = {c}]
    BY <1>8, <2>1 DEF Select
  <2>3. pc'[s] = "verify" /\ job'[s].found = {c} /\ job'[s].start = job[s].start
        /\ UNCHANGED committed
    BY <1>0, <1>8, <2>2 DEF Select, rows, TypeOK, Job
  <2>4. committed[c].status # "absent" /\ committed[c].expires > job[s].start
    BY <2>2 DEF SelectMatches, Live
  <2> QED
    BY <2>3, <2>4 DEF SelectedSound, DiscardSound, Unexpired
<1>9. ASSUME NEW t \in (now - Skew)..(now + Skew), Verify(s, t)
      PROVE  SelectedSound(s)' /\ DiscardSound(s)'
  <2>1. PICK c \in Codes : job[s].found = {c} /\ Unexpired(s, c)
    BY <1>0, <1>9 DEF Verify, SelectedSound
  <2>2. job[s].code = c /\ pc'[s] = "delete" /\ UNCHANGED <<committed, job>>
    BY <1>0, <1>9, <2>1 DEF Verify, Accepts, rows, TypeOK
  <2> QED
    BY <2>1, <2>2 DEF SelectedSound, DiscardSound, Unexpired
<1>10. ASSUME NEW t \in (now - Skew)..(now + Skew), DeleteScan(s, t)
       PROVE  SelectedSound(s)' /\ DiscardSound(s)'
  <2> DEFINE k == job[s].code
  <2>1. pc[s] = "delete" /\ k \in Codes /\ job[s].found = {k} /\ Unexpired(s, k)
    BY <1>0, <1>10 DEF DeleteScan, SelectedSound, IInv, StepsOfKind
  <2>2. View(s, k) = committed[k]
    BY <2>1 DEF View, IInv, Writes, StepsOfKind, Consuming
  <2>3. /\ pc'[s] = "deleting" /\ job'[s].start = job[s].start /\ job'[s].code = k
        /\ job'[s].found = {c \in job[s].found : DeleteMatches(s, View(s, c))}
        /\ UNCHANGED committed
    BY <1>0, <1>10 DEF DeleteScan, rows, TypeOK, Job
  <2>4. k \in job'[s].found \/ committed[k].status \in Dead
    BY <1>0, <2>1, <2>2, <2>3 DEF DeleteMatches, Unexpired, TypeOK, Row
  <2> QED
    BY <2>1, <2>3, <2>4 DEF SelectedSound, DiscardSound, Unexpired
<1> QED
  BY <1>2, <1>3, <1>4, <1>5, <1>6, <1>7, <1>8, <1>9, <1>10
  DEF Advance, Acquire, CheckRefuses, InsertRefused, SelectMisses, VerifyRefuses,
      DeleteMisses, WorkFails, Abort, DeadlockVictim

\* What requests have read is true in every reachable state, or a commit made it false.
THEOREM RefusalInvariant == Spec => []RefusalInv
<1>1. Init => RefusalInv
  BY DEF Init, RefusalInv, Immutable, SelectedSound, DiscardSound
<1>2. IInv /\ RefusalInv /\ [Next]_vars => RefusalInv'
  <2>0. IInv /\ RefusalInv /\ [Next]_vars => Immutable'
    BY ImmutableStep DEF RefusalInv
  <2> SUFFICES ASSUME IInv, RefusalInv, [Next]_vars, NEW t \in Sessions
               PROVE  SelectedSound(t)' /\ DiscardSound(t)'
    BY <2>0 DEF RefusalInv
  <2>1. Immutable /\ SelectedSound(t) /\ DiscardSound(t)
    BY DEF RefusalInv
  <2>2. CASE UNCHANGED vars \/ Tick
    <3>1. UNCHANGED <<pc, job, writer>>
      BY <2>2 DEF vars, Tick, rows
    <3> QED
      BY <2>1, <3>1, OthersKeep
  <2>3. ASSUME NEW s \in Sessions, Arrive(s) \/ Advance(s) \/ Acquire(s) \/ Abort(s)
        PROVE  SelectedSound(t)' /\ DiscardSound(t)'
    <3>1. CASE t = s
      BY <2>3, <3>1, OwnStep
    <3>2. CASE t # s
      <4>1. pc'[t] = pc[t] /\ job'[t] = job[t]
            /\ \A c \in Codes : writer[c] = t => writer'[c] = t
        BY <2>3, <3>2, OthersStay
      <4> QED
        BY <2>1, <4>1, OthersKeep
    <3> QED
      BY <3>1, <3>2
  <2> QED
    BY <2>2, <2>3 DEF Next
<1> QED
  BY <1>1, <1>2, Invariant, PTL DEF Spec

\* A matching code found in time is refused at the delete only when a committed
\* transaction has redeemed or replaced it.
THEOREM Refusals == Spec => RefusedOnlyIfGone
<1>1. ASSUME IInv, RefusalInv, NEW s \in Sessions, pc[s] = "deleting", DeleteMisses(s)
      PROVE  committed[job[s].code].status \in Dead
  <2> DEFINE k == job[s].code
  <2>1. k \in Codes /\ Unexpired(s, k) /\ (k \in job[s].found \/ committed[k].status \in Dead)
    BY <1>1 DEF RefusalInv, SelectedSound, IInv, StepsOfKind
  <2>2. k \in job[s].found => committed[k].status # "live"
    BY <1>1, <2>1 DEF DeleteMisses, DeleteMatches, Unexpired
  <2> QED
    BY <1>1, <2>1, <2>2 DEF Unexpired, IInv, TypeOK, Row, Dead
<1>2. IInv /\ RefusalInv /\ [Next]_vars =>
        [\A s \in Sessions :
           pc[s] = "deleting" /\ DeleteMisses(s) => committed[job[s].code].status \in Dead]_vars
  BY <1>1
<1> QED
  BY <1>2, Invariant, RefusalInvariant, PTL DEF Spec, RefusedOnlyIfGone

\* What refuses an insert and was there at its discard statement is nothing the statement
\* had to discard.
LEMMA RefusedByOthers ==
  ASSUME IInv, RefusalInv, NEW s \in Sessions, InsertRefused(s),
         NEW c \in Violated(s) \intersect job[s].known
  PROVE  latest[c] = committed[c] /\ Live(committed[c], job[s].pair) /\ ~InTheWay(s, committed[c])
<1>1. c \in Codes /\ writer[c] \in {NoSession, s} /\ Live(latest[c], job[s].pair)
      /\ pc[s] = "insert"
  BY DEF Violated, InsertRefused
<1>2. writer[c] = s \/ ~InTheWay(s, committed[c])
  BY <1>1 DEF RefusalInv, DiscardSound
<1>3. writer[c] = s => latest[c].status \in {"overridden", "expired"}
  BY <1>1 DEF IInv, Writes, StepsOfKind, Issuing
<1>4. writer[c] = NoSession /\ latest[c] = committed[c]
  BY <1>1, <1>3 DEF Live, IInv, Versions
<1> QED
  BY <1>1, <1>2, <1>4, ConstantsAssumption

\* Of two overrides that overlap the loser is refused by the winner's new code, never by
\* one it could see.
THEOREM Overrides == Spec => OverrideLosesToNewer
<1>1. ASSUME IInv, RefusalInv, NEW s \in Sessions, InsertRefused(s), job[s].override
      PROVE  Violated(s) \intersect job[s].known = {}
  BY <1>1, RefusedByOthers DEF InTheWay
<1>2. IInv /\ RefusalInv /\ [Next]_vars =>
        [\A s \in Sessions : InsertRefused(s) /\ job[s].override =>
                              Violated(s) \intersect job[s].known = {}]_vars
  BY <1>1
<1> QED
  BY <1>2, Invariant, RefusalInvariant, PTL DEF Spec, OverrideLosesToNewer

\* Without Override, codes expired by the request's clock are no obstacle.
THEOREM Expiries == Spec => ExpiredNeverBlocks
<1>1. ASSUME IInv, RefusalInv, NEW s \in Sessions, InsertRefused(s), ~job[s].override,
             NEW c \in Violated(s) \intersect job[s].known
      PROVE  latest[c].expires > job[s].time
  <2>1. latest[c] = committed[c] /\ ~(committed[c].expires <= job[s].time)
    BY <1>1, RefusedByOthers DEF InTheWay
  <2>2. latest[c].expires \in Int /\ job[s].time \in Int
    BY <1>1 DEF Violated, IInv, TypeOK, Row, Job
  <2> QED
    BY <2>1, <2>2
<1>2. IInv /\ RefusalInv /\ [Next]_vars =>
        [\A s \in Sessions : InsertRefused(s) /\ ~job[s].override =>
           \A c \in Violated(s) \intersect job[s].known : latest[c].expires > job[s].time]_vars
  BY <1>1
<1> QED
  BY <1>2, Invariant, RefusalInvariant, PTL DEF Spec, ExpiredNeverBlocks

-----------------------------------------------------------------------------
(* The refinement of OneTimeCodes.                                          *)
\* The commit of an insert is the abstract Issue: its row takes the place of whatever
\* was live for the pair.
LEMMA CommitIssues ==
  ASSUME IInv, NEW s \in Sessions, Commit(s), job[s].kind = "issue"
  PROVE  Store!Issue(job[s].pair, job[s].code)
<1> DEFINE k == job[s].code
           p == job[s].pair
<1>1. /\ k \in Codes /\ p \in Pairs /\ writer[k] = s /\ committed[k].status = "absent"
      /\ Live(latest[k], p) /\ s # NoSession
  BY ConstantsAssumption
  DEF Commit, IInv, StepsOfKind, Holds, Writes, Issuing, TypeOK, Job
<1>2. \A c \in Codes : committed'[c] = IF writer[c] = s THEN latest[c] ELSE committed[c]
  BY DEF Commit, Publish, View
<1>3. \A c \in Codes : writer[c] = s /\ c # k =>
        /\ committed[c].status # "absent" /\ latest[c].status \in {"overridden", "expired"}
        /\ committed[c].pair = p
  BY DEF Commit, IInv, Writes, Issuing, Dead
<1>4. \A c \in Codes : c # k /\ Live(committed[c], p) => writer[c] = s
  BY <1>1 DEF IInv, OneWriterReplaces
<1>5. \A q \in Pairs : {c \in Codes : Live(committed'[c], q)}
                      = IF q = p THEN {k} ELSE {c \in Codes : Live(committed[c], q)}
  BY <1>1, <1>2, <1>3, <1>4 DEF Live
<1>6. {c \in Codes : committed'[c].status # "absent"}
        = {c \in Codes : committed[c].status # "absent"} \union {k}
  BY <1>1, <1>2, <1>3 DEF Live
<1>7. UNCHANGED uses
  BY DEF Commit
<1> QED
  BY <1>1, <1>5, <1>6, <1>7 DEF Store!Issue

\* The commit of a redemption is the abstract Redeem.
LEMMA CommitRedeems ==
  ASSUME IInv, NEW s \in Sessions, Commit(s), job[s].kind = "consume"
  PROVE  Store!Redeem(committed[job[s].code].pair, job[s].code)
<1> DEFINE k == job[s].code
           p == committed[k].pair
<1>1. /\ k \in Codes /\ writer[k] = s /\ latest[k].status = "consumed"
      /\ committed[k].status = "live"
      /\ \A c \in Codes : writer[c] = s => c = k
  BY DEF Commit, IInv, StepsOfKind, Holds, Writes, Consuming
<1>2. \A c \in Codes : committed'[c] = IF c = k THEN latest[c] ELSE committed[c]
  BY <1>1 DEF Commit, Publish, View
<1>3. p \in Pairs /\ uses[k] = 0 /\ uses \in [Codes -> Nat]
  BY <1>1 DEF IInv, TypeOK, Row, Redeemed, Dead
<1>4. \A c \in Codes : uses'[c] = IF c = k THEN uses[c] + 1 ELSE uses[c]
  BY <1>1, <1>3 DEF Commit
<1>5. {c \in Codes : Live(committed[c], p)} = {k}
  BY <1>1, <1>3 DEF IInv, OneLiveRow, Live
<1>6. \A q \in Pairs : {c \in Codes : Live(committed'[c], q)}
                      = IF q = p THEN {} ELSE {c \in Codes : Live(committed[c], q)}
  BY <1>1, <1>2, <1>5 DEF Live
<1>7. {c \in Codes : uses'[c] > 0} = {c \in Codes : uses[c] > 0} \union {k}
  BY <1>1, <1>3, <1>4
<1>8. {c \in Codes : committed'[c].status # "absent"}
        = {c \in Codes : committed[c].status # "absent"}
  BY <1>1, <1>2
<1> DEFINE live == [q \in Pairs |-> {c \in Codes : Live(committed[c], q)}]
<1>9. live[p] = {k}
  BY <1>3, <1>5
<1>10. live' = [live EXCEPT ![p] = {}]
  BY <1>3, <1>6
<1>11. k \notin {c \in Codes : uses[c] > 0}
  BY <1>3
<1> QED
  BY <1>7, <1>8, <1>9, <1>10, <1>11 DEF Store!Redeem

\* Every step of the table is a step of the abstract store or leaves it unchanged.
LEMMA StepRefines == IInv /\ [Next]_vars => [Store!Next]_(Store!vars)
<1> SUFFICES ASSUME IInv, [Next]_vars PROVE [Store!Next]_(Store!vars)
  OBVIOUS
<1>1. ASSUME UNCHANGED <<committed, uses>> PROVE UNCHANGED Store!vars
  BY <1>1 DEF Store!vars
<1>2. ASSUME NEW s \in Sessions, Commit(s) PROVE Store!Next
  <2>1. job[s].code \in Codes /\ job[s].pair \in Pairs
        /\ committed[job[s].code].pair \in Pairs
        /\ job[s].kind \in {"issue", "consume"}
    BY <1>2 DEF Commit, IInv, StepsOfKind, TypeOK, Job, Row
  <2> QED
    <3>1. CASE job[s].kind = "issue"
      <4>1. Store!Issue(job[s].pair, job[s].code)
        BY <1>2, <3>1, CommitIssues
      <4> QED
        BY <2>1, <4>1 DEF Store!Next, Store!Issue
    <3>2. CASE job[s].kind = "consume"
      <4>1. Store!Redeem(committed[job[s].code].pair, job[s].code)
        BY <1>2, <3>2, CommitRedeems
      <4> QED
        BY <2>1, <4>1 DEF Store!Next, Store!Redeem
    <3> QED
      BY <2>1, <3>1, <3>2
<1>3. ASSUME NEW s \in Sessions,
             Arrive(s) \/ Advance(s) \/ Acquire(s) \/ Abort(s), ~Commit(s)
      PROVE  UNCHANGED <<committed, uses>>
  BY <1>3
  DEF Arrive, Consume, Issue, Advance, Begin, DiscardScan, DiscardDone, CheckPasses,
      CheckRefuses, Select, SelectMisses, Verify, VerifyRefuses, DeleteScan, WorkSucceeds,
      WorkFails, DeadlockVictim, Acquire, DiscardRow, DeleteRow, InsertRow, InsertRefused,
      DeleteMisses, Abort, Rollback, Write, rows
<1> QED
  BY <1>1, <1>2, <1>3 DEF Next, vars, Tick, rows

\* The table, its locks and its statements implement the one-time store: every behaviour
\* of ShortCodes is one of OneTimeCodes.
THEOREM Refinement == Spec => ImplementsStore
<1>1. Init => Store!Init
  BY DEF Init, Store!Init, NoRow, Live
<1> QED
  BY <1>1, Invariant, StepRefines, PTL DEF Spec, ImplementsStore, Store!Spec

\* What the abstract store promises holds of the table: a pair has at most one code
\* that can still be redeemed, and it has not been redeemed before.
THEOREM StorePromise == Spec => []Store!OneLiveCode
<1>1. IInv => Store!OneLiveCode
  <2> SUFFICES ASSUME IInv
               PROVE  Store!OneLiveCode
    OBVIOUS
  <2>1. ASSUME NEW p \in Pairs
        PROVE  \A c, d \in {k \in Codes : Live(committed[k], p)} : c = d
    BY DEF IInv, OneLiveRow
  <2>2. ASSUME NEW p \in Pairs
        PROVE  {c \in Codes : Live(committed[c], p)} \intersect {c \in Codes : uses[c] > 0} = {}
    BY DEF IInv, Redeemed, Live, Dead
  <2> QED
    BY <2>1, <2>2 DEF Store!OneLiveCode
<1> QED
  BY <1>1, Invariant, PTL

-----------------------------------------------------------------------------
(* Waiting, and going on.                                                   *)
\* No step of a request puts a row in another's hands.
LEMMA OthersWriteNothing ==
  ASSUME TypeOK, NEW s \in Sessions, Arrive(s) \/ Advance(s) \/ Acquire(s) \/ Abort(s),
         NEW c \in Codes
  PROVE  writer'[c] \in {writer[c], s, NoSession}
<1>1. CASE Rollback(s) \/ Commit(s)
  BY <1>1 DEF Rollback, Commit, Publish
<1>2. ASSUME NEW d \in Codes, DiscardRow(s, d) \/ DeleteRow(s, d)
      PROVE  writer'[c] \in {writer[c], s, NoSession}
  BY <1>2 DEF DiscardRow, DeleteRow, Write, rows, TypeOK
<1>3. CASE InsertRow(s)
  BY <1>3 DEF InsertRow, Write, TypeOK
<1> QED
  BY <1>1, <1>2, <1>3
  DEF Arrive, Consume, Issue, Advance, Begin, DiscardScan, DiscardDone, CheckPasses,
      CheckRefuses, Select, SelectMisses, Verify, VerifyRefuses, DeleteScan, WorkSucceeds,
      WorkFails, DeadlockVictim, Acquire, InsertRefused, DeleteMisses, Abort, rows

\* The rows a request has still to lock keep their pair while others act.
LEMMA WaitOthers ==
  ASSUME IInv, Immutable, [Next]_vars, NEW t \in Sessions, pc'[t] = pc[t], job'[t] = job[t],
         \A c \in Codes : writer'[c] = t => writer[c] = t, WaitSound(t)
  PROVE  WaitSound(t)'
<1>1. job[t].found \subseteq Codes
  BY DEF IInv, TypeOK, Job
<1>2. pc[t] # "idle" => job[t].code \in Codes
  BY DEF IInv, StepsOfKind
<1>3. \A c \in Codes : OfPair(t, c) => OfPair(t, c)'
  BY RowsSettle DEF OfPair
<1>4. Consuming(t)' = Consuming(t)
  BY DEF Consuming
<1> QED
  BY <1>1, <1>2, <1>3, <1>4 DEF WaitSound

\* A request comes to wait for, and to redeem, rows of its own pair only: its WHERE
\* clauses name the pair, and it has written nothing when it looks.
LEMMA WaitOwn ==
  ASSUME IInv, RefusalInv, WaitInv, NEW s \in Sessions,
         Arrive(s) \/ Advance(s) \/ Acquire(s) \/ Abort(s)
  PROVE  WaitSound(s)'
<1> USE DEF Goto
<1>0. TypeOK /\ pc[s] \in Steps /\ job[s] \in Job /\ WaitSound(s) /\ SelectedSound(s)
  BY DEF IInv, RefusalInv, WaitInv, TypeOK
<1>1. ASSUME pc'[s] \in {"idle", "select", "check", "insert"} PROVE WaitSound(s)'
  BY <1>1 DEF WaitSound
<1>2. CASE Arrive(s)
  <2>1. pc'[s] = "begin" /\ pc[s] = "idle" /\ UNCHANGED rows
    BY <1>0, <1>2 DEF Arrive, Consume, Issue, TypeOK
  <2> QED BY <2>1 DEF WaitSound, rows, IInv, Writes
<1>3. CASE Begin(s)
  BY <1>0, <1>3 DEF Begin, WaitSound, rows, TypeOK
<1>4. CASE DiscardDone(s) \/ CheckPasses(s) \/ Rollback(s) \/ Commit(s)
  BY <1>0, <1>1, <1>4 DEF DiscardDone, CheckPasses, Rollback, Commit, Return, TypeOK
<1>5. CASE InsertRow(s)
  <2>1. job[s].kind = "issue" /\ pc'[s] = "commit" /\ job' = job
    BY <1>0, <1>5 DEF InsertRow, IInv, StepsOfKind, TypeOK
  <2> QED BY <2>1 DEF WaitSound, Consuming
<1>6. CASE DiscardScan(s)
  <2>1. /\ pc[s] = "discard" /\ pc'[s] = "discarding" /\ UNCHANGED rows
        /\ job'[s].found = {c \in Codes : Discards(s, View(s, c))}
        /\ job'[s].pair = job[s].pair
    BY <1>0, <1>6 DEF DiscardScan, TypeOK, Job
  <2>2. \A c \in Codes : View(s, c) = committed[c] /\ writer[c] # s
    BY <1>0, <2>1 DEF WaitSound, View
  <2>3. \A c \in job'[s].found : OfPair(s, c)
    BY <2>1, <2>2 DEF Discards, DiscardsConflict, DiscardsExpired, Live, OfPair, Dead
  <2> QED BY <2>1, <2>2, <2>3 DEF WaitSound, OfPair, rows
<1>7. ASSUME NEW c \in Codes, DiscardRow(s, c) PROVE WaitSound(s)'
  <2>1. /\ pc[s] = "discarding" /\ pc'[s] = "discarding" /\ UNCHANGED committed
        /\ job'[s].found = job[s].found \ {c} /\ job'[s].pair = job[s].pair
        /\ job[s].found \subseteq Codes
        /\ \A d \in Codes : d # c => writer'[d] = writer[d]
    BY <1>0, <1>7 DEF DiscardRow, Write, rows, TypeOK, Job
  <2> QED BY <1>0, <2>1 DEF WaitSound, OfPair
<1>8. CASE Select(s)
  <2>1. \A c \in Codes : View(s, c) = committed[c]
    BY <1>8 DEF Select, View, IInv, Writes, StepsOfKind, Consuming
  <2>2. PICK c \in Codes : SelectMatches(s, committed[c]) /\ job' = [job EXCEPT ![s].found = {c}]
    BY <1>8, <2>1 DEF Select
  <2>3. /\ pc'[s] = "verify" /\ job'[s].found = {c} /\ job'[s].pair = job[s].pair
        /\ UNCHANGED committed
    BY <1>0, <1>8, <2>2 DEF Select, rows, TypeOK, Job
  <2> QED BY <2>2, <2>3 DEF WaitSound, OfPair, SelectMatches, Live
<1>9. ASSUME NEW t \in (now - Skew)..(now + Skew), Verify(s, t) PROVE WaitSound(s)'
  <2>1. PICK c \in Codes : job[s].found = {c}
    BY <1>0, <1>9 DEF Verify, SelectedSound
  <2>2. job[s].code = c /\ pc[s] = "verify" /\ pc'[s] = "delete" /\ UNCHANGED <<committed, job>>
    BY <1>0, <1>9, <2>1 DEF Verify, Accepts, rows, TypeOK
  <2> QED BY <1>0, <2>1, <2>2 DEF WaitSound, OfPair
<1>10. ASSUME NEW t \in (now - Skew)..(now + Skew), DeleteScan(s, t) PROVE WaitSound(s)'
  <2>1. /\ pc[s] = "delete" /\ pc'[s] = "deleting" /\ UNCHANGED committed
        /\ job'[s].code = job[s].code /\ job'[s].pair = job[s].pair
    BY <1>0, <1>10 DEF DeleteScan, rows, TypeOK, Job
  <2> QED BY <1>0, <2>1 DEF WaitSound, OfPair
<1>11. ASSUME NEW c \in Codes, DeleteRow(s, c) PROVE WaitSound(s)'
  <2>1. pc[s] = "deleting" /\ pc'[s] = "work" /\ UNCHANGED <<committed, job>>
    BY <1>0, <1>11 DEF DeleteRow, Write, TypeOK
  <2> QED BY <1>0, <2>1 DEF WaitSound, OfPair
<1>12. CASE WorkSucceeds(s)
  <2>1. pc[s] = "work" /\ pc'[s] = "commit" /\ UNCHANGED <<committed, job>>
    BY <1>0, <1>12 DEF WorkSucceeds, rows, TypeOK
  <2> QED BY <1>0, <2>1 DEF WaitSound, OfPair
<1> QED
  BY <1>2, <1>3, <1>4, <1>5, <1>6, <1>7, <1>8, <1>9, <1>10, <1>11, <1>12
  DEF Advance, Acquire, CheckRefuses, InsertRefused, SelectMisses, VerifyRefuses,
      DeleteMisses, WorkFails, Abort, DeadlockVictim

\* Whom a request waits for, in a state where the invariants hold.
LEMMA WaitsFor ==
  ASSUME IInv, RefusalInv, WaitInv, NEW s \in Sessions, NEW w \in Awaits(s)
  PROVE  w \in Sessions \ {s} /\ pc[w] # "idle" /\ job[w].pair = job[s].pair
<1>0. /\ NoSession \notin Sessions /\ TypeOK /\ WaitSound(s) /\ SelectedSound(s)
      /\ job[s].found \subseteq Codes
  BY ConstantsAssumption DEF IInv, RefusalInv, WaitInv, TypeOK, Job
<1>1. ASSUME NEW c \in Codes, writer[c] = w, w \in Sessions,
             OfPair(s, c) \/ Live(committed[c], job[s].pair) \/ Live(latest[c], job[s].pair)
      PROVE  pc[w] # "idle" /\ job[w].pair = job[s].pair
  <2>1. pc[w] # "idle" /\ (Issuing(w) \/ Consuming(w))
    BY <1>0, <1>1 DEF IInv, Writes, StepsOfKind, Issuing, Consuming, TypeOK, Job
  <2>2. CASE Issuing(w)
    BY <1>1, <2>2 DEF IInv, Writes, OfPair, Live
  <2>3. CASE Consuming(w)
    <3>1. /\ c = job[w].code /\ pc[w] \in {"work", "commit"} /\ latest[c].status = "consumed"
      BY <1>1, <2>3 DEF IInv, Writes
    <3>2. WaitSound(w)
      BY <1>1 DEF WaitInv
    <3>3. OfPair(w, c)
      BY <2>3, <3>1, <3>2 DEF WaitSound
    <3>4. committed[c].pair = job[w].pair
      BY <3>3 DEF OfPair
    <3> QED BY <1>1, <2>1, <3>1, <3>4 DEF OfPair, Live
  <2> QED BY <2>1, <2>2, <2>3
<1>2. CASE pc[s] \in {"discarding", "deleting"} /\ job[s].found # {}
  <2>1. /\ \A c \in job[s].found : writer[c] # NoSession
        /\ w \in {writer[c] : c \in job[s].found}
    BY <1>2 DEF Awaits
  <2>2. PICK c \in job[s].found : writer[c] = w
    BY <2>1
  <2>3. c \in Codes /\ w \in Sessions
    BY <1>0, <2>1, <2>2 DEF TypeOK
  <2>4. OfPair(s, c) /\ w # s
    <3>1. CASE pc[s] = "discarding"
      BY <1>0, <2>2, <3>1 DEF WaitSound
    <3>2. CASE pc[s] = "deleting"
      <4>1. c = job[s].code /\ OfPair(s, c)
        BY <1>0, <2>2, <3>2 DEF IInv, Holds, WaitSound
      <4>2. Consuming(s)
        BY <3>2 DEF IInv, StepsOfKind, Consuming
      <4>3. w # s
        BY <2>2, <2>3, <3>2, <4>2 DEF IInv, Writes
      <4> QED BY <4>1, <4>3
    <3> QED BY <1>2, <3>1, <3>2
  <2> QED BY <1>1, <2>2, <2>3, <2>4
<1>3. CASE pc[s] = "insert" /\ Violated(s) = {}
  <2>1. w \in {writer[c] : c \in InsertAwaits(s)}
    BY <1>3 DEF Awaits
  <2>2. PICK c \in InsertAwaits(s) : writer[c] = w
    BY <2>1
  <2>3. /\ c \in Codes /\ w \in Sessions \ {s}
        /\ Live(committed[c], job[s].pair) \/ Live(latest[c], job[s].pair)
    BY <1>0, <2>2 DEF InsertAwaits, TypeOK
  <2> QED BY <1>1, <2>2, <2>3
<1> QED
  BY <1>2, <1>3 DEF Awaits

\* What a request has still to lock is of its pair in every reachable state.
THEOREM WaitInvariant == Spec => []WaitInv
<1>1. Init => WaitInv
  BY DEF Init, WaitInv, WaitSound
<1>2. IInv /\ RefusalInv /\ WaitInv /\ [Next]_vars => WaitInv'
  <2> SUFFICES ASSUME IInv, RefusalInv, WaitInv, [Next]_vars, NEW t \in Sessions
               PROVE  WaitSound(t)'
    BY DEF WaitInv
  <2>1. Immutable /\ WaitSound(t) /\ TypeOK /\ NoSession \notin Sessions
    BY ConstantsAssumption DEF RefusalInv, WaitInv, IInv
  <2>2. CASE UNCHANGED vars \/ Tick
    <3>1. UNCHANGED <<pc, job, writer>>
      BY <2>2 DEF vars, Tick, rows
    <3> QED BY <2>1, <3>1, WaitOthers
  <2>3. ASSUME NEW s \in Sessions, Arrive(s) \/ Advance(s) \/ Acquire(s) \/ Abort(s)
        PROVE  WaitSound(t)'
    <3>1. CASE t = s
      BY <2>3, <3>1, WaitOwn
    <3>2. CASE t # s
      <4>1. pc'[t] = pc[t] /\ job'[t] = job[t]
        BY <2>3, <3>2, OthersStay
      <4>2. \A c \in Codes : writer'[c] = t => writer[c] = t
        BY <2>1, <2>3, <3>2, OthersWriteNothing
      <4> QED BY <2>1, <4>1, <4>2, WaitOthers
    <3> QED BY <3>1, <3>2
  <2> QED BY <2>2, <2>3 DEF Next
<1> QED
  BY <1>1, <1>2, Invariant, RefusalInvariant, PTL DEF Spec

\* Requests wait for open requests of their own usage and target only, whatever else the
\* table holds and however many transactions are open.
THEOREM Waits == Spec => []WaitsStayLocal
<1>1. IInv /\ RefusalInv /\ WaitInv => WaitsStayLocal
  BY WaitsFor DEF WaitsStayLocal
<1> QED
  BY <1>1, Invariant, RefusalInvariant, WaitInvariant, PTL

\* If everybody open on a target waits, they wait in a circle, and the deadlock detector
\* has a victim: a wait never hangs on somebody who has left, or on another target.
THEOREM Deadlocks == Spec => []SomebodyMoves
<1>1. WaitsStayLocal => SomebodyMoves
  BY DEF WaitsStayLocal, SomebodyMoves, OpenOn, Circle
<1> QED
  BY <1>1, Waits, PTL

\* No request goes in circles by itself: it ends after its seven statements and as many
\* row locks as its discard statement found rows.
THEOREM GoesForward == Spec => ForwardOnly
<1> DEFINE Forward(s) == pc[s] # "idle" /\ (pc'[s] # pc[s] \/ job'[s] # job[s]) =>
             \/ Place(pc'[s]) > Place(pc[s])
             \/ /\ pc'[s] = pc[s]
                /\ job'[s].found \subseteq job[s].found /\ job'[s].found # job[s].found
<1>1. ASSUME IInv, NEW s \in Sessions, Arrive(s) \/ Advance(s) \/ Acquire(s) \/ Abort(s)
      PROVE  Forward(s)
  <2>0. TypeOK /\ pc[s] \in Steps /\ job[s] \in Job
    BY <1>1 DEF IInv, TypeOK
  <2>1. CASE Rollback(s) \/ Commit(s)
    BY <2>0, <2>1 DEF Rollback, Commit, Return, Goto, Place, Steps, TypeOK
  <2>2. CASE Arrive(s)
    BY <2>2 DEF Arrive, Consume, Issue
  <2>3. CASE Begin(s) \/ DiscardScan(s) \/ DiscardDone(s) \/ CheckPasses(s) \/ InsertRow(s)
    BY <2>0, <2>3 DEF Begin, DiscardScan, DiscardDone, CheckPasses, InsertRow, Goto, Place, TypeOK
  <2>4. CASE Select(s) \/ WorkSucceeds(s) \/ \E c \in Codes : DeleteRow(s, c)
    <3>1. \/ pc[s] = "select" /\ pc' = [pc EXCEPT ![s] = "verify"]
          \/ pc[s] = "work" /\ pc' = [pc EXCEPT ![s] = "commit"]
          \/ pc[s] = "deleting" /\ pc' = [pc EXCEPT ![s] = "work"]
      BY <2>4 DEF Select, WorkSucceeds, DeleteRow, Goto
    <3> QED BY <2>0, <3>1 DEF Place, TypeOK
  <2>5. ASSUME NEW t \in (now - Skew)..(now + Skew), Verify(s, t) \/ DeleteScan(s, t)
        PROVE  Forward(s)
    BY <2>0, <2>5 DEF Verify, DeleteScan, Goto, Place, TypeOK
  <2>6. ASSUME NEW c \in Codes, DiscardRow(s, c) PROVE Forward(s)
    <3>1. pc'[s] = pc[s] /\ c \in job[s].found /\ job'[s].found = job[s].found \ {c}
      BY <2>0, <2>6 DEF DiscardRow, TypeOK, Job
    <3> QED BY <3>1
  <2> QED
    BY <1>1, <2>1, <2>2, <2>3, <2>4, <2>5, <2>6
    DEF Advance, Acquire, CheckRefuses, InsertRefused, SelectMisses, VerifyRefuses,
        DeleteMisses, WorkFails, Abort, DeadlockVictim
<1>2. IInv /\ [Next]_vars => [\A s \in Sessions : Forward(s)]_vars
  <2> SUFFICES ASSUME IInv, Next, NEW t \in Sessions PROVE Forward(t)
    OBVIOUS
  <2>1. CASE Tick
    BY <2>1 DEF Tick
  <2>2. ASSUME NEW s \in Sessions, Arrive(s) \/ Advance(s) \/ Acquire(s) \/ Abort(s)
        PROVE  Forward(t)
    <3>1. CASE t = s
      BY <1>1, <2>2, <3>1
    <3>2. CASE t # s
      BY <2>2, <3>2, OthersStay
    <3> QED BY <3>1, <3>2
  <2> QED BY <2>1, <2>2 DEF Next
<1> QED
  BY <1>2, Invariant, PTL DEF Spec, ForwardOnly
=============================================================================
