-------------------------- MODULE MailDrainProofs --------------------------
(***************************************************************************)
(* The safety of the way the server stops, for any number of requests,     *)
(* services and slots, and any timeouts that leave room for one send.      *)
(***************************************************************************)
EXTENDS MailDrain, FiniteSetTheorems, TLAPS

USE DEF Running, Sending, InFlight, Open, history

LEMMA InitEstablishes == Init => MailInv
  <1> SUFFICES ASSUME Init PROVE MailInv
    OBVIOUS
  <1>1. Sending = {} /\ Cardinality({}) = 0
    BY FS_EmptySet DEF Init
  <1>2. TypeOK
    BY <1>1, MailAssumption DEF Init, TypeOK
  <1> QED BY <1>2 DEF Init, MailInv, NoSilentLoss, SendsOutliveSignal

LEMMA SendingBounds ==
  ASSUME TypeOK
  PROVE  /\ IsFiniteSet(Sending) /\ Cardinality(Sending) \in Nat
         /\ \A T \in SUBSET Sending : Cardinality(T) <= MaxConcurrent
         /\ \A r \in Requests : Cardinality(Sending) < MaxConcurrent
                                => Cardinality(Sending \union {r}) <= MaxConcurrent
  <1>1. IsFiniteSet(Sending)
    BY FS_Subset, MailAssumption
  <1>2. Cardinality(Sending) \in Nat
    BY <1>1, FS_CardinalityType
  <1>3. ASSUME NEW T \in SUBSET Sending PROVE Cardinality(T) <= MaxConcurrent
    <2>1. IsFiniteSet(T) /\ Cardinality(T) <= Cardinality(Sending)
      BY <1>1, FS_Subset
    <2>2. Cardinality(T) \in Nat
      BY <2>1, FS_CardinalityType
    <2> QED BY <1>2, <2>1, <2>2, MailAssumption DEF TypeOK
  <1>4. ASSUME NEW r \in Requests, Cardinality(Sending) < MaxConcurrent
        PROVE  Cardinality(Sending \union {r}) <= MaxConcurrent
    <2> HIDE DEF Sending
    <2>1. Cardinality(Sending \union {r}) \in {Cardinality(Sending), Cardinality(Sending) + 1}
      BY <1>1, FS_AddElement
    <2> QED BY <1>2, <1>4, <2>1, MailAssumption
  <1> QED BY <1>1, <1>2, <1>3, <1>4

\* Every action keeps the types, and the limit on the mails being sent.
LEMMA TypeInductive == TypeOK /\ [Next]_vars => TypeOK'
  <1> SUFFICES ASSUME TypeOK, [Next]_vars PROVE TypeOK'
    OBVIOUS
  <1> USE MailAssumption
  <1>1. ASSUME NEW r \in Requests, Arrive(r) \/ Answer(r) PROVE TypeOK'
    BY <1>1 DEF Arrive, Answer, stop, TypeOK
  <1>2. ASSUME NEW r \in Requests, Schedule(r) PROVE TypeOK'
    <2>1. Sending' = Sending
      BY <1>2 DEF Schedule, TypeOK
    <2> QED BY <1>2, <2>1 DEF Schedule, stop, TypeOK
  <1>3. ASSUME NEW r \in Requests, TakeSlot(r) PROVE TypeOK'
    <2>1. Sending' = Sending \union {r} /\ Cardinality(Sending) < MaxConcurrent
      BY <1>3 DEF TakeSlot, TypeOK
    <2>2. Cardinality(Sending') <= MaxConcurrent
      BY <2>1, SendingBounds
    <2> QED BY <1>3, <2>2 DEF TakeSlot, stop, TypeOK
  <1>4. ASSUME NEW r \in Requests, Finish(r) PROVE TypeOK'
    <2>1. Sending' \in SUBSET Sending
      BY <1>4 DEF Finish, TypeOK
    <2>2. Cardinality(Sending') <= MaxConcurrent
      BY <2>1, SendingBounds
    <2> QED BY <1>4, <2>2 DEF Finish, stop, TypeOK
  <1>5. CASE Signal
    <2>1. Sending' = Sending
      BY <1>5 DEF Signal
    <2> QED BY <1>5, <2>1 DEF Signal, TypeOK
  <1>6. CASE Stopping \/ Kill
    <2>1. Sending' = Sending
      BY <1>6 DEF Stopping, Stopped, ShutdownFails, Drained, DrainFails, WaitReturns, Kill
    <2> QED BY <1>6, <2>1 DEF Stopping, Stopped, ShutdownFails, Drained, DrainFails, WaitReturns,
                              Kill, Exit, TypeOK
  <1>7. CASE Tick
    <2>1. Sending' = Sending
      BY <1>7 DEF Tick
    <2>2. left' \in [Requests -> 0..SmtpTimeout]
      BY <1>7 DEF Tick, TypeOK
    <2>3. elapsed' \in 0..ShutdownTimeout
      BY <1>7 DEF Tick, TypeOK
    <2> QED BY <1>7, <2>1, <2>2, <2>3 DEF Tick, TypeOK
  <1>8. CASE UNCHANGED vars
    BY <1>8 DEF vars, TypeOK
  <1> QED BY <1>1, <1>2, <1>3, <1>4, <1>5, <1>6, <1>7, <1>8 DEF Next

\* The inductive invariant, action by action.
LEMMA Inductive == MailInv /\ [Next]_vars => MailInv'
  <1> SUFFICES ASSUME MailInv, [Next]_vars PROVE MailInv'
    OBVIOUS
  <1> TypeOK /\ TypeOK'
    BY TypeInductive DEF MailInv
  <1> USE MailAssumption
  <1>1. ASSUME NEW r \in Requests, Arrive(r) \/ Answer(r) PROVE MailInv'
    BY <1>1 DEF Arrive, Answer, stop, TypeOK, MailInv, NoSilentLoss, SendsOutliveSignal
  <1>2. ASSUME NEW r \in Requests, Schedule(r) PROVE MailInv'
    <2>1. InFlight' = InFlight \union {r} /\ phase \in {"serving", "stopping"}
      BY <1>2 DEF Schedule, TypeOK, MailInv
    <2>2. \A q \in Requests \ {r} : mail'[q] = mail[q]
      BY <1>2 DEF Schedule, TypeOK
    <2>3. r \notin slotted
      BY <1>2 DEF Schedule, MailInv
    <2> QED BY <1>2, <2>1, <2>2, <2>3
            DEF Schedule, stop, TypeOK, MailInv, NoSilentLoss, SendsOutliveSignal
  <1>3. ASSUME NEW r \in Requests, TakeSlot(r) PROVE MailInv'
    <2>1. InFlight' = InFlight /\ r \notin slotted
      BY <1>3 DEF TakeSlot, TypeOK, MailInv
    <2>2. \A q \in Requests \ {r} : mail'[q] = mail[q] /\ left'[q] = left[q]
      BY <1>3 DEF TakeSlot, TypeOK
    <2> QED BY <1>3, <2>1, <2>2
            DEF TakeSlot, stop, TypeOK, MailInv, NoSilentLoss, SendsOutliveSignal
  <1>4. ASSUME NEW r \in Requests, Finish(r) PROVE MailInv'
    <2>1. InFlight' = InFlight \ {r} /\ mail'[r] = "done"
      BY <1>4 DEF Finish, TypeOK
    <2>2. \A q \in Requests \ {r} : mail'[q] = mail[q] /\ left'[q] = left[q]
      BY <1>4 DEF Finish, TypeOK
    <2> QED BY <1>4, <2>1, <2>2
            DEF Finish, stop, TypeOK, MailInv, NoSilentLoss, SendsOutliveSignal
  <1>5. CASE Signal
    <2>1. \A r \in Sending : left[r] + 0 <= SmtpTimeout
      BY DEF TypeOK
    <2> QED BY <1>5, <2>1 DEF Signal, TypeOK, MailInv, NoSilentLoss, SendsOutliveSignal
  <1>6. CASE Stopped
    BY <1>6 DEF Stopped, TypeOK, MailInv, NoSilentLoss, SendsOutliveSignal
  \* Whoever gives up does so at the end of the budget, when no send of the signal's
  \* time is left.
  <1>7. ASSUME elapsed = ShutdownTimeout PROVE \A r \in slotted : mail[r] = "done"
    BY <1>7 DEF TypeOK, MailInv
  <1>8. CASE ShutdownFails \/ DrainFails
    BY <1>7, <1>8 DEF ShutdownFails, DrainFails, Exit, TypeOK, MailInv, NoSilentLoss,
                      SendsOutliveSignal
  <1>9. ASSUME NEW k \in Services, WaitReturns(k) PROVE MailInv'
    BY <1>9 DEF WaitReturns, TypeOK, MailInv, NoSilentLoss, SendsOutliveSignal
  <1>10. CASE Drained
    <2>1. counted = {}
      BY <1>10 DEF Drained, TypeOK, MailInv
    <2> QED BY <1>10, <2>1 DEF Drained, Exit, TypeOK, MailInv, NoSilentLoss, SendsOutliveSignal
  <1>11. CASE Kill
    BY <1>11 DEF Kill, Exit, TypeOK, MailInv, NoSilentLoss, SendsOutliveSignal
  <1>12. CASE Tick
    <2>1. \A r \in slotted : \/ mail[r] = "done"
                             \/ mail[r] = "sending" /\ left'[r] + elapsed' <= SmtpTimeout
      <3>1. ASSUME NEW r \in slotted, mail[r] = "sending"
            PROVE  left'[r] + elapsed' <= SmtpTimeout
        <4>1. phase # "serving" /\ left[r] + elapsed <= SmtpTimeout
          BY <3>1 DEF MailInv, TypeOK
        <4>2. left'[r] = left[r] - 1 /\ elapsed' = elapsed + 1
          BY <1>12, <3>1, <4>1 DEF Tick, TypeOK
        <4>3. left[r] \in Nat /\ elapsed \in Nat
          BY DEF TypeOK
        <4> QED BY <4>1, <4>2, <4>3
      <3> QED BY <3>1 DEF MailInv
    <2> QED BY <1>12, <2>1 DEF Tick, TypeOK, MailInv, NoSilentLoss, SendsOutliveSignal
  <1>13. CASE UNCHANGED vars
    BY <1>13 DEF vars, TypeOK, MailInv, NoSilentLoss, SendsOutliveSignal
  <1> QED BY <1>1, <1>2, <1>3, <1>4, <1>5, <1>6, <1>8, <1>9, <1>10, <1>11, <1>12, <1>13
          DEF Next, Stopping

-----------------------------------------------------------------------------
\* The WaitGroups count exactly the mails in flight, and the timers fit.
THEOREM Invariant == Spec => []MailInv
  BY InitEstablishes, Inductive, PTL DEF Spec

\* Every variable keeps its type, and no more mails are sent at once than the limit.
THEOREM TypeCorrect == Spec => []TypeOK
  <1>1. MailInv => TypeOK
    BY DEF MailInv
  <1> QED BY <1>1, Invariant, PTL

\* A stop that reports no loss has lost no mail.
THEOREM NothingLostSilently == Spec => []NoSilentLoss
  <1>1. MailInv => NoSilentLoss
    BY DEF MailInv
  <1> QED BY <1>1, Invariant, PTL

\* A mail being sent when the signal comes is not cut off by the shutdown.
THEOREM SendsEnd == Spec => []SendsOutliveSignal
  <1>1. MailInv => SendsOutliveSignal
    BY DEF MailInv
  <1> QED BY <1>1, Invariant, PTL

\* What Drain waits for is closed: no WaitGroup grows under it.
THEOREM Closed == Spec => DrainedSetIsClosed
  <1> DEFINE Shrinks == phase = "draining" => counted' \subseteq counted
             Zero == \A r \in counted : ServiceOf[r] \notin waited
  <1>1. MailInv => Zero
    BY DEF MailInv
  <1>2. MailInv /\ [Next]_vars => [Shrinks]_vars
    <2> SUFFICES ASSUME MailInv, Next, phase = "draining" PROVE counted' \subseteq counted
      BY DEF vars
    <2>1. \A r \in Requests : ~Schedule(r)
      BY DEF Schedule, MailInv
    <2> QED BY <2>1 DEF Next, Arrive, Answer, TakeSlot, Finish, Signal, Stopping, Stopped,
                        ShutdownFails, WaitReturns, Drained, DrainFails, Kill, Tick, stop
  <1> QED BY <1>1, <1>2, Invariant, PTL DEF Spec, DrainedSetIsClosed

-----------------------------------------------------------------------------
(* Stops that lose nothing that was started.                                *)
\* If the crowd of the signal fits in the slots and no mail sits next to a free one, none
\* waits: either all are being sent, or there are as many sends as there is crowd.
LEMMA NobodyWaits ==
  ASSUME TypeOK, InFlight \subseteq Crowd, Cardinality(Crowd) <= MaxConcurrent,
         Cardinality(Sending) = MaxConcurrent \/ InFlight = Sending
  PROVE  InFlight = Sending
  <1>1. Crowd \subseteq Requests /\ Sending \subseteq InFlight /\ Sending \subseteq Crowd
    BY DEF TypeOK, Crowd
  <1>2. CASE Cardinality(Sending) = MaxConcurrent
    <2> HIDE DEF Sending, InFlight
    <2>1. IsFiniteSet(Crowd) /\ Cardinality(Crowd) \in Nat
      BY <1>1, MailAssumption, FS_Subset, FS_CardinalityType
    <2>2. /\ Cardinality(Sending) <= Cardinality(Crowd)
          /\ Cardinality(Crowd) = Cardinality(Sending) => Crowd = Sending
      BY <1>1, <2>1, FS_Subset
    <2>3. Cardinality(Crowd) = Cardinality(Sending)
      BY <1>2, <2>1, <2>2, MailAssumption
    <2> QED BY <1>1, <2>2, <2>3
  <1> QED BY <1>2

\* The mails of a crowd that fits are sent before the budget is spent.
LEMMA QuietInductive == MailInv /\ QuietInv /\ [Next]_vars => QuietInv'
  <1> SUFFICES ASSUME MailInv, QuietInv, [Next]_vars PROVE QuietInv'
    OBVIOUS
  <1> TypeOK /\ TypeOK'
    BY TypeInductive DEF MailInv
  <1> USE MailAssumption DEF Crowd
  <1> DEFINE Fits == Cardinality(started \union pending) <= MaxConcurrent
             Timely(r) == \/ mail[r] = "done"
                          \/ mail[r] = "waiting" /\ elapsed = 0
                          \/ mail[r] = "sending" /\ left[r] + elapsed <= SmtpTimeout
             Stays == /\ phase \in {"stopping", "draining"} => InFlight \union Open \subseteq Crowd
                      /\ phase \in {"stopping", "draining"} /\ Fits => \A r \in started : Timely(r)
             Ended == Fits => Running \/ outcome = "killed" \/ \A r \in started : mail[r] = "done"
  <1>0. Stays /\ Ended
    BY DEF QuietInv, QuietStopsFinish
  <1> SUFFICES Stays' /\ Ended'
    BY DEF QuietInv, QuietStopsFinish
  <1>1. ASSUME NEW r \in Requests,
               Arrive(r) \/ Answer(r) \/ Schedule(r) \/ TakeSlot(r) \/ Finish(r)
        PROVE  Stays' /\ Ended'
    <2>1. /\ UNCHANGED <<phase, elapsed, started, pending, outcome>> /\ Running
          /\ \A q \in Requests \ {r} : /\ mail'[q] = mail[q] /\ left'[q] = left[q]
                                       /\ request'[q] = request[q]
      BY <1>1 DEF Arrive, Answer, Schedule, TakeSlot, Finish, stop, TypeOK
    <2>2. ASSUME phase \in {"stopping", "draining"}
          PROVE  InFlight' \union Open' \subseteq InFlight \union Open
      BY <1>1, <2>2 DEF Arrive, Answer, Schedule, TakeSlot, Finish, stop, TypeOK
    <2>3. ASSUME r \in started, Timely(r) PROVE Timely(r)'
      BY <1>1, <2>3 DEF Arrive, Answer, Schedule, TakeSlot, Finish, stop, TypeOK
    <2>4. \A q \in started : Timely(q) => Timely(q)'
      BY <2>1, <2>3 DEF TypeOK
    <2> QED BY <1>0, <2>1, <2>2, <2>4
  <1>2. CASE Signal
    <2>1. \A r \in Sending : left[r] + 0 <= SmtpTimeout
      BY DEF TypeOK
    <2>2. /\ started' = InFlight /\ pending' = Open /\ UNCHANGED <<mail, left, elapsed, request>>
          /\ elapsed = 0 /\ phase' = "stopping"
      BY <1>2 DEF Signal, MailInv
    <2> QED BY <2>1, <2>2 DEF TypeOK
  <1>3. CASE Stopped
    BY <1>0, <1>3 DEF Stopped
  <1>4. ASSUME NEW k \in Services, WaitReturns(k) PROVE Stays' /\ Ended'
    BY <1>0, <1>4 DEF WaitReturns
  <1>5. CASE ShutdownFails \/ DrainFails
    <2>1. /\ elapsed = ShutdownTimeout /\ phase \in {"stopping", "draining"} /\ phase' = "exited"
          /\ UNCHANGED <<mail, started, pending>>
      BY <1>5 DEF ShutdownFails, DrainFails, Exit
    <2>2. \A r \in started : left[r] \in Nat
      BY DEF TypeOK
    <2>3. Fits => \A r \in started : mail[r] = "done"
      BY <1>0, <2>1, <2>2
    <2> QED BY <2>1, <2>3
  <1>6. CASE Drained
    <2>1. /\ phase = "draining" /\ phase' = "exited" /\ UNCHANGED <<mail, started, pending>>
          /\ InFlight = {}
      BY <1>6 DEF Drained, Exit, MailInv, TypeOK
    <2>2. Fits => \A r \in started : mail[r] = "done"
      BY <1>0, <2>1 DEF TypeOK
    <2> QED BY <2>1, <2>2
  <1>7. CASE Kill
    BY <1>7 DEF Kill, Exit
  <1>8. CASE Tick
    <2>1. UNCHANGED <<phase, mail, request, started, pending, outcome>>
      BY <1>8 DEF Tick
    <2>2. ASSUME phase \in {"stopping", "draining"}, Fits, NEW r \in started PROVE Timely(r)'
      <3>1. InFlight = Sending
        BY <1>0, <1>8, <2>2, NobodyWaits DEF Tick
      <3>2. Timely(r) /\ r \in Requests
        BY <1>0, <2>2 DEF TypeOK
      <3>3. mail[r] # "waiting"
        BY <3>1, <3>2
      <3>4. mail[r] = "sending" => left'[r] + elapsed' <= SmtpTimeout
        <4>1. ASSUME mail[r] = "sending"
              PROVE  left'[r] = left[r] - 1 /\ elapsed' = elapsed + 1
          BY <1>8, <2>2, <3>2, <4>1 DEF Tick, TypeOK
        <4>2. left[r] \in Nat /\ elapsed \in Nat
          BY <3>2 DEF TypeOK
        <4> QED BY <3>2, <4>1, <4>2
      <3> QED BY <2>1, <3>2, <3>3, <3>4
    <2> QED BY <1>0, <2>1, <2>2
  <1>9. CASE UNCHANGED vars
    BY <1>0, <1>9 DEF vars
  <1> QED BY <1>1, <1>2, <1>3, <1>4, <1>5, <1>6, <1>7, <1>8, <1>9 DEF Next, Stopping

\* The promise of the shutdown timeout holds for every mail that was started, the ones
\* that wait for a slot included, if the mails and the open requests of the signal are no
\* more than SMTP_MAX_CONCURRENT: the condition under which the comment is right.
THEOREM QuietStops == Spec => []QuietStopsFinish
  <1>1. Init => QuietInv
    BY DEF Init, QuietInv, QuietStopsFinish, Crowd
  <1>2. QuietInv => QuietStopsFinish
    BY DEF QuietInv
  <1> QED BY <1>1, <1>2, QuietInductive, Invariant, PTL DEF Spec

-----------------------------------------------------------------------------
(* The length of a stop.                                                    *)

\* After the signal a step takes from what is left to do, and adds to none of it.
Shrinks == /\ Open' \subseteq Open /\ ToSchedule' \subseteq ToSchedule
           /\ ToSend' \subseteq ToSend /\ ToFinish' \subseteq ToFinish
           /\ waited \subseteq waited' /\ elapsed' >= elapsed /\ PhasesLeft' <= PhasesLeft
Moves == \/ Open' # Open \/ ToSchedule' # ToSchedule \/ ToSend' # ToSend
         \/ ToFinish' # ToFinish \/ waited' # waited
         \/ elapsed' > elapsed \/ PhasesLeft' < PhasesLeft

LEMMA Narrows ==
  ASSUME TypeOK, TypeOK', Next, phase # "serving"
  PROVE  Shrinks /\ Moves
  <1>0. elapsed \in Nat /\ elapsed' \in Nat /\ PhasesLeft \in Nat /\ PhasesLeft' \in Nat
    BY MailAssumption DEF TypeOK, PhasesLeft
  <1>1. ASSUME UNCHANGED <<request, mail>>
        PROVE  UNCHANGED <<Open, ToSchedule, ToSend, ToFinish>>
    BY <1>1 DEF ToSchedule, ToSend, ToFinish
  <1>2. ASSUME UNCHANGED <<phase, elapsed, waited>>
        PROVE  waited \subseteq waited' /\ elapsed' >= elapsed /\ PhasesLeft' <= PhasesLeft
    BY <1>0, <1>2 DEF PhasesLeft
  <1>3. ASSUME NEW r \in Requests, Answer(r) PROVE Shrinks /\ Moves
    <2>1. /\ Open' = Open \ {r} /\ r \in Open /\ UNCHANGED <<phase, elapsed, waited>>
          /\ ToSchedule' \subseteq ToSchedule /\ ToSend' \subseteq ToSend
          /\ ToFinish' \subseteq ToFinish
      BY <1>3 DEF Answer, stop, ToSchedule, ToSend, ToFinish, TypeOK
    <2> QED BY <1>2, <2>1 DEF Shrinks, Moves
  <1>4. ASSUME NEW r \in Requests, Schedule(r) PROVE Shrinks /\ Moves
    <2>1. /\ ToSchedule' = ToSchedule \ {r} /\ r \in ToSchedule
          /\ UNCHANGED <<Open, phase, elapsed, waited>>
          /\ ToSend' \subseteq ToSend /\ ToFinish' \subseteq ToFinish
      BY <1>4 DEF Schedule, stop, ToSchedule, ToSend, ToFinish, TypeOK
    <2> QED BY <1>2, <2>1 DEF Shrinks, Moves
  <1>5. ASSUME NEW r \in Requests, TakeSlot(r) PROVE Shrinks /\ Moves
    <2>1. /\ ToSend' = ToSend \ {r} /\ r \in ToSend
          /\ UNCHANGED <<Open, phase, elapsed, waited>>
          /\ ToSchedule' \subseteq ToSchedule /\ ToFinish' \subseteq ToFinish
      BY <1>5 DEF TakeSlot, stop, ToSchedule, ToSend, ToFinish, TypeOK
    <2> QED BY <1>2, <2>1 DEF Shrinks, Moves
  <1>6. ASSUME NEW r \in Requests, Finish(r) PROVE Shrinks /\ Moves
    <2>1. /\ ToFinish' = ToFinish \ {r} /\ r \in ToFinish
          /\ UNCHANGED <<Open, phase, elapsed, waited>>
          /\ ToSchedule' \subseteq ToSchedule /\ ToSend' \subseteq ToSend
      BY <1>6 DEF Finish, stop, ToSchedule, ToSend, ToFinish, TypeOK
    <2> QED BY <1>2, <2>1 DEF Shrinks, Moves
  <1>7. CASE Stopped \/ ShutdownFails \/ Drained \/ DrainFails \/ Kill
    <2>1. /\ UNCHANGED <<request, mail, elapsed, waited>>
          /\ \/ phase = "stopping" /\ phase' \in {"draining", "exited"}
             \/ phase = "draining" /\ phase' = "exited"
      BY <1>7 DEF Stopped, ShutdownFails, Drained, DrainFails, Kill, Exit, TypeOK
    <2>2. PhasesLeft' < PhasesLeft
      BY <2>1 DEF PhasesLeft
    <2> QED BY <1>0, <1>1, <2>1, <2>2 DEF Shrinks, Moves
  <1>8. ASSUME NEW k \in Services, WaitReturns(k) PROVE Shrinks /\ Moves
    <2>1. /\ UNCHANGED <<request, mail, phase, elapsed>>
          /\ waited \subseteq waited' /\ waited' # waited
      BY <1>8 DEF WaitReturns
    <2>2. PhasesLeft' = PhasesLeft
      BY <2>1 DEF PhasesLeft
    <2> QED BY <1>0, <1>1, <2>1, <2>2 DEF Shrinks, Moves
  <1>9. CASE Tick
    <2>1. UNCHANGED <<request, mail, phase, waited>> /\ elapsed' = elapsed + 1
      BY <1>9 DEF Tick
    <2>2. PhasesLeft' = PhasesLeft
      BY <2>1 DEF PhasesLeft
    <2> QED BY <1>0, <1>1, <2>1, <2>2 DEF Shrinks, Moves
  <1>10. ASSUME NEW r \in Requests, Arrive(r) PROVE FALSE
    BY <1>10 DEF Arrive
  <1>11. ASSUME Signal PROVE FALSE
    BY <1>11 DEF Signal
  <1> QED BY <1>3, <1>4, <1>5, <1>6, <1>7, <1>8, <1>9, <1>10, <1>11 DEF Next, Stopping

\* What is left is finite.
LeftFinite ==
  /\ IsFiniteSet(Open) /\ IsFiniteSet(ToSchedule) /\ IsFiniteSet(ToSend)
  /\ IsFiniteSet(ToFinish) /\ IsFiniteSet(Services \ waited)
  /\ Cardinality(Open) \in Nat /\ Cardinality(ToSchedule) \in Nat
  /\ Cardinality(ToSend) \in Nat /\ Cardinality(ToFinish) \in Nat
  /\ Cardinality(Services \ waited) \in Nat
  /\ ShutdownTimeout - elapsed \in Nat /\ PhasesLeft \in Nat

LEMMA LeftIsFinite == TypeOK => LeftFinite
  <1> SUFFICES ASSUME TypeOK PROVE LeftFinite
    OBVIOUS
  <1>1. /\ Open \subseteq Requests /\ ToSchedule \subseteq Requests /\ ToSend \subseteq Requests
        /\ ToFinish \subseteq Requests /\ Services \ waited \subseteq Services
    BY DEF ToSchedule, ToSend, ToFinish
  <1>2. IsFiniteSet(Requests) /\ IsFiniteSet(Services)
    BY MailAssumption
  <1>3. /\ IsFiniteSet(Open) /\ IsFiniteSet(ToSchedule) /\ IsFiniteSet(ToSend)
        /\ IsFiniteSet(ToFinish) /\ IsFiniteSet(Services \ waited)
    BY <1>1, <1>2, FS_Subset
  <1>4. ShutdownTimeout - elapsed \in Nat /\ PhasesLeft \in Nat
    BY MailAssumption DEF TypeOK, PhasesLeft
  <1> QED BY <1>3, <1>4, FS_CardinalityType DEF LeftFinite

\* A set that loses something is smaller.
LEMMA Smaller ==
  ASSUME NEW S, NEW T, IsFiniteSet(S), T \subseteq S
  PROVE  Cardinality(T) <= Cardinality(S) /\ (T # S => Cardinality(T) < Cardinality(S))
  <1>1. /\ IsFiniteSet(T) /\ Cardinality(T) <= Cardinality(S)
        /\ Cardinality(S) = Cardinality(T) => S = T
    BY FS_Subset
  <1>2. Cardinality(S) \in Nat /\ Cardinality(T) \in Nat
    BY <1>1, FS_CardinalityType
  <1> QED BY <1>1, <1>2

LEMMA MovesDecrease ==
  ASSUME TypeOK, TypeOK', Next, phase # "serving"
  PROVE  MovesLeft' < MovesLeft
  <1> HIDE DEF Open
  <1>1. LeftFinite /\ LeftFinite'
    BY LeftIsFinite, PTL
  <1>2. Shrinks /\ Moves
    BY Narrows
  <1>3. /\ Cardinality(Open') <= Cardinality(Open)
        /\ Open' # Open => Cardinality(Open') < Cardinality(Open)
        /\ Cardinality(ToSchedule') <= Cardinality(ToSchedule)
        /\ ToSchedule' # ToSchedule => Cardinality(ToSchedule') < Cardinality(ToSchedule)
        /\ Cardinality(ToSend') <= Cardinality(ToSend)
        /\ ToSend' # ToSend => Cardinality(ToSend') < Cardinality(ToSend)
        /\ Cardinality(ToFinish') <= Cardinality(ToFinish)
        /\ ToFinish' # ToFinish => Cardinality(ToFinish') < Cardinality(ToFinish)
    BY <1>1, <1>2, Smaller DEF LeftFinite, Shrinks
  <1>4. /\ Cardinality(Services \ waited') <= Cardinality(Services \ waited)
        /\ waited' # waited => Cardinality(Services \ waited') < Cardinality(Services \ waited)
    <2>1. /\ Services \ waited' \subseteq Services \ waited
          /\ waited' # waited => Services \ waited' # Services \ waited
      BY <1>2 DEF TypeOK, Shrinks
    <2> QED BY <1>1, <2>1, Smaller DEF LeftFinite
  <1>5. /\ ShutdownTimeout - elapsed' <= ShutdownTimeout - elapsed
        /\ elapsed' > elapsed => ShutdownTimeout - elapsed' < ShutdownTimeout - elapsed
    <2>1. elapsed \in Nat /\ elapsed' \in Nat /\ ShutdownTimeout \in Nat
      BY MailAssumption DEF TypeOK
    <2>2. elapsed' >= elapsed
      BY <1>2 DEF Shrinks
    <2>3. ASSUME NEW x \in Nat, NEW y \in Nat, NEW z \in Nat, y >= x
          PROVE  z - y <= z - x /\ (y > x => z - y < z - x)
      BY <2>3
    <2> QED BY <2>1, <2>2, <2>3, Zenon
  <1>6. \/ Cardinality(Open') < Cardinality(Open)
        \/ Cardinality(ToSchedule') < Cardinality(ToSchedule)
        \/ Cardinality(ToSend') < Cardinality(ToSend)
        \/ Cardinality(ToFinish') < Cardinality(ToFinish)
        \/ Cardinality(Services \ waited') < Cardinality(Services \ waited)
        \/ ShutdownTimeout - elapsed' < ShutdownTimeout - elapsed
        \/ PhasesLeft' < PhasesLeft
    BY <1>2, <1>3, <1>4, <1>5 DEF Moves
  <1>7. PhasesLeft' <= PhasesLeft
    BY <1>2 DEF Shrinks
  <1> QED BY <1>1, <1>3, <1>4, <1>5, <1>6, <1>7 DEF LeftFinite, MovesLeft

\* The stop takes a number of steps that is known at the signal, whatever clients, mails and
\* timers do and however many requests the process has served: nothing is let in, and
\* nobody who has finished starts again.
THEOREM StopTakesSteps == Spec => StopIsBounded
  <1>1. Init => QuietInv
    BY DEF Init, QuietInv, QuietStopsFinish, Crowd
  <1>2. TypeOK /\ QuietInv => (phase \in {"stopping", "draining"} => MovesLeft \in 0..MaxMoves)
    <2> SUFFICES ASSUME TypeOK, QuietInv, phase \in {"stopping", "draining"}
                 PROVE  MovesLeft \in 0..MaxMoves
      OBVIOUS
    <2>1. /\ Open \subseteq Crowd /\ ToSchedule \subseteq Crowd /\ ToSend \subseteq Crowd
          /\ ToFinish \subseteq Crowd /\ Services \ waited \subseteq Services
      BY DEF QuietInv, ToSchedule, ToSend, ToFinish
    <2>2. IsFiniteSet(Crowd) /\ IsFiniteSet(Services)
      <3>1. Crowd \subseteq Requests
        BY DEF Crowd, TypeOK
      <3> QED BY <3>1, FS_Subset, MailAssumption
    <2> HIDE DEF Open
    <2>3. /\ Cardinality(Open) <= Cardinality(Crowd) /\ Cardinality(ToSchedule) <= Cardinality(Crowd)
          /\ Cardinality(ToSend) <= Cardinality(Crowd) /\ Cardinality(ToFinish) <= Cardinality(Crowd)
          /\ Cardinality(Services \ waited) <= Cardinality(Services)
      BY <2>1, <2>2, Smaller
    <2>4. Cardinality(Crowd) \in Nat /\ Cardinality(Services) \in Nat
      BY <2>2, FS_CardinalityType
    <2>5. elapsed \in Nat /\ ShutdownTimeout \in Nat /\ PhasesLeft <= 2
      BY MailAssumption DEF TypeOK, PhasesLeft
    <2> QED BY <2>3, <2>4, <2>5, LeftIsFinite DEF LeftFinite, MovesLeft, MaxMoves
  <1>3. TypeOK /\ TypeOK' /\ [Next]_vars => [phase # "serving" => MovesLeft' < MovesLeft]_vars
    BY MovesDecrease
  <1>4. MailInv => TypeOK
    BY DEF MailInv
  <1> QED
    BY <1>1, <1>2, <1>3, <1>4, QuietInductive, Invariant, PTL DEF Spec, StopIsBounded
=============================================================================
