------------------------------ MODULE MailDrain ------------------------------
(***************************************************************************)
(* The detached emails of the three short-code requests, and the way the   *)
(* server stops: SIGTERM, http.Server.Shutdown, lib.Drain, exit, on one    *)
(* budget of time.  A request that issued a code adds one to its service's *)
(* WaitGroup and starts a goroutine, which waits for a slot of the bounded *)
(* sender and then sends within the SMTP timeout.                          *)
(*                                                                         *)
(* Time advances by units, and not past a timer that is due or a goroutine *)
(* that can run: goroutines are scheduled in far less than a unit.         *)
(***************************************************************************)
EXTENDS Naturals, FiniteSets

CONSTANTS Requests,         \* the short-code requests of the process
          Services,         \* the three short-code services, each with a WaitGroup
          ServiceOf,        \* ServiceOf[r]: the one request r is for
          MaxConcurrent,    \* SMTP_MAX_CONCURRENT
          SmtpTimeout,      \* SMTP_TIMEOUT, in units
          ShutdownTimeout   \* REST_TIMEOUT_SHUTDOWN, in units

ASSUME MailAssumption ==
  /\ IsFiniteSet(Requests) /\ IsFiniteSet(Services)
  /\ ServiceOf \in [Requests -> Services]
  /\ MaxConcurrent \in Nat \ {0}
  /\ SmtpTimeout \in Nat \ {0}
  /\ ShutdownTimeout \in Nat /\ SmtpTimeout < ShutdownTimeout

VARIABLES phase,      \* where serve() is
          outcome,    \* how the process ended
          elapsed,    \* time since the signal
          request,    \* request[r]
          mail,       \* mail[r]: its goroutine
          left,       \* left[r]: what remains of its send's timeout
          counted,    \* the mails the WaitGroups count
          waited,     \* the services whose Wait returned to Drain
          started,    \* history: the mails whose goroutine ran before the signal
          slotted,    \* history: those that had a slot by then
          pending     \* history: the requests that were open at the signal

history == <<started, slotted, pending>>
vars == <<phase, outcome, elapsed, request, mail, left, counted, waited, history>>
stop == <<phase, outcome, elapsed, waited, history>>

Sending == {r \in Requests : mail[r] = "sending"}
InFlight == {r \in Requests : mail[r] \in {"waiting", "sending"}}
Open == {r \in Requests : request[r] = "open"}
Running == phase # "exited"

Init == /\ phase = "serving" /\ outcome = "none" /\ elapsed = 0
        /\ request = [r \in Requests |-> "new"]
        /\ mail = [r \in Requests |-> "none"]
        /\ left = [r \in Requests |-> 0]
        /\ counted = {} /\ waited = {}
        /\ started = {} /\ slotted = {} /\ pending = {}

-----------------------------------------------------------------------------
(* Requests and their mails.                                                *)
\* Mutant: the listener stays open until the process exits.
Arrive_StillAccepts(r) == /\ Running /\ request[r] = "new"
                          /\ request' = [request EXCEPT ![r] = "open"]
                          /\ UNCHANGED <<stop, mail, left, counted>>

Arrive(r) == /\ phase = "serving" /\ request[r] = "new"
             /\ request' = [request EXCEPT ![r] = "open"]
             /\ UNCHANGED <<stop, mail, left, counted>>

\* Mutant: the goroutine adds itself to the WaitGroup.
Schedule_AddsLater(r) ==
  /\ Running /\ request[r] = "open" /\ mail[r] = "none"
  /\ mail' = [mail EXCEPT ![r] = "waiting"]
  /\ UNCHANGED <<stop, request, left, counted>>

\* The code is in the database: wg.Add(1), go sendMail.
Schedule(r) == /\ Running /\ request[r] = "open" /\ mail[r] = "none"
               /\ mail' = [mail EXCEPT ![r] = "waiting"]
               /\ counted' = counted \union {r}
               /\ UNCHANGED <<stop, request, left>>

\* 202, or an error if there is no mail.
Answer(r) == /\ Running /\ request[r] = "open"
             /\ request' = [request EXCEPT ![r] = "answered"]
             /\ UNCHANGED <<stop, mail, left, counted>>

TakeSlot(r) == /\ Running /\ mail[r] = "waiting" /\ Cardinality(Sending) < MaxConcurrent
               /\ mail' = [mail EXCEPT ![r] = "sending"]
               /\ left' = [left EXCEPT ![r] = SmtpTimeout]
               /\ UNCHANGED <<stop, request, counted>>

\* SendMail returns, delivered or not, or panics and is recovered: wg.Done() anyway.
Finish(r) == /\ Running /\ mail[r] = "sending"
             /\ mail' = [mail EXCEPT ![r] = "done"]
             /\ left' = [left EXCEPT ![r] = 0]
             /\ counted' = counted \ {r}
             /\ UNCHANGED <<stop, request>>

-----------------------------------------------------------------------------
(* serve().                                                                 *)
Exit(how) == phase' = "exited" /\ outcome' = how

Signal == /\ phase = "serving"
          /\ phase' = "stopping"
          /\ started' = InFlight /\ slotted' = Sending /\ pending' = Open
          /\ UNCHANGED <<outcome, elapsed, request, mail, left, counted, waited>>

\* Mutant: the process exits when the HTTP server has stopped.
Stopped_NoDrain == /\ phase = "stopping" /\ Open = {}
                   /\ Exit("clean")
                   /\ UNCHANGED <<elapsed, request, mail, left, counted, waited, history>>

\* http.Server.Shutdown returns nil: no request is open.
Stopped == /\ phase = "stopping" /\ Open = {}
           /\ phase' = "draining"
           /\ UNCHANGED <<outcome, elapsed, request, mail, left, counted, waited, history>>

\* Mutant: Shutdown gets a context without a deadline.
ShutdownFails_Never == FALSE /\ UNCHANGED vars

\* The budget is spent while a request is open: panic(err), and no Drain.
ShutdownFails == /\ phase = "stopping" /\ Open # {} /\ elapsed = ShutdownTimeout
                 /\ Exit("panicked")
                 /\ UNCHANGED <<elapsed, request, mail, left, counted, waited, history>>

\* Drain's goroutine waits for one WaitGroup after the other; their order does not matter.
WaitReturns(k) == /\ phase = "draining" /\ k \notin waited
                  /\ \A r \in counted : ServiceOf[r] # k
                  /\ waited' = waited \union {k}
                  /\ UNCHANGED <<phase, outcome, elapsed, request, mail, left, counted, history>>

Drained == /\ phase = "draining" /\ waited = Services
           /\ Exit("clean")
           /\ UNCHANGED <<elapsed, request, mail, left, counted, waited, history>>

\* The rest of the budget is spent: the loss is logged.
DrainFails == /\ phase = "draining" /\ elapsed = ShutdownTimeout
              /\ Exit("reported")
              /\ UNCHANGED <<elapsed, request, mail, left, counted, waited, history>>

\* A crash, a failing listener, or a grace period that is too short.
Kill == /\ Running
        /\ Exit("killed")
        /\ UNCHANGED <<elapsed, request, mail, left, counted, waited, history>>

\* A unit of time: no send is past its timeout, no mail is next to a free slot, and the
\* budget is not spent.
Tick == /\ Running
        /\ \A r \in Sending : left[r] > 0
        /\ Cardinality(Sending) = MaxConcurrent \/ InFlight = Sending
        /\ phase = "serving" => Sending # {}
        /\ phase # "serving" => elapsed < ShutdownTimeout
        /\ left' = [r \in Requests |-> IF r \in Sending THEN left[r] - 1 ELSE left[r]]
        /\ elapsed' = IF phase = "serving" THEN elapsed ELSE elapsed + 1
        /\ UNCHANGED <<phase, outcome, request, mail, counted, waited, history>>

-----------------------------------------------------------------------------
Stopping == \/ Stopped \/ ShutdownFails \/ Drained \/ DrainFails
            \/ \E k \in Services : WaitReturns(k)

Next == \/ \E r \in Requests : Arrive(r) \/ Schedule(r) \/ Answer(r) \/ TakeSlot(r) \/ Finish(r)
        \/ Signal \/ Stopping \/ Kill \/ Tick

Spec == Init /\ [][Next]_vars

\* Time passes, timers fire, goroutines run; requests need not end.
FairSpec == /\ Spec
            /\ WF_vars(Tick) /\ WF_vars(Stopping)
            /\ \A r \in Requests : WF_vars(TakeSlot(r)) /\ WF_vars(Finish(r))

-----------------------------------------------------------------------------
(* Properties.                                                              *)
\* Every variable has its type; no more mails are sent at once than the limit.
TypeOK == /\ phase \in {"serving", "stopping", "draining", "exited"}
          /\ outcome \in {"none", "clean", "reported", "panicked", "killed"}
          /\ elapsed \in 0..ShutdownTimeout
          /\ request \in [Requests -> {"new", "open", "answered"}]
          /\ mail \in [Requests -> {"none", "waiting", "sending", "done"}]
          /\ left \in [Requests -> 0..SmtpTimeout]
          /\ counted \subseteq Requests /\ waited \subseteq Services
          /\ started \subseteq Requests /\ slotted \subseteq started
          /\ pending \subseteq Requests
          /\ Cardinality(Sending) <= MaxConcurrent

\* A stop that reports no loss has none: every mail whose code was issued, and whose
\* user was told to look for it, was handed to the SMTP server (lib.Drain and the
\* WaitGroups of the services).
NoSilentLoss == outcome = "clean" => InFlight = {}

\* "Drained after the HTTP shutdown, once the server has stopped accepting: the set being
\* waited on is closed by then" (serve): no WaitGroup grows while Drain waits for it, and
\* one that it is done with stays at zero.
DrainedSetIsClosed ==
  /\ [][phase = "draining" => counted' \subseteq counted]_vars
  /\ [](\A r \in counted : ServiceOf[r] \notin waited)

\* SMTP_TIMEOUT < REST_TIMEOUT_SHUTDOWN is enough for the mails being sent when the signal
\* comes: they end before the process does, even when Shutdown fails, unless it is killed.
SendsOutliveSignal ==
  Running \/ outcome = "killed" \/ \A r \in slotted : mail[r] = "done"

\* What the comment on StartedSendsFinish below takes for granted, made precise: the mails
\* that wait for a slot when the signal comes end as well, provided that they, those being
\* sent and the requests still open are no more than there are slots.
Crowd == started \union pending
QuietStopsFinish ==
  Cardinality(Crowd) <= MaxConcurrent =>
    Running \/ outcome = "killed" \/ \A r \in started : mail[r] = "done"

\* The inductive invariant behind these: the WaitGroups count the mails in flight, none
\* starts once draining, and a send of the signal's time fits in the budget.
MailInv ==
  /\ TypeOK /\ NoSilentLoss /\ SendsOutliveSignal
  /\ counted = InFlight
  /\ Running <=> outcome = "none"
  /\ phase \in {"serving", "stopping"} => waited = {}
  /\ phase = "draining" => Open = {}
  /\ \A r \in counted : ServiceOf[r] \notin waited
  /\ phase = "serving" => elapsed = 0 /\ started = {}
  /\ \A r \in slotted : \/ mail[r] = "done"
                        \/ mail[r] = "sending" /\ left[r] + elapsed <= SmtpTimeout

\* Behind QuietStopsFinish: nothing joins the crowd after the signal, and while it fits in
\* the slots no mail waits for one when time passes.
QuietInv ==
  /\ phase \in {"stopping", "draining"} => InFlight \union Open \subseteq Crowd
  /\ phase \in {"stopping", "draining"} /\ Cardinality(Crowd) <= MaxConcurrent =>
       \A r \in started : \/ mail[r] = "done"
                          \/ mail[r] = "waiting" /\ elapsed = 0
                          \/ mail[r] = "sending" /\ left[r] + elapsed <= SmtpTimeout
  /\ QuietStopsFinish

\* The process always ends, whatever the requests still open and the SMTP server do.
Stops == phase = "stopping" ~> phase = "exited"

\* What Stops takes, fairness apart: the steps from the signal to the end are bounded by
\* what the signal found, for nothing is let in after it.  Every request still open may
\* start a mail and be answered, every mail get its slot and end, every WaitGroup be
\* waited for once, and time runs out.
ToSchedule == {r \in Open : mail[r] = "none"}
ToSend == ToSchedule \union {r \in Requests : mail[r] = "waiting"}
ToFinish == ToSchedule \union InFlight
PhasesLeft == CASE phase = "stopping" -> 2 [] phase = "draining" -> 1 [] OTHER -> 0
MovesLeft == Cardinality(Open) + Cardinality(ToSchedule) + Cardinality(ToSend)
             + Cardinality(ToFinish) + Cardinality(Services \ waited)
             + (ShutdownTimeout - elapsed) + PhasesLeft
MaxMoves == 4 * Cardinality(Crowd) + Cardinality(Services) + ShutdownTimeout + 2
StopIsBounded ==
  /\ [](phase \in {"stopping", "draining"} => MovesLeft \in 0..MaxMoves)
  /\ [][phase # "serving" => MovesLeft' < MovesLeft]_vars

\* RestTimeoutShutdownDefault leaves "room for a send that starts just before the signal
\* to finish" (internal/config/env): the same for the mails that wait for a slot.
StartedSendsFinish ==
  Running \/ outcome = "killed" \/ \A r \in started : mail[r] = "done"
=============================================================================
