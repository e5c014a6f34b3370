-------------------------- MODULE ResettableTimeout --------------------------
(***************************************************************************)
(* abstraction/timeout.rs and http/limit.rs: the timeout of one request,   *)
(* its Sleep, the renewal a handler may ask for, and the executor that     *)
(* polls the two futures when one of them has woken the task.              *)
(*                                                                         *)
(* The Sleep (external, tokio) wakes the task once after its deadline, if  *)
(* it was polled before; an elapsed Sleep registers nothing.  The inner    *)
(* future wakes the task when it has its answer.  A task that has been     *)
(* woken is polled within MaxLag ticks.                                    *)
(***************************************************************************)
EXTENDS Integers

CONSTANTS
  Initial,    \* the duration the middleware is given
  Renewals,   \* the durations a handler renews with
  MaxLag,     \* bound: delay between a wake-up and the poll
  MaxRenews,  \* bound: calls of renew()
  MaxNow      \* bound: the clock

ASSUME TimeoutAssumption ==
  /\ Initial \in Nat \ {0} /\ Renewals \subseteq Nat \ {0}
  /\ MaxLag \in Nat /\ MaxRenews \in Nat /\ MaxNow \in Nat

VARIABLES
  now,
  deadline,  \* of the Sleep
  renewal,   \* renewal_millis
  armed,     \* the Sleep is registered with the timer
  woken,     \* the task is scheduled
  lag,       \* ticks since it should have run
  inner,     \* "running" or "ready"
  outcome,   \* "none", "answer" or "timeout"
  renews,    \* calls of renew() so far
  asked,     \* history: what they add up to
  last,      \* history: the last renewal, [at, by]
  hasty      \* history: a timer, the first or a renewal's, was no longer than a poll's delay

timer == <<deadline, renewal, armed>>
history == <<renews, asked, last, hasty>>
vars == <<now, timer, woken, lag, inner, outcome, history>>

(* add_resettable_timeout() gives the initial duration to the Sleep and,   *)
(* as a renewal at its end, to the handle.                                 *)
Init ==
  /\ now = 0
  /\ deadline = Initial /\ renewal = Initial /\ armed = FALSE
  /\ woken = TRUE /\ lag = 0
  /\ inner = "running" /\ outcome = "none"
  /\ renews = 0 /\ asked = 0 /\ last = [at |-> Initial, by |-> Initial]
  /\ hasty = (Initial <= MaxLag)

Elapsed == now >= deadline
Due == woken \/ (armed /\ Elapsed)

PollInner ==
  /\ outcome' = IF inner = "ready" THEN "answer" ELSE "none"
  /\ woken' = FALSE

-----------------------------------------------------------------------------
(* Faulty variants.                                                        *)

RenewSleepNotPolled ==
  /\ woken /\ Elapsed /\ renewal # 0 /\ outcome = "none"
  /\ deadline' = deadline + renewal
  /\ renewal' = 0
  /\ armed' = FALSE
  /\ woken' = FALSE /\ lag' = 0
  /\ UNCHANGED <<now, inner, outcome, history>>

RenewTwice ==
  /\ woken /\ Elapsed /\ renewal # 0 /\ outcome = "none"
  /\ deadline' = deadline + renewal
  /\ armed' = TRUE
  /\ woken' = FALSE /\ lag' = 0
  /\ UNCHANGED <<now, renewal, inner, outcome, history>>

ExpireAtOnce ==
  /\ woken /\ Elapsed /\ outcome = "none"
  /\ outcome' = "timeout"
  /\ UNCHANGED <<now, timer, woken, lag, inner, history>>

-----------------------------------------------------------------------------
Tick ==
  /\ outcome = "none" /\ now < MaxNow
  /\ Due => lag < MaxLag
  /\ now' = now + 1
  /\ lag' = IF Due THEN lag + 1 ELSE 0
  /\ UNCHANGED <<timer, woken, inner, outcome, history>>

(* The timer wakes the task.                                               *)
Fire ==
  /\ armed /\ Elapsed /\ outcome = "none"
  /\ armed' = FALSE /\ woken' = TRUE
  /\ UNCHANGED <<now, deadline, renewal, lag, inner, outcome, history>>

(* The handler's answer is there, and wakes the task.                      *)
InnerReady ==
  /\ inner = "running" /\ outcome = "none"
  /\ inner' = "ready" /\ woken' = TRUE
  /\ UNCHANGED <<now, timer, lag, outcome, history>>

(* renew(): a store, whatever was there.                                   *)
Renew ==
  /\ outcome = "none" /\ renews < MaxRenews
  /\ \E m \in Renewals :
       /\ renewal' = m
       /\ asked' = asked + m
       /\ last' = [at |-> now, by |-> m]
       /\ hasty' = (hasty \/ m <= MaxLag)
  /\ renews' = renews + 1
  /\ UNCHANGED <<now, deadline, armed, woken, lag, inner, outcome>>

(* poll(), the Sleep being pending.                                        *)
PollEarly ==
  /\ woken /\ ~Elapsed /\ outcome = "none"
  /\ armed' = TRUE /\ lag' = 0
  /\ PollInner
  /\ UNCHANGED <<now, deadline, renewal, inner, history>>

(* poll(), elapsed but renewed into the future: ready!() returns from poll *)
(* here, and the inner future is not polled.                               *)
PollRenewed ==
  /\ woken /\ Elapsed /\ renewal # 0 /\ outcome = "none"
  /\ now < deadline + renewal
  /\ deadline' = deadline + renewal
  /\ renewal' = 0
  /\ armed' = TRUE
  /\ woken' = FALSE /\ lag' = 0
  /\ UNCHANGED <<now, inner, outcome, history>>

(* poll(), renewed but too late: the new deadline has passed as well, and  *)
(* the elapsed Sleep is not registered.                                    *)
PollRenewedLate ==
  /\ woken /\ Elapsed /\ renewal # 0 /\ outcome = "none"
  /\ now >= deadline + renewal
  /\ deadline' = deadline + renewal
  /\ renewal' = 0
  /\ armed' = FALSE /\ lag' = 0
  /\ PollInner
  /\ UNCHANGED <<now, inner, history>>

(* poll(), elapsed and not renewed.                                        *)
Expire ==
  /\ woken /\ Elapsed /\ renewal = 0 /\ outcome = "none"
  /\ outcome' = "timeout"
  /\ UNCHANGED <<now, timer, woken, lag, inner, history>>

Poll == PollEarly \/ PollRenewed \/ PollRenewedLate \/ Expire

Next == Tick \/ Fire \/ InnerReady \/ Renew \/ Poll

(* Time passes, the timer fires and a woken task is polled.  Nothing makes *)
(* the handler answer.                                                     *)
Fairness == WF_vars(Tick) /\ WF_vars(Fire) /\ WF_vars(Poll)

Spec == Init /\ [][Next]_vars /\ Fairness

-----------------------------------------------------------------------------
(* However its handler renews, no request outlives twice the initial       *)
(* duration (limit.rs arms the handle with it) and what it asked for; if   *)
(* it renews for longer than the executor delays a poll.  Otherwise the    *)
(* second poll of the Sleep, timeout.rs:77, may find the new deadline past *)
(* as well: it is Ready, registers no timer, and nobody looks again.       *)
EndsInTime == outcome = "none" /\ ~hasty => now <= 2 * Initial + asked + MaxLag

(* The last renewal is honoured, on the same condition: the timeout does   *)
(* not strike before the time it asked for has passed, also when it is     *)
(* asked for between the deadline and the poll that notices it, or is      *)
(* overtaken by an earlier one that the poll has already taken.            *)
LastRenewalHonoured ==
  [][outcome = "none" /\ outcome' = "timeout" /\ ~hasty =>
       now >= last.at + last.by - MaxLag]_vars

(* An answer is noticed in the end, although the poll that renews the      *)
(* timeout consumes the wake-up without polling the inner future: the      *)
(* request is answered, or runs into the renewed timeout.                  *)
ReadyIsNoticed == inner = "ready" ~> outcome # "none"
=============================================================================
