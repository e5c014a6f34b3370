---------------------------- MODULE TimeoutProofs ----------------------------
(***************************************************************************)
(* Proofs about ResettableTimeout.tla: a request ends in time, and not     *)
(* before the last renewal has run out, for every initial duration, every  *)
(* set of renewals and every delay of the executor, on the one condition   *)
(* that no timer is as short as that delay.                                *)
(*                                                                         *)
(* The clock is at most lag ticks past the deadline.  That is inductive    *)
(* only together with the fact that somebody will look: the task is woken  *)
(* or the Sleep is armed.  A renewal which is over before it is noticed    *)
(* breaks both, and that is what hasty excludes.                           *)
(***************************************************************************)
EXTENDS ResettableTimeout, TLAPS

TypeOK ==
  /\ now \in Nat /\ deadline \in Nat /\ renewal \in Nat
  /\ armed \in BOOLEAN /\ woken \in BOOLEAN
  /\ lag \in 0..MaxLag
  /\ inner \in {"running", "ready"}
  /\ outcome \in {"none", "answer", "timeout"}
  /\ renews \in Nat /\ asked \in Nat
  /\ last \in [at : Nat, by : Nat]
  /\ hasty \in BOOLEAN

(* A renewal nobody has noticed yet is longer than the executor's delay.   *)
Patient == ~hasty => renewal = 0 \/ renewal > MaxLag

(* Somebody will look at the Sleep, and it has not been overdue for longer *)
(* than the executor has been late.                                        *)
Watched == outcome = "none" /\ ~hasty => (woken \/ armed) /\ now <= deadline + lag

(* What the Sleep has been given and will be given is covered by the two   *)
(* initial durations and by what was asked for ...                         *)
Covered == deadline + renewal <= 2 * Initial + asked

(* ... and it covers the last renewal, but for the delay of the executor.  *)
CoversLast == ~hasty => deadline + renewal >= last.at + last.by - MaxLag

Inv == TypeOK /\ Patient /\ Watched /\ Covered /\ CoversLast

-----------------------------------------------------------------------------
(* The numbers, apart from the flags.                                      *)
LEMMA Numbers ==
  ASSUME Inv
  PROVE  /\ now \in Nat /\ deadline \in Nat /\ renewal \in Nat /\ asked \in Nat
         /\ renews \in Nat /\ lag \in Nat /\ lag <= MaxLag
         /\ last.at \in Nat /\ last.by \in Nat
         /\ Initial \in Nat /\ MaxLag \in Nat /\ 0 \in 0..MaxLag
BY TimeoutAssumption DEF Inv, TypeOK

(* The initial duration counts as a renewal.                               *)
LEMMA InitInv == Init => Inv
<1> SUFFICES ASSUME Init PROVE Inv
  OBVIOUS
<1>1. Initial \in Nat /\ MaxLag \in Nat /\ 0 \in 0..MaxLag
  BY TimeoutAssumption
<1>2. hasty \in BOOLEAN /\ (~hasty => Initial > MaxLag)
  <2>1. hasty = (Initial <= MaxLag)
    BY DEF Init
  <2>2. hasty \in BOOLEAN
    BY <2>1
  <2>3. ~hasty => ~(Initial <= MaxLag)
    BY <2>1
  <2> QED  BY <1>1, <2>2, <2>3
<1>3. TypeOK
  BY <1>1, <1>2 DEF Init, TypeOK
<1>4. Patient /\ Watched /\ Covered /\ CoversLast
  BY <1>1, <1>2 DEF Init, Patient, Watched, Covered, CoversLast
<1> QED  BY <1>3, <1>4 DEF Inv

(* Time passes: an overdue Sleep makes the task due, and each tick of that *)
(* is counted in lag.                                                      *)
LEMMA TickInv == ASSUME Inv, Tick PROVE Inv'
<1>1. UNCHANGED <<timer, woken, inner, outcome, history>> /\ now' = now + 1
  BY DEF Tick
<1>2. lag' \in 0..MaxLag
  BY TimeoutAssumption DEF Tick, Inv, TypeOK
<1>3. TypeOK'
  BY <1>1, <1>2 DEF timer, history, Inv, TypeOK
<1>4. (Patient /\ Covered /\ CoversLast)'
  BY <1>1 DEF timer, history, Inv, Patient, Covered, CoversLast
<1>5. Watched'
  <2> SUFFICES ASSUME outcome = "none", ~hasty
               PROVE  (woken \/ armed) /\ now + 1 <= deadline + lag'
    BY <1>1 DEF timer, history, Watched
  <2>1. (woken \/ armed) /\ now <= deadline + lag
    BY DEF Inv, Watched
  <2>2. CASE Elapsed
    <3>1. lag' = lag + 1
      BY <2>1, <2>2 DEF Tick, Due
    <3> QED  BY <2>1, <3>1 DEF Inv, TypeOK
  <2>3. CASE ~Elapsed
    <3>1. lag' \in Nat /\ now < deadline
      BY <1>2, <2>3, Numbers DEF Elapsed
    <3> QED  BY <2>1, <3>1, Numbers
  <2> QED  BY <2>2, <2>3
<1> QED  BY <1>3, <1>4, <1>5 DEF Inv

(* The timer and the inner future wake the task.                           *)
LEMMA WakeInv == ASSUME Inv, Fire \/ InnerReady PROVE Inv'
<1>1. woken' = TRUE /\ UNCHANGED <<now, deadline, renewal, lag, outcome, history>>
  BY DEF Fire, InnerReady, timer
<1>2. armed' \in BOOLEAN /\ inner' \in {"running", "ready"}
  BY DEF Fire, InnerReady, timer, Inv, TypeOK
<1>3. TypeOK'
  BY <1>1, <1>2 DEF history, Inv, TypeOK
<1>4. (Patient /\ Watched /\ Covered /\ CoversLast)'
  BY <1>1 DEF history, Inv, Patient, Watched, Covered, CoversLast
<1> QED  BY <1>3, <1>4 DEF Inv

(* A renewal replaces what the handle held.  It counts from now, which is  *)
(* at most MaxLag past the deadline it will be added to.                   *)
LEMMA RenewInv == ASSUME Inv, Renew PROVE Inv'
<1> PICK m \in Renewals : /\ renewal' = m
                          /\ asked' = asked + m
                          /\ last' = [at |-> now, by |-> m]
                          /\ hasty' = (hasty \/ m <= MaxLag)
  BY DEF Renew
<1>1. /\ UNCHANGED <<now, deadline, armed, woken, lag, inner, outcome>>
      /\ renews' = renews + 1 /\ outcome = "none"
  BY DEF Renew
<1>2. m \in Nat /\ MaxLag \in Nat /\ Initial \in Nat
  BY TimeoutAssumption
<1>3. hasty' \in BOOLEAN
  BY DEF Inv, TypeOK
<1>4. ~hasty' => ~hasty /\ m > MaxLag
  <2>1. ~hasty' => ~hasty /\ ~(m <= MaxLag)
    OBVIOUS
  <2> QED  BY <1>2, <2>1
<1>5. TypeOK'
  BY <1>1, <1>2, <1>3 DEF Inv, TypeOK
<1>6. Patient'
  BY <1>4 DEF Patient
<1>7. Watched'
  BY <1>1, <1>4 DEF Inv, Watched
<1>8. Covered'
  BY <1>1, <1>2 DEF Inv, TypeOK, Covered
<1>9. CoversLast'
  <2> SUFFICES ASSUME ~hasty' PROVE deadline' + renewal' >= last'.at + last'.by - MaxLag
    BY DEF CoversLast
  <2>1. now <= deadline + lag
    BY <1>1, <1>4 DEF Inv, Watched
  <2>2. last'.at = now /\ last'.by = m
    OBVIOUS
  <2> QED  BY <1>1, <1>2, <2>1, <2>2, Numbers
<1> QED  BY <1>5, <1>6, <1>7, <1>8, <1>9 DEF Inv

(* A poll before the deadline registers the Sleep.                         *)
LEMMA PollEarlyInv == ASSUME Inv, PollEarly PROVE Inv'
<1>1. /\ UNCHANGED <<now, deadline, renewal, inner, history>>
      /\ armed' = TRUE /\ woken' = FALSE /\ lag' = 0
      /\ outcome' \in {"none", "answer"} /\ outcome = "none" /\ ~Elapsed
  BY DEF PollEarly, PollInner
<1>2. TypeOK'
  <2>1. deadline' \in Nat /\ renewal' \in Nat /\ lag' \in 0..MaxLag
    BY <1>1, Numbers
  <2>2. armed' \in BOOLEAN /\ woken' \in BOOLEAN
    BY <1>1
  <2> QED  BY <1>1, <2>1, <2>2 DEF history, Inv, TypeOK
<1>3. (Patient /\ Covered /\ CoversLast)'
  BY <1>1 DEF history, Inv, Patient, Covered, CoversLast
<1>4. Watched'
  <2>1. now' <= deadline' + lag'
    BY <1>1, Numbers DEF Elapsed
  <2> QED  BY <1>1, <2>1 DEF Watched
<1> QED  BY <1>2, <1>3, <1>4 DEF Inv

(* A poll that takes the renewal moves the deadline past the clock.        *)
LEMMA PollRenewedInv == ASSUME Inv, PollRenewed PROVE Inv'
<1>1. /\ UNCHANGED <<now, inner, outcome, history>>
      /\ deadline' = deadline + renewal /\ renewal' = 0
      /\ armed' = TRUE /\ woken' = FALSE /\ lag' = 0
      /\ now < deadline + renewal
  BY DEF PollRenewed
<1>2. TypeOK'
  <2>1. deadline' \in Nat /\ renewal' \in Nat /\ lag' \in 0..MaxLag
    BY <1>1, Numbers
  <2>2. armed' \in BOOLEAN /\ woken' \in BOOLEAN
    BY <1>1
  <2> QED  BY <1>1, <2>1, <2>2 DEF history, Inv, TypeOK
<1>3. Patient' /\ Watched'
  <2>1. now' <= deadline' + lag'
    BY <1>1, Numbers
  <2> QED  BY <1>1, <2>1 DEF Patient, Watched
<1>4. Covered' /\ CoversLast'
  BY <1>1 DEF history, Inv, TypeOK, Covered, CoversLast
<1> QED  BY <1>2, <1>3, <1>4 DEF Inv

(* Only a renewal no longer than the executor's delay is taken too late.   *)
LEMMA PollRenewedLateInv == ASSUME Inv, PollRenewedLate PROVE Inv' /\ hasty
<1>1. /\ UNCHANGED <<now, inner, history>>
      /\ deadline' = deadline + renewal /\ renewal' = 0
      /\ armed' = FALSE /\ woken' = FALSE /\ lag' = 0
      /\ now >= deadline + renewal /\ renewal # 0
      /\ outcome = "none" /\ outcome' \in {"none", "answer"}
  BY DEF PollRenewedLate, PollInner
<1>2. hasty
  <2> SUFFICES ASSUME ~hasty PROVE FALSE
    OBVIOUS
  <2>1. renewal > MaxLag /\ now <= deadline + lag
    BY <1>1 DEF Inv, Patient, Watched
  <2> QED  BY <1>1, <2>1, TimeoutAssumption DEF Inv, TypeOK
<1>3. hasty'
  BY <1>1, <1>2 DEF history
<1>4. TypeOK'
  <2>1. deadline' \in Nat /\ renewal' \in Nat /\ lag' \in 0..MaxLag
    BY <1>1, Numbers
  <2>2. armed' \in BOOLEAN /\ woken' \in BOOLEAN
    BY <1>1
  <2> QED  BY <1>1, <2>1, <2>2 DEF history, Inv, TypeOK
<1>5. Covered'
  BY <1>1 DEF history, Inv, TypeOK, Covered
<1> QED  BY <1>2, <1>3, <1>4, <1>5 DEF Inv, Patient, Watched, CoversLast

(* The timeout strikes.                                                    *)
LEMMA ExpireInv == ASSUME Inv, Expire PROVE Inv'
<1>1. UNCHANGED <<now, timer, woken, lag, inner, history>> /\ outcome' = "timeout"
  BY DEF Expire
<1> QED
  BY <1>1 DEF timer, history, Inv, TypeOK, Patient, Watched, Covered, CoversLast

(* The inductive invariant of a request's timeout.                         *)
THEOREM Invariance == Spec => []Inv
<1>1. ASSUME Inv, [Next]_vars PROVE Inv'
  <2>1. CASE UNCHANGED vars
    BY <1>1, <2>1
    DEF vars, timer, history, Inv, TypeOK, Patient, Watched, Covered, CoversLast
  <2> QED
    BY <1>1, <2>1, TickInv, WakeInv, RenewInv, PollEarlyInv, PollRenewedInv,
       PollRenewedLateInv, ExpireInv
    DEF Next, Poll
<1> QED  BY <1>1, InitInv, PTL DEF Spec

(* No request outlives twice the initial duration, what its handler asked  *)
(* for and the delay of one poll.                                          *)
THEOREM EndsInTimeTheorem == Spec => []EndsInTime
<1>1. ASSUME Inv PROVE EndsInTime
  <2> SUFFICES ASSUME outcome = "none", ~hasty
               PROVE  now <= 2 * Initial + asked + MaxLag
    BY DEF EndsInTime
  <2>1. now <= deadline + lag /\ deadline + renewal <= 2 * Initial + asked
    BY <1>1 DEF Inv, Watched, Covered
  <2> QED  BY <1>1, <2>1, TimeoutAssumption DEF Inv, TypeOK
<1> QED  BY <1>1, Invariance, PTL

(* Before the deadline of the last renewal no request times out, but for   *)
(* the delay of the poll it may have been asked in.                        *)
THEOREM LastRenewalTheorem == Spec => LastRenewalHonoured
<1>1. ASSUME Inv, [Next]_vars, outcome = "none", outcome' = "timeout", ~hasty
      PROVE  now >= last.at + last.by - MaxLag
  <2>1. Expire
    BY <1>1
    DEF Next, vars, Tick, Fire, InnerReady, Renew, Poll, PollEarly, PollRenewed,
        PollRenewedLate, PollInner
  <2>2. now >= deadline /\ renewal = 0
    BY <2>1 DEF Expire, Elapsed
  <2>3. deadline + renewal >= last.at + last.by - MaxLag
    BY <1>1 DEF Inv, CoversLast
  <2> QED  BY <1>1, <2>2, <2>3, TimeoutAssumption DEF Inv, TypeOK
<1>2. Inv /\ [Next]_vars =>
        [outcome = "none" /\ outcome' = "timeout" /\ ~hasty =>
           now >= last.at + last.by - MaxLag]_vars
  BY <1>1
<1> QED  BY <1>2, Invariance, PTL DEF Spec, LastRenewalHonoured

(* A renewal longer than the executor's delay is never taken too late, so  *)
(* the Sleep is never left elapsed and without a timer (timeout.rs:77).    *)
THEOREM NeverTooLate == Spec => [][PollRenewedLate => hasty]_vars
<1>1. Inv /\ [Next]_vars => [PollRenewedLate => hasty]_vars
  BY PollRenewedLateInv
<1> QED  BY <1>1, Invariance, PTL DEF Spec
=============================================================================
