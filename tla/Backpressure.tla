---------------------------- MODULE Backpressure ----------------------------
(***************************************************************************)
(* abstraction/backpressure.rs: one BackpressureInner shared by the tasks  *)
(* that call acquire() and await the future it returns.                    *)
(*                                                                         *)
(* A request moves through                                                 *)
(*                                                                         *)
(*   "out"       not in the mechanism                                      *)
(*   "over"      its fetch_add exceeded the hard limit, fetch_sub pending  *)
(*   "admitted"  acquire() returned a future, not polled yet               *)
(*   "queued"    in the semaphore's waiter list                            *)
(*   "granted"   a released permit was assigned to it, not resumed yet     *)
(*   "held"      owns a BackPressureGuard                                  *)
(*   "leaving"   its permit is gone, its drop helper has not run yet       *)
(*                                                                         *)
(* in_use is an AtomicU32; fewer than 2^32 requests are ever in flight, so *)
(* it does not wrap and saturating_add is an addition.  tokio's Semaphore  *)
(* (external) is the pair permits, queue: a permit returned while the      *)
(* queue is not empty goes to its head.                                    *)
(***************************************************************************)
EXTENDS Integers, FiniteSets, SequencesExt

CONSTANTS Requests, SoftLimit, HardLimit

ASSUME LimitsAssumption ==
  /\ IsFiniteSet(Requests)
  /\ SoftLimit \in Nat \ {0}
  /\ HardLimit \in Nat \ {0}

VARIABLES
  inUse,    \* BackpressureInner.in_use
  permits,  \* free permits of BackpressureInner.soft
  queue,    \* its waiters, oldest first
  pc        \* where each request is

bpVars == <<inUse, permits, queue, pc>>

Stages == {"out", "over", "admitted", "queued", "granted", "held", "leaving"}

Counted == {r \in Requests : pc[r] # "out"}
Admitted == {r \in Requests : pc[r] \notin {"out", "over"}}
Permitted == {r \in Requests : pc[r] \in {"granted", "held"}}

TypeOK ==
  /\ inUse \in Nat
  /\ permits \in Nat
  /\ queue \in Seq(Requests)
  /\ pc \in [Requests -> Stages]

Init ==
  /\ inUse = 0
  /\ permits = SoftLimit
  /\ queue = <<>>
  /\ pc = [r \in Requests |-> "out"]

-----------------------------------------------------------------------------
(* Faulty variants of the operators below; the runs use them to confirm    *)
(* that each property can fail.                                            *)

FetchAddOffByOne(r) ==
  /\ pc[r] = "out"
  /\ inUse' = inUse + 1
  /\ pc' = [pc EXCEPT ![r] = IF inUse > HardLimit THEN "over" ELSE "admitted"]
  /\ UNCHANGED <<permits, queue>>

PollKeepingPermit(r) ==
  /\ pc[r] = "admitted"
  /\ IF permits > 0
     THEN pc' = [pc EXCEPT ![r] = "held"] /\ UNCHANGED queue
     ELSE pc' = [pc EXCEPT ![r] = "queued"] /\ queue' = Append(queue, r)
  /\ UNCHANGED <<permits, inUse>>

PollLifo(r) ==
  /\ pc[r] = "admitted"
  /\ IF permits > 0
     THEN /\ permits' = permits - 1
          /\ pc' = [pc EXCEPT ![r] = "held"]
          /\ UNCHANGED queue
     ELSE /\ queue' = <<r>> \o queue
          /\ pc' = [pc EXCEPT ![r] = "queued"]
          /\ UNCHANGED permits
  /\ UNCHANGED inUse

RejectWithoutUndo(r) ==
  /\ pc[r] = "over"
  /\ pc' = [pc EXCEPT ![r] = "out"]
  /\ UNCHANGED <<inUse, permits, queue>>

DropPermitNoHandover(r) ==
  /\ pc[r] \in {"granted", "held"}
  /\ permits' = permits + 1
  /\ pc' = [pc EXCEPT ![r] = "leaving"]
  /\ UNCHANGED <<inUse, queue>>

-----------------------------------------------------------------------------
(* acquire(), up to its comparison with the hard limit.                    *)
FetchAdd(r) ==
  /\ pc[r] = "out"
  /\ inUse' = inUse + 1
  /\ pc' = [pc EXCEPT ![r] = IF inUse + 1 > HardLimit THEN "over" ELSE "admitted"]
  /\ UNCHANGED <<permits, queue>>

(* acquire() undoes its increment and returns None.                        *)
Reject(r) ==
  /\ pc[r] = "over"
  /\ inUse' = inUse - 1
  /\ pc' = [pc EXCEPT ![r] = "out"]
  /\ UNCHANGED <<permits, queue>>

(* First poll of the future: build the drop helper, then soft.acquire().   *)
Poll(r) ==
  /\ pc[r] = "admitted"
  /\ IF permits > 0
     THEN /\ permits' = permits - 1
          /\ pc' = [pc EXCEPT ![r] = "held"]
          /\ UNCHANGED queue
     ELSE /\ queue' = Append(queue, r)
          /\ pc' = [pc EXCEPT ![r] = "queued"]
          /\ UNCHANGED permits
  /\ UNCHANGED inUse

(* The executor resumes a waiter whose permit has been assigned.           *)
Resume(r) ==
  /\ pc[r] = "granted"
  /\ pc' = [pc EXCEPT ![r] = "held"]
  /\ UNCHANGED <<inUse, permits, queue>>

(* The task is dropped while its future waits for a permit.                *)
Cancel(r) ==
  /\ pc[r] = "queued"
  /\ \E i \in DOMAIN queue : queue[i] = r /\ queue' = RemoveAt(queue, i)
  /\ pc' = [pc EXCEPT ![r] = "leaving"]
  /\ UNCHANGED <<inUse, permits>>

(* The guard (or a granted, not yet resumed future) is dropped: the permit *)
(* field goes first, and the semaphore hands it to the oldest waiter.      *)
DropPermit(r) ==
  /\ pc[r] \in {"granted", "held"}
  /\ IF queue = <<>>
     THEN /\ permits' = permits + 1
          /\ pc' = [pc EXCEPT ![r] = "leaving"]
          /\ UNCHANGED queue
     ELSE /\ queue' = Tail(queue)
          /\ pc' = [pc EXCEPT ![r] = "leaving", ![Head(queue)] = "granted"]
          /\ UNCHANGED permits
  /\ UNCHANGED inUse

(* BackPressureDropHelper::drop, after the permit.                         *)
Uncount(r) ==
  /\ pc[r] = "leaving"
  /\ inUse' = inUse - 1
  /\ pc' = [pc EXCEPT ![r] = "out"]
  /\ UNCHANGED <<permits, queue>>

Step(r) ==
  \/ FetchAdd(r) \/ Reject(r) \/ Poll(r) \/ Resume(r)
  \/ Cancel(r) \/ DropPermit(r) \/ Uncount(r)

Next == \E r \in Requests : Step(r)

(* A running task is polled and its destructors run to the end, and a      *)
(* handler returns or is dropped by the timeout of server/router.rs:127-130.*)
(* No fairness on arrivals (FetchAdd) or on disconnects (Cancel).          *)
Fairness ==
  \A r \in Requests :
    /\ WF_bpVars(Reject(r)) /\ WF_bpVars(Poll(r)) /\ WF_bpVars(Resume(r))
    /\ WF_bpVars(DropPermit(r)) /\ WF_bpVars(Uncount(r))

SafeSpec == Init /\ [][Next]_bpVars
Spec == SafeSpec /\ Fairness

-----------------------------------------------------------------------------
(* in_use counts exactly the requests between their fetch_add and the      *)
(* matching fetch_sub, whichever of the three ways out they take (rejected,*)
(* cancelled in the queue, served): a missed decrement would shrink the    *)
(* hard limit for the rest of the process's life.                          *)
CountExact == inUse = Cardinality(Counted)

(* However concurrent acquire() calls interleave, no more than HardLimit   *)
(* of them have been let in at any time.                                   *)
HardLimitHeld == Cardinality(Admitted) <= HardLimit

(* Permits are neither lost nor invented when a guard is dropped, when a   *)
(* waiter is cancelled in the queue, or when it is cancelled after its     *)
(* permit was assigned: free and assigned permits add up to SoftLimit.     *)
PermitsConserved == permits + Cardinality(Permitted) = SoftLimit

(* The queue holds the waiting requests, each once, and nobody waits while *)
(* a permit is free.                                                       *)
QueueExact ==
  /\ \A i \in DOMAIN queue : pc[queue[i]] = "queued"
  /\ \A i, j \in DOMAIN queue : queue[i] = queue[j] => i = j
  /\ \A r \in Requests : pc[r] = "queued" => \E i \in DOMAIN queue : queue[i] = r
  /\ permits > 0 => queue = <<>>

(* acquire() turns a request away only while HardLimit other requests are  *)
(* inside or on their way in or out; one that is itself being turned away  *)
(* counts, so a burst can be rejected beyond need but never an idle gate.  *)
RejectJustified ==
  [][\A r \in Requests :
       pc[r] = "out" /\ pc'[r] = "over" => Cardinality(Counted) >= HardLimit]_bpVars

(* The mechanism is an admission gate, in safety and in progress: every    *)
(* request let in obtains its permit or is cancelled.                      *)
Gate == INSTANCE Admission WITH
          waiting <- {r \in Requests : pc[r] \in {"admitted", "queued", "granted"}},
          serving <- {r \in Requests : pc[r] = "held"}

GateSpec == Gate!Spec
=============================================================================
