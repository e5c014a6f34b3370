------------------------- MODULE BackpressureProofs -------------------------
(***************************************************************************)
(* Backpressure, for every finite set of requests and all limits.          *)
(*                                                                         *)
(* The hard limit is not inductive alone: FetchAdd decides by in_use, so   *)
(* the proof needs in_use to be exact.  Conserving the permits through a   *)
(* handover needs the head of the queue to be a queued request.  IInv is   *)
(* the conjunction of these facts.                                         *)
(*                                                                         *)
(* ConcurrencyLimit, for every finite set of keys and every assignment of  *)
(* keys to shards: every step of the map is a step of the gate under it or *)
(* leaves the gate alone, so a behaviour of the map is one of the gate,    *)
(* and what is said of the gate holds under get() and gc(), too.  What the *)
(* locks are for is proved of the map itself: LockDiscipline.              *)
(***************************************************************************)
EXTENDS ConcurrencyLimit, FiniteSetTheorems, SequenceTheorems, TLAPS

IInv == TypeOK /\ CountExact /\ HardLimitHeld /\ PermitsConserved /\ QueueExact

(* Every set of requests is finite, and its size is a natural number.      *)
LEMMA FiniteRequests ==
  ASSUME NEW S \in SUBSET Requests
  PROVE  IsFiniteSet(S) /\ Cardinality(S) \in Nat
BY LimitsAssumption, FS_Subset, FS_CardinalityType

(* Removing a waiter from the queue keeps the others, each once.           *)
LEMMA RemoveAtFacts ==
  ASSUME NEW S, NEW q \in Seq(S), NEW i \in DOMAIN q,
         \A j, k \in DOMAIN q : q[j] = q[k] => j = k
  PROVE  LET t == RemoveAt(q, i)
         IN  /\ t \in Seq(S)
             /\ \A j \in DOMAIN t : \E k \in DOMAIN q : t[j] = q[k] /\ k # i
             /\ \A k \in DOMAIN q : k # i => \E j \in DOMAIN t : t[j] = q[k]
             /\ \A j, k \in DOMAIN t : t[j] = t[k] => j = k
<1> DEFINE a == SubSeq(q, 1, i - 1)
           b == SubSeq(q, i + 1, Len(q))
           t == RemoveAt(q, i)
<1>1. Len(q) \in Nat /\ DOMAIN q = 1..Len(q) /\ i \in 1..Len(q)
      /\ \A j \in 1..Len(q) : q[j] \in S
  OBVIOUS
<1>2. a \in Seq(S) /\ Len(a) = i - 1 /\ \A j \in 1..(i - 1) : a[j] = q[j]
  BY <1>1, SubSeqProperties
<1>3. b \in Seq(S) /\ Len(b) = Len(q) - i
      /\ \A j \in 1..(Len(q) - i) : b[j] = q[i + j]
  <2> DEFINE m == i + 1
             n == Len(q)
  <2>1. m \in Int /\ n \in Int /\ \A k \in m..n : q[k] \in S
    BY <1>1
  <2>2. n - m + 1 = n - i /\ (IF m <= n THEN n - m + 1 ELSE 0) = n - i
    BY <1>1
  <2>3. \A j \in 1..(n - i) : m + j - 1 = i + j
    BY <1>1
  <2> HIDE DEF m, n
  <2>4. /\ SubSeq(q, m, n) \in Seq(S) /\ Len(SubSeq(q, m, n)) = n - i
        /\ \A j \in 1..(n - i) : SubSeq(q, m, n)[j] = q[m + j - 1]
    BY <2>1, <2>2, SubSeqProperties
  <2> QED  BY <2>3, <2>4 DEF m, n
<1> HIDE DEF a, b
<1>4. t = a \o b
  BY DEF RemoveAt, a, b
<1>5. t \in Seq(S) /\ Len(t) = Len(q) - 1
      /\ \A j \in 1..(Len(q) - 1) : t[j] = IF j < i THEN q[j] ELSE q[j + 1]
  <2> HIDE DEF t
  <2>1. /\ a \o b \in Seq(S)
        /\ Len(a \o b) = Len(a) + Len(b)
        /\ \A j \in 1..(Len(a) + Len(b)) :
             (a \o b)[j] = IF j <= Len(a) THEN a[j] ELSE b[j - Len(a)]
    <3>1. a \in Seq(S) /\ b \in Seq(S)
      BY <1>2, <1>3
    <3> QED  BY ONLY <3>1, ConcatProperties
  <2>2. /\ t \in Seq(S)
        /\ Len(t) = Len(a) + Len(b)
        /\ \A j \in 1..(Len(a) + Len(b)) :
             t[j] = IF j <= Len(a) THEN a[j] ELSE b[j - Len(a)]
    BY <1>4, <2>1, Zenon
  <2>3. Len(t) = Len(q) - 1
    BY <1>1, <1>2, <1>3, <2>2
  <2>4. ASSUME NEW j \in 1..(Len(q) - 1)
        PROVE  t[j] = IF j < i THEN q[j] ELSE q[j + 1]
    <3>1. CASE j < i
      <4>1. j \in 1..(Len(a) + Len(b)) /\ j <= Len(a) /\ j \in 1..(i - 1)
        BY <3>1, <1>1, <1>2, <1>3
      <4>2. t[j] = a[j] /\ a[j] = q[j]
        BY <1>2, <2>2, <4>1
      <4> QED  BY <3>1, <4>2
    <3>2. CASE ~(j < i)
      <4>3. j \in 1..(Len(a) + Len(b)) /\ ~(j <= Len(a))
        BY <3>2, <1>1, <1>2, <1>3
      <4>4. t[j] = b[j - Len(a)]
        BY <2>2, <4>3
      <4>1. t[j] = b[j - Len(a)] /\ j - Len(a) \in 1..(Len(q) - i)
        BY <3>2, <1>1, <1>2, <4>4
      <4>2. i + (j - Len(a)) = j + 1
        BY <1>1, <1>2, <2>4
      <4> QED  BY <3>2, <1>3, <4>1, <4>2
    <3> QED  BY <3>1, <3>2
  <2> QED  BY <2>2, <2>3, <2>4
<1> HIDE DEF t
<1>6. DOMAIN t = 1..(Len(q) - 1)
  BY <1>5
<1>7. \A j \in DOMAIN t : \E k \in DOMAIN q : t[j] = q[k] /\ k # i
  <2> TAKE j \in DOMAIN t
  <2>1. CASE j < i  BY <2>1, <1>1, <1>5, <1>6
  <2>2. CASE ~(j < i)
    <3>1. j + 1 \in DOMAIN q /\ j + 1 # i /\ t[j] = q[j + 1]
      BY <2>2, <1>1, <1>5, <1>6
    <3> QED  BY <3>1
  <2> QED  BY <2>1, <2>2
<1>8. ASSUME NEW k \in DOMAIN q, k # i
      PROVE  \E j \in DOMAIN t : t[j] = q[k]
  <2>1. CASE k < i
    <3>1. k \in DOMAIN t /\ t[k] = q[k]
      BY <2>1, <1>1, <1>5, <1>6
    <3> QED  BY <3>1
  <2>2. CASE k > i
    <3>1. k - 1 \in DOMAIN t /\ t[k - 1] = q[k]
      BY <2>2, <1>1, <1>5, <1>6
    <3> QED  BY <3>1
  <2> QED  BY <2>1, <2>2, <1>1, <1>8
<1>9. ASSUME NEW j \in DOMAIN t, NEW k \in DOMAIN t, t[j] = t[k]
      PROVE  j = k
  <2> DEFINE Old(m) == IF m < i THEN m ELSE m + 1
  <2>1. /\ Old(j) \in DOMAIN q /\ t[j] = q[Old(j)]
        /\ Old(k) \in DOMAIN q /\ t[k] = q[Old(k)]
    BY <1>1, <1>5, <1>6
  <2>2. Old(j) = Old(k)
    BY <1>9, <2>1
  <2> QED  BY <2>2, <1>1, <1>6
<1> QED  BY <1>5, <1>7, <1>8, <1>9 DEF t

-----------------------------------------------------------------------------
(* The initial state satisfies the inductive invariant.                    *)
LEMMA InitInv == Init => IInv
<1> SUFFICES ASSUME Init PROVE IInv
  OBVIOUS
<1>1. Counted = {} /\ Admitted = {} /\ Permitted = {}
  BY DEF Init, Counted, Admitted, Permitted
<1>2. TypeOK
  BY LimitsAssumption DEF Init, TypeOK, Stages
<1>3. CountExact /\ HardLimitHeld /\ PermitsConserved
  BY <1>1, FS_EmptySet, LimitsAssumption
  DEF Init, CountExact, HardLimitHeld, PermitsConserved
<1>4. QueueExact
  BY DEF Init, QueueExact
<1> QED  BY <1>2, <1>3, <1>4 DEF IInv

(* Arrival: the count goes up, and the request is let in only if the count *)
(* it saw, itself included, is within the hard limit.                      *)
LEMMA FetchAddInv ==
  ASSUME IInv, NEW r \in Requests, FetchAdd(r)
  PROVE  IInv'
<1> USE DEF IInv
<1>1. TypeOK'
  BY DEF TypeOK, FetchAdd, Stages
<1>2. Counted' = Counted \cup {r} /\ r \notin Counted /\ Permitted' = Permitted
  BY DEF TypeOK, FetchAdd, Counted, Permitted
<1>3. CountExact'
  BY <1>2, FS_AddElement, FiniteRequests DEF CountExact, FetchAdd, Counted
<1>4. HardLimitHeld'
  <2>1. CASE inUse + 1 > HardLimit
    <3>1. Admitted' = Admitted
      BY <2>1 DEF TypeOK, FetchAdd, Admitted
    <3> QED  BY <3>1 DEF HardLimitHeld
  <2>2. CASE ~(inUse + 1 > HardLimit)
    <3>1. Admitted' \in SUBSET Counted' /\ IsFiniteSet(Counted')
      BY <1>2, FiniteRequests DEF Admitted, Counted
    <3>2. Cardinality(Admitted') <= Cardinality(Counted')
      BY <3>1, FS_Subset
    <3>3. Cardinality(Counted') = inUse + 1
      BY <1>3 DEF CountExact, FetchAdd
    <3>4. Cardinality(Admitted') \in Nat
      BY FiniteRequests DEF Admitted
    <3> QED  BY <2>2, <3>2, <3>3, <3>4, LimitsAssumption DEF HardLimitHeld, TypeOK
  <2> QED  BY <2>1, <2>2
<1>5. PermitsConserved'
  BY <1>2 DEF PermitsConserved, FetchAdd
<1>6. QueueExact'
  BY DEF QueueExact, FetchAdd, TypeOK
<1> QED  BY <1>1, <1>3, <1>4, <1>5, <1>6

(* A request leaves the count (rejected or done).                          *)
LEMMA LeaveInv ==
  ASSUME IInv, NEW r \in Requests, Reject(r) \/ Uncount(r)
  PROVE  IInv'
<1> USE DEF IInv
<1>1. /\ inUse' = inUse - 1 /\ permits' = permits /\ queue' = queue
      /\ pc' = [pc EXCEPT ![r] = "out"] /\ pc[r] \in {"over", "leaving"}
  BY DEF Reject, Uncount
<1>2. Counted' = Counted \ {r} /\ r \in Counted /\ Permitted' = Permitted
  BY <1>1 DEF TypeOK, Counted, Permitted
<1>3. CountExact'
  BY <1>1, <1>2, FS_RemoveElement, FiniteRequests DEF CountExact, Counted
<1>4. HardLimitHeld'
  <2>1. Admitted' \in SUBSET Admitted
    BY <1>1 DEF TypeOK, Admitted
  <2>2. Cardinality(Admitted') <= Cardinality(Admitted)
    BY <2>1, FS_Subset, FiniteRequests DEF Admitted
  <2>3. Cardinality(Admitted) \in Nat /\ Cardinality(Admitted') \in Nat
    BY FiniteRequests DEF Admitted
  <2> QED  BY <2>2, <2>3, LimitsAssumption DEF HardLimitHeld
<1>5. PermitsConserved'
  BY <1>1, <1>2 DEF PermitsConserved
<1>6. QueueExact'
  BY <1>1 DEF QueueExact, TypeOK
<1>7. inUse' \in Nat
  BY <1>3, FiniteRequests DEF CountExact, Counted
<1>8. TypeOK'
  BY <1>1, <1>7 DEF TypeOK, Stages
<1> QED  BY <1>3, <1>4, <1>5, <1>6, <1>8

(* First poll: take a free permit or join the end of the queue.            *)
LEMMA PollInv ==
  ASSUME IInv, NEW r \in Requests, Poll(r)
  PROVE  IInv'
<1> USE DEF IInv
<1>1. Counted' = Counted /\ Admitted' = Admitted
  BY DEF TypeOK, Poll, Counted, Admitted
<1>2. CountExact' /\ HardLimitHeld'
  BY <1>1 DEF CountExact, HardLimitHeld, Poll
<1>3. CASE permits > 0
  <2>1. TypeOK'
    BY <1>3 DEF TypeOK, Poll, Stages
  <2>2. Permitted' = Permitted \cup {r} /\ r \notin Permitted
    BY <1>3 DEF TypeOK, Poll, Permitted
  <2>3. Cardinality(Permitted') = Cardinality(Permitted) + 1
    BY <2>2, FS_AddElement, FiniteRequests DEF Permitted
  <2>4. PermitsConserved'
    BY <1>3, <2>3, FiniteRequests DEF PermitsConserved, Poll, TypeOK, Permitted
  <2>5. QueueExact'
    BY <1>3 DEF QueueExact, Poll, TypeOK
  <2> QED  BY <1>2, <2>1, <2>4, <2>5
<1>4. CASE ~(permits > 0)
  <2>1. queue' = Append(queue, r) /\ pc' = [pc EXCEPT ![r] = "queued"]
        /\ permits' = permits /\ inUse' = inUse /\ pc[r] = "admitted"
    BY <1>4 DEF Poll
  <2>2. TypeOK'
    BY <2>1 DEF TypeOK, Stages
  <2>3. Permitted' = Permitted
    BY <2>1 DEF TypeOK, Permitted
  <2>4. PermitsConserved'
    BY <2>1, <2>3 DEF PermitsConserved
  <2>5. /\ Len(queue) \in Nat /\ DOMAIN queue = 1..Len(queue)
        /\ DOMAIN queue' = 1..(Len(queue) + 1)
        /\ queue'[Len(queue) + 1] = r
        /\ \A i \in 1..Len(queue) : queue'[i] = queue[i]
    BY <2>1 DEF TypeOK
  <2>6. \A i \in DOMAIN queue : queue[i] # r
    BY <2>1 DEF QueueExact
  <2>7. \A i \in DOMAIN queue' : pc'[queue'[i]] = "queued"
    BY <2>1, <2>5, <2>6 DEF QueueExact, TypeOK
  <2>8. \A i, j \in DOMAIN queue' : queue'[i] = queue'[j] => i = j
    BY <2>5, <2>6 DEF QueueExact
  <2>9. ASSUME NEW s \in Requests, pc'[s] = "queued"
        PROVE  \E i \in DOMAIN queue' : queue'[i] = s
    <3>1. CASE s = r  BY <3>1, <2>5
    <3>2. CASE s # r
      <4>1. PICK i \in DOMAIN queue : queue[i] = s
        BY <3>2, <2>1, <2>9 DEF QueueExact, TypeOK
      <4> QED  BY <4>1, <2>5
    <3> QED  BY <3>1, <3>2
  <2>10. QueueExact'
    BY <1>4, <2>1, <2>7, <2>8, <2>9 DEF QueueExact
  <2> QED  BY <1>2, <2>2, <2>4, <2>10
<1> QED  BY <1>3, <1>4

(* The executor resumes a granted waiter: no set changes.                  *)
LEMMA ResumeInv ==
  ASSUME IInv, NEW r \in Requests, Resume(r)
  PROVE  IInv'
<1> USE DEF IInv
<1>1. Counted' = Counted /\ Admitted' = Admitted /\ Permitted' = Permitted
  BY DEF TypeOK, Resume, Counted, Admitted, Permitted
<1>2. CountExact' /\ HardLimitHeld' /\ PermitsConserved'
  BY <1>1 DEF CountExact, HardLimitHeld, PermitsConserved, Resume
<1>3. TypeOK' /\ QueueExact'
  BY DEF TypeOK, QueueExact, Resume, Stages
<1> QED  BY <1>2, <1>3

(* A waiter is cancelled: it leaves the queue, the others stay.            *)
LEMMA CancelInv ==
  ASSUME IInv, NEW r \in Requests, Cancel(r)
  PROVE  IInv'
<1> USE DEF IInv
<1>1. PICK i \in DOMAIN queue : queue[i] = r /\ queue' = RemoveAt(queue, i)
  BY DEF Cancel
<1>2. /\ pc' = [pc EXCEPT ![r] = "leaving"] /\ pc[r] = "queued"
      /\ inUse' = inUse /\ permits' = permits
  BY DEF Cancel
<1>3. Counted' = Counted /\ Admitted' = Admitted /\ Permitted' = Permitted
  BY <1>2 DEF TypeOK, Counted, Admitted, Permitted
<1>4. CountExact' /\ HardLimitHeld' /\ PermitsConserved'
  BY <1>2, <1>3 DEF CountExact, HardLimitHeld, PermitsConserved
<1>5. /\ queue' \in Seq(Requests)
      /\ \A j \in DOMAIN queue' : \E k \in DOMAIN queue : queue'[j] = queue[k] /\ k # i
      /\ \A k \in DOMAIN queue : k # i => \E j \in DOMAIN queue' : queue'[j] = queue[k]
      /\ \A j, k \in DOMAIN queue' : queue'[j] = queue'[k] => j = k
  BY <1>1, RemoveAtFacts DEF TypeOK, QueueExact
<1>6. TypeOK'
  BY <1>2, <1>5 DEF TypeOK, Stages
<1>7. \A j \in DOMAIN queue' : pc'[queue'[j]] = "queued"
  <2> TAKE j \in DOMAIN queue'
  <2>1. PICK k \in DOMAIN queue : queue'[j] = queue[k] /\ k # i
    BY <1>5
  <2>2. queue[k] # r /\ pc[queue[k]] = "queued"
    BY <1>1, <2>1 DEF QueueExact
  <2> QED  BY <1>2, <2>1, <2>2 DEF TypeOK
<1>8. ASSUME NEW s \in Requests, pc'[s] = "queued"
      PROVE  \E j \in DOMAIN queue' : queue'[j] = s
  <2>1. s # r /\ pc[s] = "queued"
    BY <1>2, <1>8 DEF TypeOK
  <2>2. PICK k \in DOMAIN queue : queue[k] = s
    BY <2>1 DEF QueueExact
  <2> QED  BY <1>1, <1>5, <2>1, <2>2
<1>9. permits' > 0 => queue' = <<>>
  BY <1>1, <1>2 DEF QueueExact
<1>10. QueueExact'
  BY <1>5, <1>7, <1>8, <1>9 DEF QueueExact
<1> QED  BY <1>4, <1>6, <1>10

(* A permit goes back to the semaphore or straight to the oldest waiter.   *)
LEMMA DropPermitInv ==
  ASSUME IInv, NEW r \in Requests, DropPermit(r)
  PROVE  IInv'
<1> USE DEF IInv
<1>1. CASE queue = <<>>
  <2>1. /\ inUse' = inUse /\ permits' = permits + 1 /\ queue' = queue
        /\ pc' = [pc EXCEPT ![r] = "leaving"] /\ pc[r] \in {"granted", "held"}
    BY <1>1 DEF DropPermit
  <2>2. Counted' = Counted /\ Admitted' = Admitted
    BY <2>1 DEF TypeOK, Counted, Admitted
  <2>3. Permitted' = Permitted \ {r} /\ r \in Permitted
    BY <2>1 DEF TypeOK, Permitted
  <2>4. Cardinality(Permitted') = Cardinality(Permitted) - 1
    BY <2>3, FS_RemoveElement, FiniteRequests DEF Permitted
  <2>5. PermitsConserved'
    BY <2>1, <2>4, FiniteRequests DEF PermitsConserved, TypeOK, Permitted
  <2>6. CountExact' /\ HardLimitHeld'
    BY <2>1, <2>2 DEF CountExact, HardLimitHeld
  <2>7. TypeOK' /\ QueueExact'
    BY <1>1, <2>1 DEF TypeOK, QueueExact, Stages
  <2> QED  BY <2>5, <2>6, <2>7
<1>2. CASE queue # <<>>
  <2> DEFINE h == Head(queue)
  <2>1. /\ inUse' = inUse /\ permits' = permits /\ queue' = Tail(queue)
        /\ pc' = [pc EXCEPT ![r] = "leaving", ![h] = "granted"]
        /\ pc[r] \in {"granted", "held"}
    BY <1>2 DEF DropPermit
  <2>2. /\ Len(queue) \in Nat \ {0} /\ DOMAIN queue = 1..Len(queue)
        /\ h = queue[1] /\ h \in Requests
        /\ queue' \in Seq(Requests) /\ DOMAIN queue' = 1..(Len(queue) - 1)
        /\ \A i \in 1..(Len(queue) - 1) : queue'[i] = queue[i + 1]
    BY <1>2, <2>1 DEF TypeOK
  <2>3. pc[h] = "queued" /\ h # r
    BY <2>1, <2>2 DEF QueueExact
  <2> HIDE DEF h
  <2>4. /\ pc' \in [Requests -> Stages] /\ pc'[r] = "leaving" /\ pc'[h] = "granted"
        /\ \A s \in Requests : s # r /\ s # h => pc'[s] = pc[s]
    BY <2>1, <2>2, <2>3 DEF TypeOK, Stages
  <2>5. Counted' = Counted /\ Admitted' = Admitted
    BY <2>1, <2>2, <2>3, <2>4 DEF Counted, Admitted
  <2>6. Permitted' = (Permitted \ {r}) \cup {h} /\ r \in Permitted /\ h \notin Permitted
    BY <2>1, <2>2, <2>3, <2>4 DEF Permitted
  <2>7. Cardinality(Permitted') = Cardinality(Permitted)
    <3>1. IsFiniteSet(Permitted) /\ Cardinality(Permitted) \in Nat
      BY FiniteRequests DEF Permitted
    <3>2. /\ IsFiniteSet(Permitted \ {r})
          /\ Cardinality(Permitted \ {r}) = Cardinality(Permitted) - 1
      BY <2>6, <3>1, FS_RemoveElement
    <3>3. Cardinality((Permitted \ {r}) \cup {h}) = Cardinality(Permitted \ {r}) + 1
      BY <2>6, <3>2, FS_AddElement
    <3> QED  BY <2>6, <3>1, <3>2, <3>3
  <2>8. CountExact' /\ HardLimitHeld' /\ PermitsConserved'
    BY <2>1, <2>5, <2>7 DEF CountExact, HardLimitHeld, PermitsConserved
  <2>9. TypeOK'
    BY <2>1, <2>2, <2>4 DEF TypeOK
  <2>10. \A i \in DOMAIN queue' : pc'[queue'[i]] = "queued"
    <3> TAKE i \in DOMAIN queue'
    <3>1. i + 1 \in DOMAIN queue /\ queue'[i] = queue[i + 1] /\ i + 1 # 1
      BY <2>2
    <3>2. queue[i + 1] # h /\ pc[queue[i + 1]] = "queued"
      BY <2>2, <3>1 DEF QueueExact
    <3> QED  BY <2>1, <2>4, <3>1, <3>2 DEF TypeOK
  <2>11. \A i, j \in DOMAIN queue' : queue'[i] = queue'[j] => i = j
    <3> TAKE i, j \in DOMAIN queue'
    <3>1. i + 1 \in DOMAIN queue /\ queue'[i] = queue[i + 1]
          /\ j + 1 \in DOMAIN queue /\ queue'[j] = queue[j + 1]
      BY <2>2
    <3>2. queue[i + 1] = queue[j + 1] => i + 1 = j + 1
      BY <3>1 DEF QueueExact
    <3> QED  BY <2>2, <3>1, <3>2
  <2>12. ASSUME NEW s \in Requests, pc'[s] = "queued"
         PROVE  \E i \in DOMAIN queue' : queue'[i] = s
    <3>1. s # r /\ s # h /\ pc[s] = "queued"
      BY <2>4, <2>12
    <3>2. PICK k \in DOMAIN queue : queue[k] = s
      BY <3>1 DEF QueueExact
    <3>3. k - 1 \in DOMAIN queue' /\ queue'[k - 1] = s
      BY <2>2, <3>1, <3>2
    <3> QED  BY <3>3
  <2>13. QueueExact'
    <3>1. permits' > 0 => queue' = <<>>
      BY <1>2, <2>1 DEF QueueExact
    <3> QED  BY <2>10, <2>11, <2>12, <3>1 DEF QueueExact
  <2> QED  BY <2>8, <2>9, <2>13
<1> QED  BY <1>1, <1>2

(* One step, or a stutter, preserves the invariant.                        *)
LEMMA StepInv == IInv /\ [Next]_bpVars => IInv'
<1> SUFFICES ASSUME IInv, [Next]_bpVars PROVE IInv'
  OBVIOUS
<1>1. CASE UNCHANGED bpVars
  BY <1>1 DEF bpVars, IInv, TypeOK, CountExact, HardLimitHeld, PermitsConserved,
              QueueExact, Counted, Admitted, Permitted
<1>2. ASSUME NEW r \in Requests, Step(r) PROVE IInv'
  BY <1>2, FetchAddInv, LeaveInv, PollInv, ResumeInv, CancelInv, DropPermitInv DEF Step
<1> QED  BY <1>1, <1>2 DEF Next

(* The inductive invariant holds in every state.                           *)
THEOREM Invariance == SafeSpec => []IInv
BY InitInv, StepInv, PTL DEF SafeSpec

(* The type invariant of the module.                                       *)
THEOREM TypeCorrect == SafeSpec => []TypeOK
BY Invariance, PTL DEF IInv

(* in_use is the number of requests between fetch_add and fetch_sub, and   *)
(* the hard limit of backpressure.rs:60 holds in every interleaving.       *)
THEOREM HardLimitTheorem == SafeSpec => [](CountExact /\ HardLimitHeld)
BY Invariance, PTL DEF IInv

(* The semaphore's permits are conserved and nobody is queued beside a     *)
(* free permit, whatever is cancelled or dropped and when.                 *)
THEOREM SoftLimitTheorem == SafeSpec => [](PermitsConserved /\ QueueExact)
BY Invariance, PTL DEF IInv

(* acquire() turns a request away only when HardLimit others are counted.  *)
THEOREM RejectTheorem == SafeSpec => RejectJustified
<1> DEFINE A == \A r \in Requests :
                  pc[r] = "out" /\ pc'[r] = "over" => Cardinality(Counted) >= HardLimit
<1>1. IInv /\ [Next]_bpVars => A
  <2> SUFFICES ASSUME IInv, [Next]_bpVars, NEW r \in Requests,
                      pc[r] = "out", pc'[r] = "over"
               PROVE  Cardinality(Counted) >= HardLimit
    OBVIOUS
  <2> USE DEF IInv
  <2>1. inUse + 1 > HardLimit
    <3>1. PICK s \in Requests : Step(s)
      BY DEF Next, bpVars
    <3>2. \/ FetchAdd(s)
          \/ \E v \in {"out", "held", "queued", "leaving"} :
               pc' = [pc EXCEPT ![s] = v]
          \/ queue # <<>> /\ pc' = [pc EXCEPT ![s] = "leaving", ![Head(queue)] = "granted"]
      BY <3>1 DEF Step, Reject, Poll, Resume, Cancel, DropPermit, Uncount
    <3>3. CASE FetchAdd(s)
      BY <3>3 DEF FetchAdd, TypeOK
    <3> QED  BY <3>2, <3>3 DEF TypeOK
  <2> QED  BY <2>1, LimitsAssumption DEF CountExact, TypeOK
<1>2. IInv /\ [Next]_bpVars => [A]_bpVars
  BY <1>1
<1> QED  BY <1>2, Invariance, PTL DEF SafeSpec, RejectJustified

-----------------------------------------------------------------------------
(* The refinement: the counter and the semaphore implement the gate.       *)

(* The gate counts sets as this module does.                               *)
LEMMA GateCardinality == ASSUME NEW S PROVE Gate!Cardinality(S) = Cardinality(S)
BY DEF Gate!Cardinality, Cardinality

(* Nobody waits or is served in an initial state.                          *)
LEMMA GateInit == Init => Gate!Init
BY DEF Init, Gate!Init

(* Every step is a step of the gate or leaves what it can see unchanged.   *)
LEMMA GateStep == IInv /\ [Next]_bpVars => [Gate!Next]_(Gate!vars)
<1> SUFFICES ASSUME IInv, [Next]_bpVars
             PROVE  Gate!Next \/ UNCHANGED Gate!vars
  OBVIOUS
<1> USE DEF IInv
<1> DEFINE waiting == {r \in Requests : pc[r] \in {"admitted", "queued", "granted"}}
           serving == {r \in Requests : pc[r] = "held"}
<1>1. CASE UNCHANGED bpVars
  BY <1>1 DEF bpVars, Gate!vars
<1>2. ASSUME NEW r \in Requests, Step(r)
      PROVE  Gate!Next \/ UNCHANGED Gate!vars
  <2>1. CASE FetchAdd(r) /\ inUse + 1 > HardLimit
    BY <2>1 DEF FetchAdd, TypeOK, Gate!vars
  <2>2. CASE FetchAdd(r) /\ ~(inUse + 1 > HardLimit)
    <3>1. waiting' = waiting \cup {r} /\ serving' = serving /\ r \notin waiting \cup serving
      BY <2>2 DEF FetchAdd, TypeOK
    <3>2. Cardinality(waiting \cup serving) <= inUse
      <4>1. waiting \cup serving \in SUBSET Counted
        BY DEF Counted
      <4> QED  BY <4>1, FiniteRequests, FS_Subset DEF CountExact, Counted
    <3>3. Cardinality(waiting \cup serving) < HardLimit
      <4>1. Cardinality(waiting \cup serving) \in Nat
        BY FiniteRequests
      <4> QED  BY <2>2, <3>2, <4>1, LimitsAssumption DEF TypeOK
    <3> QED  BY <3>1, <3>3, GateCardinality DEF Gate!Next, Gate!Enter, Gate!Inside
  <2>3. CASE Reject(r)
    BY <2>3 DEF Reject, TypeOK, Gate!vars
  <2>4. CASE Uncount(r)
    BY <2>4 DEF Uncount, TypeOK, Gate!vars
  <2>5. ASSUME Resume(r) \/ (Poll(r) /\ permits > 0)
        PROVE  Gate!Next
    <3>1. /\ waiting' = waiting \ {r} /\ serving' = serving \cup {r}
          /\ r \in waiting /\ r \notin serving
      BY <2>5 DEF Resume, Poll, TypeOK
    <3>2. Cardinality(serving) < SoftLimit
      <4>1. serving \in SUBSET Permitted /\ IsFiniteSet(Permitted)
        BY FiniteRequests DEF Permitted
      <4>2. /\ Cardinality(serving) <= Cardinality(Permitted)
            /\ Cardinality(serving) = Cardinality(Permitted) => serving = Permitted
        BY <4>1, FS_Subset
      <4>3. Cardinality(serving) \in Nat /\ Cardinality(Permitted) \in Nat
        BY FiniteRequests DEF Permitted
      <4>4. CASE Resume(r)
        <5>1. r \in Permitted
          BY <4>4 DEF Resume, Permitted
        <5>2. Cardinality(serving) # Cardinality(Permitted)
          BY <3>1, <4>2, <5>1
        <5> QED  BY <4>2, <4>3, <5>2, LimitsAssumption DEF PermitsConserved, TypeOK
      <4>5. CASE Poll(r) /\ permits > 0
        BY <4>2, <4>3, <4>5, LimitsAssumption DEF PermitsConserved, TypeOK
      <4> QED  BY <2>5, <4>4, <4>5
    <3> QED  BY <3>1, <3>2, GateCardinality DEF Gate!Next, Gate!Serve
  <2>6. CASE Poll(r) /\ ~(permits > 0)
    BY <2>6 DEF Poll, TypeOK, Gate!vars
  <2>7. CASE Cancel(r)
    <3>1. /\ waiting' = waiting \ {r} /\ serving' = serving \ {r}
          /\ r \in waiting
      BY <2>7 DEF Cancel, TypeOK
    <3> QED  BY <3>1 DEF Gate!Next, Gate!Leave, Gate!Inside
  <2>8. CASE DropPermit(r)
    <3>1. /\ waiting' = waiting \ {r} /\ serving' = serving \ {r}
          /\ r \in waiting \cup serving
      <4>1. CASE queue = <<>>
        BY <2>8, <4>1 DEF DropPermit, TypeOK
      <4>2. CASE queue # <<>>
        <5>1. Head(queue) \in Requests /\ pc[Head(queue)] = "queued"
          BY <4>2 DEF TypeOK, QueueExact
        <5> QED  BY <2>8, <4>2, <5>1 DEF DropPermit, TypeOK
      <4> QED  BY <4>1, <4>2
    <3> QED  BY <3>1 DEF Gate!Next, Gate!Leave, Gate!Inside
  <2> QED  BY <1>2, <2>1, <2>2, <2>3, <2>4, <2>5, <2>6, <2>7, <2>8 DEF Step
<1> QED  BY <1>1, <1>2 DEF Next

(* Backpressure implements the safety part of Admission.                   *)
THEOREM Refinement == SafeSpec => Gate!Safe
BY GateInit, GateStep, Invariance, PTL DEF SafeSpec, Gate!Safe

-----------------------------------------------------------------------------
(* The map of limits.                                                      *)

(* Who holds a shard's lock is gc() or is in get() for a key of that shard.*)
HoldersInGet ==
  \A r \in Requests, s \in Shards :
    lock[s] = r => key[r] # Nobody /\ s = Shard(r) /\ pc[r] \in {"out", "over"}

(* Whoever is inside the gate has a key; who is turned away by it still    *)
(* holds the lock under which its increment is undone.                     *)
InsideHasKey == \A r \in Requests : pc[r] # "out" => key[r] # Nobody
RejectLocked == \A r \in Requests : pc[r] = "over" => lock[Shard(r)] = r

(* gc() sweeps one shard at a time, and visits entries of that shard only. *)
VisitsLocked == \A k \in gcTodo : lock[ShardOf[k]] = "gc"
OneSweep == \A s, t \in Shards : lock[s] = "gc" /\ lock[t] = "gc" => s = t

LockDiscipline == HoldersInGet /\ InsideHasKey /\ RejectLocked /\ VisitsLocked /\ OneSweep

MapInv == TypeOKMap /\ LockDiscipline

-----------------------------------------------------------------------------
(* The gate under the map.                                                 *)

(* Each step of the map is a step of the gate or none.                     *)
LEMMA MapStepIsGateStep == [NextMap]_clVars => [Next]_bpVars
<1>1. ASSUME NEW r \in Requests, GetStep(r) \/ Call(r)
      PROVE  Step(r) \/ UNCHANGED bpVars
  BY <1>1
       DEF GetStep, Call, LockShard, Acquire, GetReject, Await, GiveUp, Done, Step
<1>2. Gc => UNCHANGED bpVars
  BY DEF Gc, GcLock, GcUnlock, GcVisit
<1>3. UNCHANGED clVars => UNCHANGED bpVars
  BY DEF clVars, bpVars
<1> QED  BY <1>1, <1>2, <1>3 DEF NextMap, Next

(* A behaviour of the map is a behaviour of the gate.                      *)
THEOREM MapImplementsBackpressure == SpecMapSafe => SafeSpec
<1>1. InitMap => Init
  BY DEF InitMap
<1> QED  BY <1>1, MapStepIsGateStep, PTL DEF SpecMapSafe, SafeSpec

(* in_use stays exact while get() adds under a lock and guards are dropped *)
(* without one: eviction by gc() loses no count.                           *)
THEOREM MapCountExact == SpecMapSafe => []CountExact
BY MapImplementsBackpressure, HardLimitTheorem, PTL

(* No more than HardLimit requests are let in, whatever shards they use.   *)
THEOREM MapHardLimit == SpecMapSafe => []HardLimitHeld
BY MapImplementsBackpressure, HardLimitTheorem, PTL

(* The queue is the waiting requests, each once, nobody waits beside a     *)
(* free permit, and no permit is lost, whatever get() and gc() do.         *)
THEOREM MapQueueExact == SpecMapSafe => [](QueueExact /\ PermitsConserved)
BY MapImplementsBackpressure, SoftLimitTheorem, PTL

(* Nobody is turned away by get() while fewer than HardLimit are counted.  *)
THEOREM MapReject == SpecMapSafe => RejectJustified
BY MapImplementsBackpressure, RejectTheorem, PTL

(* The map implements the admission gate.                                  *)
THEOREM MapRefinement == SpecMapSafe => Gate!Safe
BY MapImplementsBackpressure, Refinement, PTL

-----------------------------------------------------------------------------
(* The map and its locks.                                                  *)

(* Nothing is locked in an initial state.                                  *)
LEMMA MapInitInv == InitMap => MapInv
BY LimitsAssumption, MapAssumption
   DEF InitMap, Init, MapInv, TypeOKMap, TypeOK, LockDiscipline, HoldersInGet,
       InsideHasKey, RejectLocked, VisitsLocked, OneSweep, Stages, Shards

(* The gate keeps its types under a step of the map.                       *)
LEMMA GateTypes == IInv /\ [NextMap]_clVars => TypeOK'
BY MapStepIsGateStep, StepInv DEF IInv

(* get() and the life of its future keep the invariant.                    *)
LEMMA GetInv ==
  ASSUME MapInv, QueueExact, TypeOK', NEW r \in Requests, GetStep(r) \/ Call(r)
  PROVE  MapInv'
<1> USE MapAssumption DEF MapInv, LockDiscipline
<1>1. CASE Call(r)
  <2>1. TypeOKMap'
    BY <1>1 DEF Call, bpVars, TypeOKMap
  <2>2. HoldersInGet'
    BY <1>1 DEF Call, bpVars, HoldersInGet, TypeOKMap, Shard, Shards
  <2>3. InsideHasKey'
    BY <1>1 DEF Call, bpVars, InsideHasKey, TypeOKMap
  <2>4. RejectLocked'
    BY <1>1 DEF Call, bpVars, RejectLocked, TypeOKMap, Shard, Shards
  <2>5. VisitsLocked'
    BY <1>1 DEF Call, bpVars, VisitsLocked, TypeOKMap
  <2>6. OneSweep'
    BY <1>1 DEF Call, bpVars, OneSweep, TypeOKMap, Shards
  <2> QED  BY <2>1, <2>2, <2>3, <2>4, <2>5, <2>6
<1>2. CASE LockShard(r)
  <2>1. TypeOKMap'
    BY <1>2 DEF LockShard, bpVars, TypeOKMap
  <2>2. HoldersInGet'
    BY <1>2 DEF LockShard, bpVars, TypeOK, HoldersInGet, TypeOKMap, Shard, Shards
  <2>3. InsideHasKey'
    BY <1>2 DEF LockShard, bpVars, TypeOK, InsideHasKey, TypeOKMap
  <2>4. RejectLocked'
    BY <1>2 DEF LockShard, bpVars, TypeOK, RejectLocked, TypeOKMap, Shard, Shards
  <2>5. VisitsLocked'
    BY <1>2 DEF LockShard, bpVars, VisitsLocked, TypeOKMap
  <2>6. OneSweep'
    BY <1>2 DEF LockShard, bpVars, OneSweep, TypeOKMap, Shards
  <2> QED  BY <2>1, <2>2, <2>3, <2>4, <2>5, <2>6
<1>3. CASE Acquire(r)
  <2>1. TypeOKMap'
    BY <1>3 DEF Acquire, InGet, Shard, TypeOKMap
  <2>2. HoldersInGet'
    BY <1>3
       DEF Acquire, InGet, Shard, FetchAdd, TypeOK, HoldersInGet, TypeOKMap, Shards
  <2>3. InsideHasKey'
    BY <1>3 DEF Acquire, InGet, Shard, FetchAdd, TypeOK, InsideHasKey, TypeOKMap
  <2>4. RejectLocked'
    BY <1>3
       DEF Acquire, InGet, Shard, FetchAdd, TypeOK, RejectLocked, TypeOKMap, Shards
  <2>5. VisitsLocked'
    BY <1>3 DEF Acquire, InGet, Shard, VisitsLocked, TypeOKMap
  <2>6. OneSweep'
    BY <1>3 DEF Acquire, InGet, Shard, OneSweep, TypeOKMap, Shards
  <2> QED  BY <2>1, <2>2, <2>3, <2>4, <2>5, <2>6
<1>4. CASE GetReject(r)
  <2>1. TypeOKMap'
    BY <1>4 DEF GetReject, Shard, TypeOKMap
  <2>2. HoldersInGet'
    <3> SUFFICES ASSUME NEW q \in Requests, NEW s \in Shards, lock'[s] = q
                 PROVE  key'[q] # Nobody /\ s = Shard(q)' /\ pc'[q] \in {"out", "over"}
      BY DEF HoldersInGet, Shards
    <3>1. s # Shard(r) /\ lock[s] = q
      BY <1>4, MapAssumption DEF GetReject, TypeOKMap
    <3>2. key[q] # Nobody /\ s = Shard(q) /\ pc[q] \in {"out", "over"}
      BY <3>1 DEF HoldersInGet
    <3>3. q # r
      BY <3>1, <3>2
    <3> QED  BY <1>4, <3>2, <3>3 DEF GetReject, Reject, Shard, TypeOK, TypeOKMap
  <2>3. InsideHasKey'
    BY <1>4 DEF GetReject, Shard, Reject, TypeOK, InsideHasKey, TypeOKMap
  <2>4. RejectLocked'
    <3>1. pc[r] = "over" /\ lock[Shard(r)] = r /\ Shard(r) \in Shards
      BY <1>4 DEF GetReject, Reject, RejectLocked, InsideHasKey, TypeOKMap, Shard, Shards
    <3>2. ASSUME NEW q \in Requests, pc'[q] = "over"
          PROVE  q # r /\ lock[Shard(q)] = q /\ Shard(q) \in Shards
      BY <1>4, <3>1, <3>2 DEF GetReject, Reject, RejectLocked, InsideHasKey, TypeOKMap, TypeOK,
                              Shard, Shards
    <3>3. ASSUME NEW q \in Requests, pc'[q] = "over"
          PROVE  lock'[Shard(q)'] = q
      BY <1>4, <3>1, <3>2, <3>3 DEF GetReject, TypeOKMap, Shard
    <3> QED  BY <3>3 DEF RejectLocked
  <2>5. VisitsLocked'
    BY <1>4 DEF GetReject, Shard, Shards, Reject, RejectLocked, InsideHasKey, VisitsLocked, TypeOKMap
  <2>6. OneSweep'
    BY <1>4 DEF GetReject, Shard, OneSweep, TypeOKMap, Shards
  <2> QED  BY <2>1, <2>2, <2>3, <2>4, <2>5, <2>6
<1>5. CASE Await(r) \/ GiveUp(r)
  <2>1. TypeOKMap'
    BY <1>5 DEF Await, GiveUp, TypeOKMap
  <2>2. \A q \in Requests :
          \/ pc'[q] = pc[q]
          \/ pc[q] \notin {"out", "over"} /\ pc'[q] \notin {"out", "over"}
    <3> USE DEF TypeOKMap, TypeOK
    <3>1. CASE Poll(r)
      BY <3>1 DEF Poll
    <3>2. CASE Resume(r)
      BY <3>2 DEF Resume
    <3>3. CASE Cancel(r)
      BY <3>3 DEF Cancel
    <3>4. CASE DropPermit(r) /\ queue = <<>>
      BY <3>4 DEF DropPermit
    <3>5. CASE DropPermit(r) /\ queue # <<>>
      <4>1. Head(queue) \in Requests /\ pc[Head(queue)] = "queued"
        BY <3>5 DEF QueueExact
      <4> QED  BY <3>5, <4>1 DEF DropPermit
    <3> QED  BY <1>5, <3>1, <3>2, <3>3, <3>4, <3>5 DEF Await, GiveUp
  <2>3. HoldersInGet'
    BY <1>5, <2>2 DEF Await, GiveUp, HoldersInGet, TypeOKMap, Shard, Shards
  <2>4. InsideHasKey'
    BY <1>5, <2>2 DEF Await, GiveUp, InsideHasKey, TypeOKMap
  <2>5. RejectLocked'
    BY <1>5, <2>2 DEF Await, GiveUp, RejectLocked, TypeOKMap, Shard, Shards
  <2>6. VisitsLocked'
    BY <1>5, <2>2 DEF Await, GiveUp, VisitsLocked, TypeOKMap
  <2>7. OneSweep'
    BY <1>5, <2>2 DEF Await, GiveUp, OneSweep, TypeOKMap, Shards
  <2> QED  BY <2>1, <2>3, <2>4, <2>5, <2>6, <2>7
<1>6. CASE Done(r)
  <2>1. TypeOKMap'
    BY <1>6 DEF Done, Shard, TypeOKMap
  <2>2. HoldersInGet'
    BY <1>6 DEF Done, Shard, Uncount, TypeOK, HoldersInGet, TypeOKMap, Shards
  <2>3. InsideHasKey'
    BY <1>6 DEF Done, Shard, Uncount, TypeOK, InsideHasKey, TypeOKMap
  <2>4. RejectLocked'
    BY <1>6 DEF Done, Shard, Uncount, TypeOK, RejectLocked, TypeOKMap, Shards
  <2>5. VisitsLocked'
    BY <1>6 DEF Done, Shard, VisitsLocked, TypeOKMap
  <2>6. OneSweep'
    BY <1>6 DEF Done, Shard, OneSweep, TypeOKMap, Shards
  <2> QED  BY <2>1, <2>2, <2>3, <2>4, <2>5, <2>6
<1> QED  BY <1>1, <1>2, <1>3, <1>4, <1>5, <1>6 DEF GetStep

(* gc() keeps it.                                                          *)
LEMMA GcInv == ASSUME MapInv, TypeOK', Gc PROVE MapInv'
<1> USE MapAssumption DEF MapInv, LockDiscipline
<1>1. ASSUME NEW s \in Shards, GcLock(s) PROVE MapInv'
  <2>1. TypeOKMap'
    BY <1>1 DEF GcLock, bpVars, TypeOKMap
  <2>2. HoldersInGet'
    BY <1>1 DEF GcLock, bpVars, HoldersInGet, TypeOKMap, Shard, Shards
  <2>3. InsideHasKey'
    BY <1>1 DEF GcLock, bpVars, InsideHasKey, TypeOKMap
  <2>4. RejectLocked'
    BY <1>1 DEF GcLock, bpVars, RejectLocked, TypeOKMap, Shard, Shards
  <2>5. VisitsLocked'
    BY <1>1 DEF GcLock, bpVars, VisitsLocked, TypeOKMap
  <2>6. OneSweep'
    BY <1>1 DEF GcLock, bpVars, OneSweep, TypeOKMap, Shards
  <2> QED  BY <2>1, <2>2, <2>3, <2>4, <2>5, <2>6
<1>2. ASSUME NEW s \in Shards, GcUnlock(s) PROVE MapInv'
  <2>1. TypeOKMap'
    BY <1>2 DEF GcUnlock, bpVars, TypeOKMap
  <2>2. HoldersInGet'
    BY <1>2 DEF GcUnlock, bpVars, HoldersInGet, TypeOKMap, Shard, Shards
  <2>3. InsideHasKey'
    BY <1>2 DEF GcUnlock, bpVars, InsideHasKey, TypeOKMap
  <2>4. RejectLocked'
    BY <1>2 DEF GcUnlock, bpVars, RejectLocked, TypeOKMap, Shard, Shards
  <2>5. VisitsLocked'
    BY <1>2 DEF GcUnlock, bpVars, VisitsLocked, TypeOKMap
  <2>6. OneSweep'
    BY <1>2 DEF GcUnlock, bpVars, OneSweep, TypeOKMap, Shards
  <2> QED  BY <2>1, <2>2, <2>3, <2>4, <2>5, <2>6
<1>3. ASSUME NEW k \in Keys, GcVisit(k) PROVE MapInv'
  <2>1. TypeOKMap'
    BY <1>3 DEF GcVisit, bpVars, TypeOKMap
  <2>2. HoldersInGet'
    BY <1>3 DEF GcVisit, bpVars, HoldersInGet, TypeOKMap, Shard, Shards
  <2>3. InsideHasKey'
    BY <1>3 DEF GcVisit, bpVars, InsideHasKey, TypeOKMap
  <2>4. RejectLocked'
    BY <1>3 DEF GcVisit, bpVars, RejectLocked, TypeOKMap, Shard, Shards
  <2>5. VisitsLocked'
    BY <1>3 DEF GcVisit, bpVars, VisitsLocked, TypeOKMap
  <2>6. OneSweep'
    BY <1>3 DEF GcVisit, bpVars, OneSweep, TypeOKMap, Shards
  <2> QED  BY <2>1, <2>2, <2>3, <2>4, <2>5, <2>6
<1> QED  BY <1>1, <1>2, <1>3 DEF Gc

(* Every step keeps the invariant of the map. *)
LEMMA MapStepInv == MapInv /\ IInv /\ [NextMap]_clVars => MapInv'
<1> SUFFICES ASSUME MapInv, IInv, [NextMap]_clVars PROVE MapInv'
  OBVIOUS
<1>1. TypeOK'
  BY GateTypes
<1>2. CASE UNCHANGED clVars
  BY <1>1, <1>2 DEF clVars, MapInv, TypeOKMap, LockDiscipline, HoldersInGet, 
    InsideHasKey, RejectLocked, VisitsLocked, OneSweep, Shard
<1>3. ASSUME NEW r \in Requests, GetStep(r) \/ Call(r) PROVE MapInv'
  BY <1>1, <1>3, GetInv DEF IInv
<1>4. CASE Gc
  BY <1>1, <1>4, GcInv
<1> QED  BY <1>2, <1>3, <1>4 DEF NextMap

(* The locks of the shards do what they are for: nobody else is in get()   *)
(* for a shard that gc() sweeps, and every entry that gc() has still to    *)
(* visit is there, in the shard that it holds.                             *)
THEOREM LocksTheorem == SpecMapSafe => [](TypeOKMap /\ LockDiscipline)
<1>1. SpecMapSafe => []IInv
  BY MapImplementsBackpressure, Invariance, PTL
<1> QED  BY <1>1, MapInitInv, MapStepInv, PTL DEF SpecMapSafe, MapInv
=============================================================================
