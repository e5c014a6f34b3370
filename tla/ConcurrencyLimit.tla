--------------------------- MODULE ConcurrencyLimit ---------------------------
(***************************************************************************)
(* service/concurrency_limit.rs: the sharded map from rate-limit keys to   *)
(* Backpressure handles, its get() and its gc().                           *)
(*                                                                         *)
(* get() inserts template.clone(), and Clone of Backpressure copies the    *)
(* Arc: every entry of every shard is a handle of the one                  *)
(* BackpressureInner whose state module Backpressure keeps.  The map is    *)
(* therefore the set of keys that have an entry.                           *)
(*                                                                         *)
(* A shard is a parking_lot RwLock.  get() takes it upgradable, gc() for   *)
(* writing: both exclude each other, so the lock has one holder.           *)
(***************************************************************************)
EXTENDS Backpressure

CONSTANTS
  Keys,     \* rate-limit keys
  ShardOf,  \* the keyed hash of a key, modulo the number of shards
  KeyOf,    \* the requester behind each request
  Nobody    \* a free lock, an idle request

Shards == {ShardOf[k] : k \in Keys}

ASSUME MapAssumption ==
  /\ IsFiniteSet(Keys)
  /\ ShardOf \in [Keys -> Nat]
  /\ KeyOf \in [Requests -> Keys]
  /\ Nobody \notin Requests \cup Keys \cup {"gc"}
  /\ "gc" \notin Requests

VARIABLES
  map,     \* the keys that have an entry
  lock,    \* holder of each shard's lock
  key,     \* the key each request asks for, from its call of get() on
  gcTodo   \* the entries gc() has still to visit in the shard it has locked

clVars == <<inUse, permits, queue, pc, map, lock, key, gcTodo>>

TypeOKMap ==
  /\ TypeOK
  /\ map \subseteq Keys
  /\ lock \in [Shards -> Requests \cup {Nobody, "gc"}]
  /\ key \in [Requests -> Keys \cup {Nobody}]
  /\ gcTodo \subseteq map

InitMap ==
  /\ Init
  /\ map = {}
  /\ lock = [s \in Shards |-> Nobody]
  /\ key = [r \in Requests |-> Nobody]
  /\ gcTodo = {}

Shard(r) == ShardOf[key[r]]
InGet(r) == key[r] # Nobody /\ lock[Shard(r)] = r

-----------------------------------------------------------------------------
(* Faulty variants.                                                        *)

RejectKeepingLock(r) ==
  /\ Reject(r)
  /\ key' = [key EXCEPT ![r] = Nobody]
  /\ UNCHANGED <<map, lock, gcTodo>>

AcquireFreshEntry(r) ==
  /\ InGet(r)
  /\ IF key[r] \in map
     THEN FetchAdd(r)
     ELSE /\ pc[r] = "out"
          /\ inUse' = 1
          /\ pc' = [pc EXCEPT ![r] = "admitted"]
          /\ UNCHANGED <<permits, queue>>
  /\ map' = map \cup {key[r]}
  /\ lock' = IF pc'[r] = "over" THEN lock ELSE [lock EXCEPT ![Shard(r)] = Nobody]
  /\ UNCHANGED <<key, gcTodo>>

GcVisitAgain(k) ==
  /\ k \in gcTodo
  /\ map' = IF inUse = 0 THEN map ELSE map \ {k}
  /\ UNCHANGED <<bpVars, lock, key, gcTodo>>

-----------------------------------------------------------------------------
(* get(): the request is known by its key and waits for its shard.         *)
Call(r) ==
  /\ pc[r] = "out" /\ key[r] = Nobody
  /\ key' = [key EXCEPT ![r] = KeyOf[r]]
  /\ UNCHANGED <<bpVars, map, lock, gcTodo>>

LockShard(r) ==
  /\ pc[r] = "out" /\ key[r] # Nobody
  /\ lock[Shard(r)] = Nobody
  /\ lock' = [lock EXCEPT ![Shard(r)] = r]
  /\ UNCHANGED <<bpVars, map, key, gcTodo>>

(* The entry is found or inserted, then acquire() runs under the lock; the *)
(* guard falls when get() returns a future, or after acquire() has undone  *)
(* its increment.                                                          *)
Acquire(r) ==
  /\ InGet(r)
  /\ FetchAdd(r)
  /\ map' = map \cup {key[r]}
  /\ lock' = IF pc'[r] = "over" THEN lock ELSE [lock EXCEPT ![Shard(r)] = Nobody]
  /\ UNCHANGED <<key, gcTodo>>

GetReject(r) ==
  /\ Reject(r)
  /\ lock' = [lock EXCEPT ![Shard(r)] = Nobody]
  /\ key' = [key EXCEPT ![r] = Nobody]
  /\ UNCHANGED <<map, gcTodo>>

(* The future lives on without the lock (http/identify.rs awaits it).      *)
Await(r) ==
  /\ Poll(r) \/ Resume(r) \/ DropPermit(r)
  /\ UNCHANGED <<map, lock, key, gcTodo>>

GiveUp(r) ==
  /\ Cancel(r)
  /\ UNCHANGED <<map, lock, key, gcTodo>>

Done(r) ==
  /\ Uncount(r)
  /\ key' = [key EXCEPT ![r] = Nobody]
  /\ UNCHANGED <<map, lock, gcTodo>>

(* gc(): lock a shard, ask each of its entries whether it is fresh, unlock.*)
(* retain() keeps the fresh ones.                                          *)
GcLock(s) ==
  /\ \A t \in Shards : lock[t] # "gc"
  /\ lock[s] = Nobody
  /\ lock' = [lock EXCEPT ![s] = "gc"]
  /\ gcTodo' = {k \in map : ShardOf[k] = s}
  /\ UNCHANGED <<bpVars, map, key>>

GcVisit(k) ==
  /\ k \in gcTodo
  /\ gcTodo' = gcTodo \ {k}
  /\ map' = IF inUse = 0 THEN map ELSE map \ {k}
  /\ UNCHANGED <<bpVars, lock, key>>

GcUnlock(s) ==
  /\ lock[s] = "gc" /\ gcTodo = {}
  /\ lock' = [lock EXCEPT ![s] = Nobody]
  /\ UNCHANGED <<bpVars, map, key, gcTodo>>

GetStep(r) ==
  LockShard(r) \/ Acquire(r) \/ GetReject(r) \/ Await(r) \/ GiveUp(r) \/ Done(r)

Gc == \/ \E s \in Shards : GcLock(s) \/ GcUnlock(s)
      \/ \E k \in Keys : GcVisit(k)

NextMap ==
  \/ \E r \in Requests : GetStep(r) \/ Call(r)
  \/ Gc

(* parking_lot hands a contended lock over in the end, and its holders run *)
(* straight to the unlock.  gc() is started by a timer that may never tick.*)
FairnessMap ==
  /\ \A r \in Requests : /\ SF_clVars(LockShard(r))
                         /\ WF_clVars(Acquire(r)) /\ WF_clVars(GetReject(r))
                         /\ WF_clVars(Await(r)) /\ WF_clVars(Done(r))
  /\ WF_clVars(\E k \in Keys : GcVisit(k))
  /\ WF_clVars(\E s \in Shards : GcUnlock(s))

SpecMapSafe == InitMap /\ [][NextMap]_clVars
SpecMap == SpecMapSafe /\ FairnessMap

-----------------------------------------------------------------------------
(* get() comes back, with a future or with a rejection, however the other  *)
(* calls and the sweeps are scheduled.                                     *)
GetReturns ==
  \A r \in Requests :
    (pc[r] = "out" /\ key[r] # Nobody)
      ~> (pc[r] \notin {"out", "over"} \/ key[r] = Nobody)

(* concurrency_limit.rs:18 and http/identify.rs:59: the limit is per key,  *)
(* so a requester is turned away only for its own requests.                *)
PerKeyLimit ==
  [][\A r \in Requests :
       pc[r] = "out" /\ pc'[r] = "over" =>
         Cardinality({q \in Counted : key[q] = key[r]}) >= HardLimit]_clVars
=============================================================================
