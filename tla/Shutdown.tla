------------------------------ MODULE Shutdown ------------------------------
(***************************************************************************)
(* abstraction/shutdown.rs: the ShutdownManager, the two signal loops that *)
(* call trigger(), the tasks add_handler() spawns, and the caller of       *)
(* wait().  Handlers are abstract: they end by themselves or some time     *)
(* after they are signalled (module HttpServer has the concrete one).      *)
(*                                                                         *)
(* Atomics are single steps; the tokio mutexes around the sender and the   *)
(* error map are held for one statement, so each use is one step; the      *)
(* read lock on the handlers is held from ReadHandlers to the end of the   *)
(* signalling loop and keeps add_handler() from pushing.                   *)
(***************************************************************************)
EXTENDS Integers, FiniteSets, SequencesExt

CONSTANTS
  Handlers,    \* the handlers that may be added
  Names,       \* what their name() may be
  NameOf,      \* and is: two handlers may well have the same
  Triggers,    \* the tasks that call trigger(): Ctrl-C and SIGTERM
  FORCED,      \* SHUTDOWN_LEVEL_FORCED; u32::MAX in the code
  MaxSignals   \* bound: how many signals arrive

LAST_WARNING == 2

ASSUME ShutdownAssumption ==
  /\ IsFiniteSet(Handlers)
  /\ NameOf \in [Handlers -> Names]
  /\ FORCED \in Nat /\ FORCED > LAST_WARNING
  /\ MaxSignals \in Nat

VARIABLES
  level,      \* current_level
  pending,    \* pending; the usize wraps where this is negative
  tx,         \* shutdown_tx: "armed", or who took it: "graceful", "forced"
  errors,     \* the error map: under each name the handler whose error it is
  handlers,   \* the registered handlers, in order
  task,       \* each handler's add_handler() call and its spawned task
  signals,    \* the levels each handler has been signalled with
  at,         \* program counter of each trigger task
  my,         \* its local variable level
  next,       \* index of the handler it signals next
  rounds,     \* signals received so far, by all of them
  waiter,     \* the caller of wait(): "waiting" or "returned"
  report,     \* the map wait() returned
  everForced, \* history: current_level has been FORCED
  faulty      \* history: the handlers whose wait() gave an error

managerVars == <<level, pending, tx, errors, handlers>>
trigVars == <<at, my, next, rounds, everForced>>
vars == <<level, pending, tx, errors, handlers, task, signals, at, my, next,
          rounds, waiter, report, everForced, faulty>>

Levels == 0..FORCED

(* "new" -> "adding" -> "running" -> "failed" or "ended" -> "last" or "gone"*)
TaskStates == {"new", "adding", "running", "failed", "ended", "last", "gone"}

(* Handlers between their fetch_add and their fetch_sub on pending.        *)
Undone == {h \in Handlers : task[h] \in {"adding", "running", "failed", "ended"}}

Readers == {t \in Triggers : at[t] = "signal"}

TypeOK ==
  /\ level \in Levels
  /\ pending \in Int /\ (pending >= 0 \/ everForced)
  /\ tx \in {"armed", "graceful", "forced"}
  /\ errors \in [Names -> SUBSET Handlers]
  /\ handlers \in Seq(Handlers)
  /\ task \in [Handlers -> TaskStates]
  /\ signals \in [Handlers -> SUBSET Levels]
  /\ at \in [Triggers -> {"idle", "bump", "store", "send", "self", "read", "signal", "dead"}]
  /\ my \in [Triggers -> Levels]
  /\ next \in [Triggers -> Nat]
  /\ rounds \in 0..MaxSignals
  /\ waiter \in {"waiting", "returned"}
  /\ report \in [Names -> SUBSET Handlers]
  /\ everForced \in BOOLEAN
  /\ faulty \subseteq Handlers

NoErrors == [n \in Names |-> {}]

Init ==
  /\ level = 0
  /\ pending = 1
  /\ tx = "armed"
  /\ errors = NoErrors
  /\ handlers = <<>>
  /\ task = [h \in Handlers |-> "new"]
  /\ signals = [h \in Handlers |-> {}]
  /\ at = [t \in Triggers |-> "idle"]
  /\ my = [t \in Triggers |-> 0]
  /\ next = [t \in Triggers |-> 0]
  /\ rounds = 0
  /\ waiter = "waiting"
  /\ report = NoErrors
  /\ everForced = FALSE
  /\ faulty = {}

-----------------------------------------------------------------------------
(* Faulty variants of the operators below; the runs use them to confirm    *)
(* that each property can fail.                                            *)

SuccUnwrapped(l) == l + 1

AddHandlerUncounted(h) ==
  /\ task[h] = "new"
  /\ task' = [task EXCEPT ![h] = "adding"]
  /\ UNCHANGED <<managerVars, signals, trigVars, waiter, report, faulty>>

DecrementBeforeError(h) ==
  /\ task[h] \in {"failed", "ended"}
  /\ pending' = pending - 1
  /\ task' = [task EXCEPT ![h] = IF pending = 1 THEN "last" ELSE "gone"]
  /\ UNCHANGED <<level, tx, errors, handlers, signals, trigVars, waiter, report, faulty>>

DecrementComparesNew(h) ==
  /\ task[h] = "ended"
  /\ pending' = pending - 1
  /\ task' = [task EXCEPT ![h] = IF pending = 2 THEN "last" ELSE "gone"]
  /\ UNCHANGED <<level, tx, errors, handlers, signals, trigVars, waiter, report, faulty>>

ForceStoreOnly(t) ==
  /\ at[t] = "store"
  /\ level' = FORCED
  /\ at' = [at EXCEPT ![t] = "idle"]
  /\ UNCHANGED <<pending, tx, errors, handlers, task, signals, my, next, rounds,
                 waiter, report, everForced, faulty>>

BumpEachSelf(t) ==
  /\ at[t] = "bump"
  /\ level' = level + 1
  /\ my' = [my EXCEPT ![t] = level + 1]
  /\ at' = [at EXCEPT ![t] = "self"]
  /\ UNCHANGED <<pending, tx, errors, handlers, task, signals, next, rounds,
                 waiter, report, everForced, faulty>>

(* fetch_add on an AtomicU32 wraps.                                        *)
Succ(l) == IF l = FORCED THEN 0 ELSE l + 1

(* done.lock().await.take().map(|tx| tx.send(()))                          *)
Send(who) == tx' = IF tx = "armed" THEN who ELSE tx

-----------------------------------------------------------------------------
(* add_handler()                                                           *)

AddHandler(h) ==
  /\ task[h] = "new"
  /\ pending' = pending + 1
  /\ task' = [task EXCEPT ![h] = "adding"]
  /\ UNCHANGED <<level, tx, errors, handlers, signals, trigVars, waiter, report, faulty>>

(* The write lock, the push and the spawn.                                 *)
PushHandler(h) ==
  /\ task[h] = "adding"
  /\ Readers = {}
  /\ handlers' = Append(handlers, h)
  /\ task' = [task EXCEPT ![h] = "running"]
  /\ UNCHANGED <<level, pending, tx, errors, signals, trigVars, waiter, report, faulty>>

(* The handler's wait() future resolves, with or without an error.         *)
HandlerEnds(h) ==
  /\ task[h] = "running"
  /\ \/ task' = [task EXCEPT ![h] = "ended"] /\ UNCHANGED faulty
     \/ task' = [task EXCEPT ![h] = "failed"] /\ faulty' = faulty \cup {h}
  /\ UNCHANGED <<managerVars, signals, trigVars, waiter, report>>

(* errors.insert(name, e): an error already there under the name is lost.  *)
RecordError(h) ==
  /\ task[h] = "failed"
  /\ errors' = [errors EXCEPT ![NameOf[h]] = {h}]
  /\ task' = [task EXCEPT ![h] = "ended"]
  /\ UNCHANGED <<level, pending, tx, handlers, signals, trigVars, waiter, report, faulty>>

Decrement(h) ==
  /\ task[h] = "ended"
  /\ pending' = pending - 1
  /\ task' = [task EXCEPT ![h] = IF pending = 1 THEN "last" ELSE "gone"]
  /\ UNCHANGED <<level, tx, errors, handlers, signals, trigVars, waiter, report, faulty>>

(* The last one tells the waiter.                                          *)
SendDone(h) ==
  /\ task[h] = "last"
  /\ Send("graceful")
  /\ task' = [task EXCEPT ![h] = "gone"]
  /\ UNCHANGED <<level, pending, errors, handlers, signals, trigVars, waiter, report, faulty>>

-----------------------------------------------------------------------------
(* trigger()                                                               *)

Goto(t, label) == at' = [at EXCEPT ![t] = label]

(* A signal arrives; compare_exchange(LAST_WARNING, FORCED).               *)
TryForce(t) ==
  /\ at[t] = "idle" /\ rounds < MaxSignals
  /\ rounds' = rounds + 1
  /\ IF level = LAST_WARNING
     THEN level' = FORCED /\ everForced' = TRUE /\ Goto(t, "store")
     ELSE UNCHANGED <<level, everForced>> /\ Goto(t, "bump")
  /\ UNCHANGED <<pending, tx, errors, handlers, task, signals, my, next, waiter, report, faulty>>

(* force_trigger(): the store, then the send.                              *)
ForceStore(t) ==
  /\ at[t] = "store"
  /\ level' = FORCED
  /\ Goto(t, "send")
  /\ UNCHANGED <<pending, tx, errors, handlers, task, signals, my, next, rounds,
                 waiter, report, everForced, faulty>>

ForceSend(t) ==
  /\ at[t] = "send"
  /\ Send("forced")
  /\ Goto(t, "idle")
  /\ UNCHANGED <<level, pending, errors, handlers, task, signals, my, next, rounds,
                 waiter, report, everForced, faulty>>

(* fetch_add(1) + 1: after FORCED the sum overflows, which wraps in a      *)
(* release build and kills the task in a debug build.                      *)
Bump(t) ==
  /\ at[t] = "bump"
  /\ level' = Succ(level)
  /\ everForced' = (everForced \/ level' = FORCED)
  /\ \/ /\ my' = [my EXCEPT ![t] = Succ(level)]
        /\ Goto(t, IF level' = 1 THEN "self" ELSE "read")
     \/ level = FORCED /\ Goto(t, "dead") /\ UNCHANGED my
  /\ UNCHANGED <<pending, tx, errors, handlers, task, signals, next, rounds,
                 waiter, report, faulty>>

(* The first trigger takes back the manager's own count.                   *)
SelfTrigger(t) ==
  /\ at[t] = "self"
  /\ pending' = pending - 1
  /\ Goto(t, "read")
  /\ UNCHANGED <<level, tx, errors, handlers, task, signals, my, next, rounds,
                 waiter, report, everForced, faulty>>

ReadHandlers(t) ==
  /\ at[t] = "read"
  /\ next' = [next EXCEPT ![t] = 1]
  /\ Goto(t, "signal")
  /\ UNCHANGED <<managerVars, task, signals, my, rounds, waiter, report, everForced, faulty>>

(* handler.signal(level).await for each handler, then the lock is dropped. *)
Signal(t) ==
  /\ at[t] = "signal" /\ next[t] <= Len(handlers)
  /\ signals' = [signals EXCEPT ![handlers[next[t]]] = @ \cup {my[t]}]
  /\ next' = [next EXCEPT ![t] = @ + 1]
  /\ UNCHANGED <<managerVars, task, at, my, rounds, waiter, report, everForced, faulty>>

TriggerReturns(t) ==
  /\ at[t] = "signal" /\ next[t] > Len(handlers)
  /\ Goto(t, "idle")
  /\ my' = [my EXCEPT ![t] = 0]
  /\ next' = [next EXCEPT ![t] = 0]
  /\ UNCHANGED <<managerVars, task, signals, rounds, waiter, report, everForced, faulty>>

-----------------------------------------------------------------------------
(* wait(): the receiver resolves, the errors are drained.                  *)
WaitReturns ==
  /\ waiter = "waiting" /\ tx # "armed"
  /\ waiter' = "returned"
  /\ report' = errors
  /\ errors' = NoErrors
  /\ UNCHANGED <<level, pending, tx, handlers, task, signals, trigVars, faulty>>

TaskStep(h) == PushHandler(h) \/ RecordError(h) \/ Decrement(h) \/ SendDone(h)
TriggerStep(t) ==
  \/ ForceStore(t) \/ ForceSend(t) \/ Bump(t) \/ SelfTrigger(t)
  \/ ReadHandlers(t) \/ Signal(t) \/ TriggerReturns(t)

Next ==
  \/ \E h \in Handlers : AddHandler(h) \/ HandlerEnds(h) \/ TaskStep(h)
  \/ \E t \in Triggers : TryForce(t) \/ TriggerStep(t)
  \/ WaitReturns

(* Spawned tasks run; the write lock is granted in the end; a handler that *)
(* has been signalled ends, which is what signal() asks of it.  Nothing is *)
(* assumed of signals arriving or of handlers nobody signalled.            *)
Fairness ==
  /\ \A h \in Handlers :
       /\ WF_vars(TaskStep(h))
       /\ WF_vars(signals[h] # {} /\ HandlerEnds(h))
  /\ \A t \in Triggers : WF_vars(TriggerStep(t))
  /\ WF_vars(WaitReturns)

SafeSpec == Init /\ [][Next]_vars
Spec == SafeSpec /\ Fairness

-----------------------------------------------------------------------------
TriggersStarted == level > 0 /\ \A t \in Triggers : at[t] # "self"

(* pending is the manager's own count, taken back by the first trigger and *)
(* by no other however the triggers race, plus the handlers that have not  *)
(* confirmed.  Until a shutdown is forced: a trigger after that starts the *)
(* levels again and takes the manager's count back twice.                  *)
PendingExact ==
  ~everForced =>
    pending = (IF TriggersStarted THEN 0 ELSE 1) + Cardinality(Undone)

(* shutdown.rs:126: the task that finds itself last is last: a shutdown    *)
(* has been asked for and no handler, registered or on its way, is left.   *)
LastIsLast ==
  [][\A h \in Handlers : task'[h] = "last" /\ task[h] # "last" /\ ~everForced =>
       TriggersStarted /\ Undone' = {}]_vars

(* wait() never answers Ok for a handler that failed: each task files its  *)
(* error before it lowers pending, so there is one under the handler's     *)
(* name, its own or that of another handler of the name; and nothing is    *)
(* reported but what a handler of the name ended with.  Names are for      *)
(* tracing and logging (:31) and need not differ; of two errors under one  *)
(* name, that which is filed later stays and the other is lost.            *)
ErrorsReported ==
  [][waiter = "waiting" /\ waiter' = "returned" /\ tx = "graceful" =>
       /\ \A h \in faulty : task[h] \in {"last", "gone"} => report'[NameOf[h]] # {}
       /\ \A n \in Names : report'[n] \subseteq {h \in faulty : NameOf[h] = n}]_vars

(* Once a shutdown is asked for while some handler is unfinished and every *)
(* unfinished handler has been told, wait() returns, unless a handler that *)
(* was added after the signals (and hence never told) is in the way.       *)
GracefulCompletes ==
  /\ TriggersStarted /\ ~everForced
  /\ Undone # {} /\ \A h \in Undone : signals[h] # {}
  ~> waiter = "returned" \/ \E h \in Undone : signals[h] = {}

(* A forced shutdown returns from wait() whatever the handlers do.         *)
ForcedReturns == (\E t \in Triggers : at[t] = "store") ~> waiter = "returned"

(* shutdown.rs:203 and :209: wait() blocks until all services have shut    *)
(* down, so it does not block after that.                                  *)
WaitCompletes ==
  level > 0 /\ (\A h \in Handlers : task[h] = "gone") ~> waiter = "returned"
=============================================================================
