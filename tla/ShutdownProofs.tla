--------------------------- MODULE ShutdownProofs ---------------------------
(***************************************************************************)
(* Proofs about Shutdown.tla and HttpServer.tla: how the shutdown manager  *)
(* counts, what it reports, and that the HTTP server is a handler like any *)
(* other, for every number of handlers, signal tasks, signals and levels.  *)
(*                                                                         *)
(* Everything that is said of the count stops at a forced shutdown: a      *)
(* trigger after it starts the levels again.  Until then the level only    *)
(* grows, so it leaves 0 once, and one trigger at most is on its way to    *)
(* take the manager's own count back.  That is the strengthening           *)
(* PendingExact needs; the errors have an argument of their own.           *)
(***************************************************************************)
EXTENDS HttpServer, FiniteSetTheorems, TLAPS

(* Whoever forces has raised everForced first, and so has FORCED itself.   *)
Forcing ==
  level = FORCED \/ (\E t \in Triggers : at[t] \in {"store", "send"}) => everForced

(* The trigger that moved the level off 0, and no other, is at "self".     *)
SelfOnce ==
  ~everForced =>
    /\ \A t \in Triggers : at[t] = "self" => level > 0
    /\ \A t, u \in Triggers : at[t] = "self" /\ at[u] = "self" => t = u

(* What a trigger signals is a level the manager has been at.              *)
MyReached ==
  ~everForced =>
    \A t \in Triggers : at[t] \in {"self", "read", "signal"} => my[t] \in 1..level

Indexed == \A t \in Triggers : at[t] = "signal" => next[t] >= 1

(* An error is filed before its task is past "failed", under the handler's *)
(* name; another of that name may replace it, and nothing else.            *)
Filed ==
  /\ \A h \in faulty : task[h] \notin {"new", "adding", "running"}
  /\ \A h \in Handlers : task[h] = "failed" => h \in faulty
  /\ \A n \in Names : errors[n] \subseteq {h \in faulty : NameOf[h] = n}
  /\ waiter = "waiting" =>
       \A h \in faulty : task[h] \in {"ended", "last", "gone"} => errors[NameOf[h]] # {}

Inv == TypeOK /\ PendingExact /\ Forcing /\ SelfOnce /\ MyReached /\ Indexed /\ Filed

-----------------------------------------------------------------------------
(* Undone is finite, so pending can be compared with its size.             *)
LEMMA UndoneFinite == IsFiniteSet(Undone) /\ Cardinality(Undone) \in Nat
BY ShutdownAssumption, FS_Subset, FS_CardinalityType DEF Undone

(* A handler enters the count with its fetch_add ...                       *)
LEMMA UndoneGrows ==
  ASSUME TypeOK, NEW h \in Handlers, task[h] \notin {"adding", "running", "failed", "ended"},
         NEW s \in {"adding", "running", "failed", "ended"},
         task' = [task EXCEPT ![h] = s]
  PROVE  /\ Undone' = Undone \cup {h}
         /\ Cardinality(Undone') = Cardinality(Undone) + 1
<1>1. Undone' = Undone \cup {h} /\ h \notin Undone
  BY DEF Undone, TypeOK
<1> QED  BY <1>1, UndoneFinite, FS_AddElement

(* ... and leaves it with its fetch_sub.                                   *)
LEMMA UndoneShrinks ==
  ASSUME TypeOK, NEW h \in Handlers, task[h] \in {"adding", "running", "failed", "ended"},
         NEW s \in {"last", "gone"},
         task' = [task EXCEPT ![h] = s]
  PROVE  /\ Undone' = Undone \ {h} /\ h \in Undone
         /\ Cardinality(Undone') = Cardinality(Undone) - 1
<1>1. Undone' = Undone \ {h} /\ h \in Undone
  BY DEF Undone, TypeOK
<1> QED  BY <1>1, UndoneFinite, FS_RemoveElement

(* A step of a task inside the count leaves it alone.                      *)
LEMMA UndoneKept ==
  ASSUME TypeOK, NEW h \in Handlers,
         NEW s \in TaskStates,
         task[h] \in {"adding", "running", "failed", "ended"}
           <=> s \in {"adding", "running", "failed", "ended"},
         task' = [task EXCEPT ![h] = s]
  PROVE  Undone' = Undone
BY DEF Undone, TypeOK

-----------------------------------------------------------------------------
(* Nothing is pending at first.                                            *)
LEMMA InitInv == Init => Inv
<1> SUFFICES ASSUME Init PROVE Inv
  OBVIOUS
<1>1. Undone = {}
  BY DEF Init, Undone
<1>2. Cardinality(Undone) = 0
  BY <1>1, FS_EmptySet
<1>3. <<>> \in Seq(Handlers)
  OBVIOUS
<1>4. TypeOK
  <2>1. 0 \in Levels /\ 0 \in 0..MaxSignals
    BY ShutdownAssumption DEF Levels, LAST_WARNING
  <2>2. handlers \in Seq(Handlers)
    BY <1>3 DEF Init
  <2>3. signals \in [Handlers -> SUBSET Levels] /\ task \in [Handlers -> TaskStates]
    BY DEF Init, TaskStates
  <2>4. my \in [Triggers -> Levels] /\ next \in [Triggers -> Nat]
    BY <2>1 DEF Init
  <2>5. at \in [Triggers -> {"idle", "bump", "store", "send", "self", "read", "signal", "dead"}]
    BY DEF Init
  <2>6. everForced \in BOOLEAN
    BY DEF Init
  <2>7. pending \in Int /\ pending >= 0
    BY DEF Init
  <2>8. /\ errors \in [Names -> SUBSET Handlers] /\ report \in [Names -> SUBSET Handlers]
        /\ faulty \subseteq Handlers
    BY DEF Init, NoErrors
  <2>9. level \in Levels /\ rounds \in 0..MaxSignals
    BY <2>1 DEF Init
  <2>10. tx \in {"armed", "graceful", "forced"} /\ waiter \in {"waiting", "returned"}
    BY DEF Init
  <2> QED  BY <2>2, <2>3, <2>4, <2>5, <2>6, <2>7, <2>8, <2>9, <2>10 DEF TypeOK
<1>5. Filed
  <2>1. faulty = {} /\ \A h \in Handlers : task[h] # "failed"
    BY DEF Init
  <2>2. \A n \in Names : errors[n] = {}
    BY DEF Init, NoErrors
  <2> QED  BY <2>1, <2>2 DEF Filed
<1> QED
  BY <1>2, <1>4, <1>5, ShutdownAssumption
  DEF Init, Inv, PendingExact, TriggersStarted, Forcing, SelfOnce, MyReached, Indexed,
      LAST_WARNING

-----------------------------------------------------------------------------
(* One lemma per step.  The manager's side: add_handler() and its tasks.   *)

(* fetch_add(1) and the spawn that is to come.                             *)
LEMMA AddHandlerInv ==
  ASSUME Inv, NEW h \in Handlers, AddHandler(h) PROVE Inv'
<1>1. TypeOK'
  BY DEF AddHandler, managerVars, trigVars, Inv, TypeOK, TaskStates
<1>2. PendingExact'
  <2>1. Cardinality(Undone') = Cardinality(Undone) + 1
    BY UndoneGrows DEF AddHandler, Inv
  <2>2. TriggersStarted' <=> TriggersStarted
    BY DEF AddHandler, trigVars, TriggersStarted
  <2> QED  BY <2>1, <2>2, UndoneFinite DEF AddHandler, trigVars, Inv, TypeOK, PendingExact
<1>3. (Forcing /\ SelfOnce /\ MyReached /\ Indexed)'
  BY DEF AddHandler, trigVars, Inv, Forcing, SelfOnce, MyReached, Indexed
<1>4. Filed'
  BY DEF AddHandler, Inv, TypeOK, Filed
<1> QED  BY <1>1, <1>2, <1>3, <1>4 DEF Inv

(* The push and the spawn.                                                 *)
LEMMA PushHandlerInv ==
  ASSUME Inv, NEW h \in Handlers, PushHandler(h) PROVE Inv'
<1>1. TypeOK'
  BY DEF PushHandler, trigVars, Inv, TypeOK, TaskStates
<1>2. Undone' = Undone
  BY UndoneKept DEF PushHandler, Inv, TaskStates
<1>3. PendingExact'
  BY <1>2 DEF PushHandler, trigVars, Inv, PendingExact, TriggersStarted
<1>4. (Forcing /\ SelfOnce /\ MyReached /\ Indexed)'
  BY DEF PushHandler, trigVars, Inv, Forcing, SelfOnce, MyReached, Indexed
<1>5. Filed'
  BY DEF PushHandler, Inv, TypeOK, Filed
<1> QED  BY <1>1, <1>3, <1>4, <1>5 DEF Inv

(* wait() of a handler resolves.                                           *)
LEMMA HandlerEndsInv ==
  ASSUME Inv, NEW h \in Handlers, HandlerEnds(h) PROVE Inv'
<1>1. TypeOK'
  BY DEF HandlerEnds, managerVars, trigVars, Inv, TypeOK, TaskStates
<1>2. Undone' = Undone
  BY UndoneKept DEF HandlerEnds, Inv, TaskStates
<1>3. PendingExact'
  BY <1>2 DEF HandlerEnds, managerVars, trigVars, Inv, PendingExact, TriggersStarted
<1>4. (Forcing /\ SelfOnce /\ MyReached /\ Indexed)'
  BY DEF HandlerEnds, managerVars, trigVars, Inv, Forcing, SelfOnce, MyReached, Indexed
<1>5. Filed'
  <2>1. UNCHANGED <<errors, waiter>> /\ faulty \subseteq faulty' /\ task[h] = "running"
    BY DEF HandlerEnds, managerVars
  <2>2. \A g \in Handlers : g # h => task'[g] = task[g] /\ (g \in faulty' <=> g \in faulty)
    BY DEF HandlerEnds, Inv, TypeOK
  <2>3. \/ task'[h] = "ended" /\ faulty' = faulty
        \/ task'[h] = "failed" /\ h \in faulty'
    BY DEF HandlerEnds, Inv, TypeOK
  <2>4. faulty' \subseteq Handlers
    BY <1>1 DEF TypeOK
  <2>5. h \notin faulty
    BY <2>1 DEF Inv, Filed
  <2>6. \A n \in Names : errors'[n] \subseteq {g \in faulty' : NameOf[g] = n}
    BY <2>1 DEF Inv, Filed
  <2>7. \A g \in Handlers : task'[g] = "failed" => g \in faulty'
    BY <2>2, <2>3 DEF Inv, Filed
  <2>8. \A g \in faulty' : task'[g] \notin {"new", "adding", "running"}
    BY <2>2, <2>3, <2>4, <2>5 DEF Inv, Filed
  <2>9. waiter' = "waiting" =>
          \A g \in faulty' : task'[g] \in {"ended", "last", "gone"} => errors'[NameOf[g]] # {}
    BY <2>1, <2>2, <2>3, <2>4, <2>5 DEF Inv, Filed
  <2> QED  BY <2>6, <2>7, <2>8, <2>9 DEF Filed
<1> QED  BY <1>1, <1>3, <1>4, <1>5 DEF Inv

(* The error goes into the map.                                            *)
LEMMA RecordErrorInv ==
  ASSUME Inv, NEW h \in Handlers, RecordError(h) PROVE Inv'
<1>1. TypeOK'
  BY DEF RecordError, trigVars, Inv, TypeOK, TaskStates
<1>2. Undone' = Undone
  BY UndoneKept DEF RecordError, Inv, TaskStates
<1>3. PendingExact'
  BY <1>2 DEF RecordError, trigVars, Inv, PendingExact, TriggersStarted
<1>4. (Forcing /\ SelfOnce /\ MyReached /\ Indexed)'
  BY DEF RecordError, trigVars, Inv, Forcing, SelfOnce, MyReached, Indexed
<1>5. Filed'
  <2>1. /\ UNCHANGED <<faulty, waiter>> /\ faulty \subseteq Handlers
        /\ h \in faulty /\ NameOf[h] \in Names
    BY ShutdownAssumption DEF RecordError, Inv, TypeOK, Filed
  <2>2. \A n \in Names : errors'[n] = IF n = NameOf[h] THEN {h} ELSE errors[n]
    BY DEF RecordError, Inv, TypeOK
  <2>3. \A g \in Handlers : task'[g] = IF g = h THEN "ended" ELSE task[g]
    BY DEF RecordError, Inv, TypeOK
  <2>4. \A g \in Handlers : NameOf[g] \in Names
    BY ShutdownAssumption
  <2>5. \A n \in Names : errors'[n] \subseteq {g \in faulty : NameOf[g] = n}
    BY <2>1, <2>2 DEF Inv, Filed
  <2>6. waiter = "waiting" =>
          \A g \in faulty : task'[g] \in {"ended", "last", "gone"} => errors'[NameOf[g]] # {}
    BY <2>1, <2>2, <2>3, <2>4 DEF Inv, Filed
  <2> QED  BY <2>1, <2>3, <2>5, <2>6 DEF Inv, Filed
<1> QED  BY <1>1, <1>3, <1>4, <1>5 DEF Inv

(* What a task knows that finds the count at 1 before its own fetch_sub.   *)
LEMMA DecrementFacts ==
  ASSUME Inv, NEW h \in Handlers, Decrement(h)
  PROVE  /\ Undone' = Undone \ {h} /\ h \in Undone
         /\ Cardinality(Undone') = Cardinality(Undone) - 1
         /\ task'[h] \in {"last", "gone"}
         /\ ~everForced /\ task'[h] = "last" => TriggersStarted /\ Undone' = {}
<1> DEFINE s == IF pending = 1 THEN "last" ELSE "gone"
<1>1. task' = [task EXCEPT ![h] = s] /\ s \in {"last", "gone"} /\ task[h] = "ended"
  BY DEF Decrement
<1>2. task'[h] = s
  BY <1>1 DEF Inv, TypeOK
<1> HIDE DEF s
<1>3. /\ Undone' = Undone \ {h} /\ h \in Undone
      /\ Cardinality(Undone') = Cardinality(Undone) - 1
  BY <1>1, UndoneShrinks DEF Inv
<1>4. ASSUME ~everForced, s = "last" PROVE TriggersStarted /\ Undone' = {}
  <2>1. pending = 1
    BY <1>4 DEF s
  <2>2. IsFiniteSet(Undone') /\ Cardinality(Undone') \in Nat
    BY <1>3, UndoneFinite, FS_Subset, FS_CardinalityType
  <2>3. TriggersStarted /\ Cardinality(Undone') = 0
    BY <1>3, <1>4, <2>1, <2>2, UndoneFinite DEF Inv, PendingExact
  <2> QED  BY <2>2, <2>3, FS_EmptySet
<1> QED  BY <1>1, <1>2, <1>3, <1>4

(* fetch_sub(1).                                                           *)
LEMMA DecrementInv ==
  ASSUME Inv, NEW h \in Handlers, Decrement(h) PROVE Inv'
<1>1. PendingExact'
  <2>1. TriggersStarted' <=> TriggersStarted
    BY DEF Decrement, trigVars, TriggersStarted
  <2>2. Cardinality(Undone') = Cardinality(Undone) - 1
    BY DecrementFacts
  <2> QED  BY <2>1, <2>2, UndoneFinite DEF Decrement, trigVars, Inv, TypeOK, PendingExact
<1>2. pending' >= 0 \/ everForced'
  <2>1. IsFiniteSet(Undone') /\ Cardinality(Undone') \in Nat
    BY DecrementFacts, UndoneFinite, FS_Subset, FS_CardinalityType
  <2> QED  BY <1>1, <2>1 DEF PendingExact
<1>3. TypeOK'
  BY <1>2 DEF Decrement, trigVars, Inv, TypeOK, TaskStates
<1>4. (Forcing /\ SelfOnce /\ MyReached /\ Indexed)'
  BY DEF Decrement, trigVars, Inv, Forcing, SelfOnce, MyReached, Indexed
<1>5. Filed'
  BY DEF Decrement, Inv, TypeOK, Filed
<1> QED  BY <1>1, <1>3, <1>4, <1>5 DEF Inv

(* The last task wakes wait().                                             *)
LEMMA SendDoneInv ==
  ASSUME Inv, NEW h \in Handlers, SendDone(h) PROVE Inv'
<1>1. TypeOK'
  BY DEF SendDone, Send, trigVars, Inv, TypeOK, TaskStates
<1>2. Undone' = Undone
  BY UndoneKept DEF SendDone, Inv, TaskStates
<1>3. PendingExact'
  BY <1>2 DEF SendDone, trigVars, Inv, PendingExact, TriggersStarted
<1>4. (Forcing /\ SelfOnce /\ MyReached /\ Indexed)'
  BY DEF SendDone, trigVars, Inv, Forcing, SelfOnce, MyReached, Indexed
<1>5. Filed'
  BY DEF SendDone, Inv, TypeOK, Filed
<1> QED  BY <1>1, <1>3, <1>4, <1>5 DEF Inv

(* wait() drains the errors.                                               *)
LEMMA WaitReturnsInv == ASSUME Inv, WaitReturns PROVE Inv'
<1>1. TypeOK' /\ Undone' = Undone
  <2>1. errors' \in [Names -> SUBSET Handlers] /\ report' \in [Names -> SUBSET Handlers]
    BY DEF WaitReturns, NoErrors, Inv, TypeOK
  <2> QED  BY <2>1 DEF WaitReturns, trigVars, Inv, TypeOK, Undone
<1>2. PendingExact'
  BY <1>1 DEF WaitReturns, trigVars, Inv, PendingExact, TriggersStarted
<1>3. (Forcing /\ SelfOnce /\ MyReached /\ Indexed)'
  BY DEF WaitReturns, trigVars, Inv, Forcing, SelfOnce, MyReached, Indexed
<1>4. Filed'
  <2>1. \A n \in Names : errors'[n] = {}
    BY DEF WaitReturns, NoErrors
  <2> QED  BY <2>1 DEF WaitReturns, Inv, TypeOK, Filed
<1> QED  BY <1>1, <1>2, <1>3, <1>4 DEF Inv

-----------------------------------------------------------------------------
(* The signal tasks: trigger(), step by step.                              *)

(* A signal arrives and finds LAST_WARNING or does not.                    *)
LEMMA TryForceInv ==
  ASSUME Inv, NEW t \in Triggers, TryForce(t) PROVE Inv'
<1>1. Undone' = Undone
  BY DEF TryForce, Undone
<1>2. TypeOK'
  <2>1. level' \in Levels /\ rounds' \in 0..MaxSignals
    BY ShutdownAssumption DEF TryForce, Inv, TypeOK, Levels
  <2>2. everForced' \in BOOLEAN /\ (everForced => everForced')
    BY DEF TryForce, Inv, TypeOK
  <2>3. at' \in [Triggers -> {"idle", "bump", "store", "send", "self", "read", "signal", "dead"}]
    BY DEF TryForce, Goto, Inv, TypeOK
  <2> QED  BY <2>1, <2>2, <2>3 DEF TryForce, Inv, TypeOK
<1>3. PendingExact'
  BY <1>1, ShutdownAssumption
  DEF TryForce, Goto, Inv, TypeOK, PendingExact, TriggersStarted, LAST_WARNING
<1>4. (Forcing /\ SelfOnce)'
  BY DEF TryForce, Goto, Inv, TypeOK, Forcing, SelfOnce
<1>5. (MyReached /\ Indexed /\ Filed)'
  BY DEF TryForce, Goto, Inv, TypeOK, MyReached, Indexed, Filed
<1> QED  BY <1>2, <1>3, <1>4, <1>5 DEF Inv

(* force_trigger() stores FORCED.                                          *)
LEMMA ForceStoreInv ==
  ASSUME Inv, NEW t \in Triggers, ForceStore(t) PROVE Inv'
<1>1. everForced /\ everForced'
  BY DEF ForceStore, Inv, Forcing
<1>2. TypeOK'
  BY ShutdownAssumption DEF ForceStore, Goto, Inv, TypeOK, Levels
<1>3. (Indexed /\ Filed)'
  BY DEF ForceStore, Goto, Inv, TypeOK, Indexed, Filed
<1> QED  BY <1>1, <1>2, <1>3 DEF Inv, PendingExact, Forcing, SelfOnce, MyReached

(* ... and wakes wait().                                                   *)
LEMMA ForceSendInv ==
  ASSUME Inv, NEW t \in Triggers, ForceSend(t) PROVE Inv'
<1>1. everForced /\ everForced'
  BY DEF ForceSend, Inv, Forcing
<1>2. TypeOK'
  BY DEF ForceSend, Send, Goto, Inv, TypeOK
<1>3. (Indexed /\ Filed)'
  BY DEF ForceSend, Goto, Inv, TypeOK, Indexed, Filed
<1> QED  BY <1>1, <1>2, <1>3 DEF Inv, PendingExact, Forcing, SelfOnce, MyReached

(* fetch_add(1) + 1: while nothing has been forced it is at "self" that    *)
(* the level leaves 0, and nowhere else.                                   *)
LEMMA BumpInv ==
  ASSUME Inv, NEW t \in Triggers, Bump(t) PROVE Inv'
<1>1. Undone' = Undone
  BY DEF Bump, Undone
<1>2. level \in Nat /\ level <= FORCED /\ FORCED \in Nat /\ FORCED > 2
  BY ShutdownAssumption DEF Inv, TypeOK, Levels, LAST_WARNING
<1>3. /\ level' = IF level = FORCED THEN 0 ELSE level + 1
      /\ level' \in Levels
  BY <1>2 DEF Bump, Succ, Levels
<1>4. TypeOK'
  <2>1. everForced' \in BOOLEAN /\ (everForced => everForced')
    BY DEF Bump, Inv, TypeOK
  <2>2. my' \in [Triggers -> Levels]
    <3>1. Succ(level) \in Levels
      BY <1>2 DEF Succ, Levels
    <3> QED  BY <3>1 DEF Bump, Inv, TypeOK
  <2>3. at' \in [Triggers -> {"idle", "bump", "store", "send", "self", "read", "signal", "dead"}]
    BY DEF Bump, Goto, Inv, TypeOK
  <2> QED  BY <1>3, <2>1, <2>2, <2>3 DEF Bump, Inv, TypeOK
<1>5. ~everForced' => ~everForced /\ level # FORCED /\ level' = level + 1
  BY <1>3 DEF Bump, Inv, Forcing
<1>6. PendingExact'
  <2> SUFFICES ASSUME ~everForced'
               PROVE  pending' = (IF TriggersStarted' THEN 0 ELSE 1) + Cardinality(Undone')
    BY DEF PendingExact
  <2>1. pending' = pending /\ pending = (IF TriggersStarted THEN 0 ELSE 1) + Cardinality(Undone)
    BY <1>5 DEF Bump, Inv, PendingExact
  <2>2. at' = [at EXCEPT ![t] = IF level' = 1 THEN "self" ELSE "read"]
    BY <1>5 DEF Bump, Goto
  <2>3. level' > 0 /\ (level' = 1 <=> level = 0)
    BY <1>2, <1>5
  <2>4. CASE level = 0
    BY <1>1, <2>1, <2>2, <2>3, <2>4 DEF TriggersStarted, Inv, TypeOK
  <2>5. CASE level # 0
    <3>1. at[t] = "bump" /\ at' = [at EXCEPT ![t] = "read"]
      BY <2>2, <2>3, <2>5 DEF Bump
    <3>2. TriggersStarted' <=> TriggersStarted
      BY <1>2, <2>3, <2>5, <3>1 DEF TriggersStarted, Inv, TypeOK
    <3> QED  BY <1>1, <2>1, <3>2
  <2> QED  BY <2>4, <2>5
<1>7. SelfOnce'
  <2> SUFFICES ASSUME ~everForced' PROVE SelfOnce'
    BY DEF SelfOnce
  <2>1. at' = [at EXCEPT ![t] = IF level' = 1 THEN "self" ELSE "read"]
    BY <1>5 DEF Bump, Goto
  <2>2. level' > 0 /\ (level' = 1 <=> level = 0)
    BY <1>2, <1>5
  <2>3. level = 0 => \A u \in Triggers : at[u] # "self"
    BY <1>5 DEF Inv, SelfOnce
  <2> QED  BY <1>5, <2>1, <2>2, <2>3 DEF SelfOnce, Inv, TypeOK
<1>8. Forcing'
  BY <1>3 DEF Bump, Goto, Inv, TypeOK, Forcing
<1>9. MyReached'
  <2> SUFFICES ASSUME ~everForced', NEW u \in Triggers,
                      at'[u] \in {"self", "read", "signal"}
               PROVE  my'[u] \in 1..level'
    BY DEF MyReached
  <2>1. /\ my' = [my EXCEPT ![t] = Succ(level)] /\ Succ(level) = level'
        /\ level' = level + 1
        /\ at' = [at EXCEPT ![t] = IF level' = 1 THEN "self" ELSE "read"]
    BY <1>5 DEF Bump, Goto
  <2>2. CASE u = t
    BY <1>2, <2>1, <2>2 DEF Inv, TypeOK
  <2>3. CASE u # t
    <3>1. my'[u] = my[u] /\ at'[u] = at[u]
      BY <2>1, <2>3 DEF Inv, TypeOK
    <3>2. my[u] \in 1..level
      BY <1>5, <3>1 DEF Inv, MyReached
    <3> QED  BY <1>2, <2>1, <3>1, <3>2
  <2> QED  BY <2>2, <2>3
<1>10. (Indexed /\ Filed)'
  BY DEF Bump, Goto, Inv, TypeOK, Indexed, Filed
<1> QED  BY <1>4, <1>6, <1>7, <1>8, <1>9, <1>10 DEF Inv

(* fetch_sub(1) of the manager's own count.                                *)
LEMMA SelfTriggerInv ==
  ASSUME Inv, NEW t \in Triggers, SelfTrigger(t) PROVE Inv'
<1>1. Undone' = Undone
  BY DEF SelfTrigger, Undone
<1>2. at' = [at EXCEPT ![t] = "read"] /\ at[t] = "self"
  BY DEF SelfTrigger, Goto
<1>3. ~everForced => ~TriggersStarted /\ TriggersStarted'
  BY <1>2 DEF SelfTrigger, TriggersStarted, SelfOnce, Inv, TypeOK
<1>4. PendingExact'
  BY <1>1, <1>3, UndoneFinite DEF SelfTrigger, Inv, TypeOK, PendingExact
<1>5. pending' >= 0 \/ everForced'
  BY <1>1, <1>4, UndoneFinite DEF PendingExact
<1>6. TypeOK'
  BY <1>5 DEF SelfTrigger, Goto, Inv, TypeOK
<1>7. (Forcing /\ SelfOnce)'
  BY DEF SelfTrigger, Goto, Inv, TypeOK, Forcing, SelfOnce
<1>8. (MyReached /\ Indexed /\ Filed)'
  BY DEF SelfTrigger, Goto, Inv, TypeOK, MyReached, Indexed, Filed
<1> QED  BY <1>4, <1>6, <1>7, <1>8 DEF Inv

(* The read lock on the handlers.                                          *)
LEMMA ReadHandlersInv ==
  ASSUME Inv, NEW t \in Triggers, ReadHandlers(t) PROVE Inv'
<1>1. Undone' = Undone
  BY DEF ReadHandlers, Undone
<1>2. TypeOK'
  BY DEF ReadHandlers, managerVars, Goto, Inv, TypeOK
<1>3. TriggersStarted' <=> TriggersStarted
  BY DEF ReadHandlers, managerVars, Goto, TriggersStarted, Inv, TypeOK
<1>4. PendingExact'
  BY <1>1, <1>3 DEF ReadHandlers, managerVars, Inv, PendingExact
<1>5. (Forcing /\ SelfOnce)'
  BY DEF ReadHandlers, managerVars, Goto, Inv, TypeOK, Forcing, SelfOnce
<1>6. (MyReached /\ Indexed /\ Filed)'
  BY DEF ReadHandlers, managerVars, Goto, Inv, TypeOK, MyReached, Indexed, Filed
<1> QED  BY <1>2, <1>4, <1>5, <1>6 DEF Inv

(* One handler is told.                                                    *)
LEMMA SignalInv ==
  ASSUME Inv, NEW t \in Triggers, Signal(t) PROVE Inv'
<1>1. Undone' = Undone
  BY DEF Signal, Undone
<1>2. handlers[next[t]] \in Handlers /\ my[t] \in Levels
  <2>1. next[t] \in 1..Len(handlers)
    BY DEF Signal, Inv, Indexed, TypeOK
  <2> QED  BY <2>1 DEF Inv, TypeOK
<1>3. signals' \in [Handlers -> SUBSET Levels]
  BY <1>2 DEF Signal, Inv, TypeOK
<1>4. next' \in [Triggers -> Nat] /\ Indexed'
  BY DEF Signal, Inv, TypeOK, Indexed
<1>5. TypeOK'
  BY <1>3, <1>4 DEF Signal, managerVars, Inv, TypeOK
<1>6. PendingExact'
  BY <1>1 DEF Signal, managerVars, Inv, PendingExact, TriggersStarted
<1>7. (Forcing /\ SelfOnce)'
  BY DEF Signal, managerVars, Inv, Forcing, SelfOnce
<1>8. (MyReached /\ Filed)'
  BY DEF Signal, managerVars, Inv, MyReached, Filed
<1> QED  BY <1>4, <1>5, <1>6, <1>7, <1>8 DEF Inv

(* The read lock is dropped.                                               *)
LEMMA TriggerReturnsInv ==
  ASSUME Inv, NEW t \in Triggers, TriggerReturns(t) PROVE Inv'
<1>1. Undone' = Undone
  BY DEF TriggerReturns, Undone
<1>2. 0 \in Levels
  BY ShutdownAssumption DEF Levels
<1>3. TypeOK'
  BY <1>2 DEF TriggerReturns, managerVars, Goto, Inv, TypeOK
<1>4. TriggersStarted' <=> TriggersStarted
  BY DEF TriggerReturns, managerVars, Goto, TriggersStarted, Inv, TypeOK
<1>5. PendingExact'
  BY <1>1, <1>4 DEF TriggerReturns, managerVars, Inv, PendingExact
<1>6. (Forcing /\ SelfOnce)'
  BY DEF TriggerReturns, managerVars, Goto, Inv, TypeOK, Forcing, SelfOnce
<1>7. (MyReached /\ Indexed /\ Filed)'
  BY DEF TriggerReturns, managerVars, Goto, Inv, TypeOK, MyReached, Indexed, Filed
<1> QED  BY <1>3, <1>5, <1>6, <1>7 DEF Inv

-----------------------------------------------------------------------------
(* One step of the manager and its tasks.                                  *)
LEMMA StepInv == Inv /\ [Next]_vars => Inv'
<1>1. ASSUME Inv, UNCHANGED vars PROVE Inv'
  BY <1>1
  DEF vars, Inv, TypeOK, PendingExact, TriggersStarted, Undone, Forcing, SelfOnce, MyReached,
      Indexed, Filed
<1>2. ASSUME Inv, NEW h \in Handlers, AddHandler(h) \/ HandlerEnds(h) \/ TaskStep(h)
      PROVE  Inv'
  BY <1>2, AddHandlerInv, HandlerEndsInv, PushHandlerInv, RecordErrorInv, DecrementInv,
     SendDoneInv
  DEF TaskStep
<1>3. ASSUME Inv, NEW t \in Triggers, TryForce(t) \/ TriggerStep(t)
      PROVE  Inv'
  BY <1>3, TryForceInv, ForceStoreInv, ForceSendInv, BumpInv, SelfTriggerInv,
     ReadHandlersInv, SignalInv, TriggerReturnsInv
  DEF TriggerStep
<1> QED  BY <1>1, <1>2, <1>3, WaitReturnsInv DEF Next

(* The inductive invariant of the shutdown manager.                        *)
THEOREM Invariance == SafeSpec => []Inv
BY InitInv, StepInv, PTL DEF SafeSpec

(* Every variable has its type, and pending is not negative before a       *)
(* forced shutdown: the usize of the code does not wrap.                   *)
THEOREM TypeCorrect == SafeSpec => []TypeOK
<1>1. Inv => TypeOK
  BY DEF Inv
<1> QED  BY <1>1, Invariance, PTL

(* pending counts what is unfinished, and the manager itself until the     *)
(* first trigger, however many triggers race and handlers are added        *)
(* meanwhile, until a shutdown is forced.                                  *)
THEOREM PendingTheorem == SafeSpec => []PendingExact
<1>1. Inv => PendingExact
  BY DEF Inv
<1> QED  BY <1>1, Invariance, PTL

(* The step of LastIsLast: of all steps only Decrement makes a task last.  *)
LEMMA LastIsLastStep ==
  ASSUME Inv, [Next]_vars, NEW h \in Handlers,
         task'[h] = "last", task[h] # "last", ~everForced
  PROVE  TriggersStarted /\ Undone' = {}
<1>1. task' # task
  OBVIOUS
<1>2. PICK g \in Handlers : AddHandler(g) \/ HandlerEnds(g) \/ TaskStep(g)
  BY <1>1
  DEF Next, vars, trigVars, managerVars, TryForce, TriggerStep, ForceStore, ForceSend, Bump, SelfTrigger,
      ReadHandlers, Signal, TriggerReturns, WaitReturns
<1>3. Decrement(g) /\ g = h
  BY <1>2
  DEF Inv, TypeOK, AddHandler, HandlerEnds, TaskStep, PushHandler, RecordError, SendDone,
      Decrement
<1> QED  BY <1>3, DecrementFacts

(* The task that finds itself last is last: a shutdown has been asked for, *)
(* and no handler, registered or on its way, is unfinished.                *)
THEOREM LastTheorem == SafeSpec => LastIsLast
<1>1. Inv /\ [Next]_vars =>
        [\A h \in Handlers : task'[h] = "last" /\ task[h] # "last" /\ ~everForced =>
           TriggersStarted /\ Undone' = {}]_vars
  BY LastIsLastStep
<1> QED  BY <1>1, Invariance, PTL DEF SafeSpec, LastIsLast

(* wait() answers with an error under the name of every handler that has   *)
(* finished with one, and with nothing else.                               *)
THEOREM ErrorsTheorem == SafeSpec => ErrorsReported
<1> DEFINE Reported ==
             /\ \A h \in faulty : task[h] \in {"last", "gone"} => report'[NameOf[h]] # {}
             /\ \A n \in Names : report'[n] \subseteq {h \in faulty : NameOf[h] = n}
<1>1. ASSUME Inv, [Next]_vars, waiter = "waiting", waiter' = "returned"
      PROVE  Reported
  <2>1. waiter' # waiter
    BY <1>1
  <2>2. WaitReturns
    BY <1>1, <2>1
    DEF Next, vars, trigVars, managerVars, TryForce, TriggerStep, ForceStore, ForceSend, Bump, SelfTrigger,
        ReadHandlers, Signal, TriggerReturns, AddHandler, HandlerEnds, TaskStep, PushHandler,
        RecordError, SendDone, Decrement
  <2> QED  BY <1>1, <2>2 DEF WaitReturns, Inv, Filed
<1>2. Inv /\ [Next]_vars =>
        [waiter = "waiting" /\ waiter' = "returned" /\ tx = "graceful" => Reported]_vars
  BY <1>1
<1> QED  BY <1>2, Invariance, PTL DEF SafeSpec, ErrorsReported

-----------------------------------------------------------------------------
(* The HTTP server as one of the handlers.                                 *)

(* A step of the manager with the server is one of the manager or changes  *)
(* nothing of it.                                                          *)
LEMMA ServerStepIsNext == [NextServer]_allVars => [Next]_vars
<1>1. ManagerStep => Next
  BY DEF ManagerStep, Next, TriggerStep
<1>2. ServerStep => UNCHANGED vars
  BY DEF ServerStep, Listen, Accept, Close, Stop, ServeFails, ListenEnds
<1>3. ASSUME NEW t \in Triggers, SignalServer(t) PROVE Next
  BY <1>3 DEF SignalServer, Next, TriggerStep
<1>4. ASSUME NEW h \in Handlers, EndsServer(h) PROVE Next
  BY <1>4 DEF EndsServer, Next
<1> QED  BY <1>1, <1>2, <1>3, <1>4 DEF NextServer, allVars

(* The manager with the server in it implements the manager with abstract  *)
(* handlers, so what is proved of that holds of this.                      *)
THEOREM ServerImplementsShutdown == SafeSpecServer => SafeSpec
BY ServerStepIsNext, PTL DEF SafeSpecServer, SafeSpec, InitServer

(* What the server's own variables keep.  The end is reported by listen()  *)
(* or by a third level, and the manager goes on only after that report.    *)
ServerInv ==
  /\ listen \in {"new", "serving", "stopped", "done", "panicked"}
  /\ conns \in 0..MaxConns
  /\ told \subseteq {"graceful", "now"}
  /\ doneTx \in BOOLEAN
  /\ listen # "serving" => conns = 0
  /\ task[Http] \in {"failed", "ended", "last", "gone"} => doneTx
  /\ doneTx /\ ~everForced => listen = "done" \/ level > LAST_WARNING

-----------------------------------------------------------------------------
(* A step that leaves the manager's history alone, or only lets the level  *)
(* grow, keeps a report that was justified.                                *)
LEMMA LevelGrows ==
  ASSUME Inv, [Next]_vars
  PROVE  /\ everForced => everForced'
         /\ ~everForced' => level' >= level
<1> SUFFICES ASSUME Next
             PROVE  /\ everForced => everForced'
                    /\ ~everForced' => level' >= level
  BY DEF vars, Inv, TypeOK, Levels
<1>1. level \in Nat /\ level <= FORCED /\ FORCED \in Nat
  BY ShutdownAssumption DEF Inv, TypeOK, Levels
<1>2. CASE \E h \in Handlers : AddHandler(h) \/ HandlerEnds(h) \/ TaskStep(h)
  BY <1>1, <1>2
  DEF AddHandler, HandlerEnds, TaskStep, PushHandler, RecordError, SendDone, Decrement,
      trigVars, managerVars
<1>3. CASE WaitReturns
  BY <1>1, <1>3 DEF WaitReturns, trigVars
<1>4. CASE \E t \in Triggers : TryForce(t)
  BY <1>1, <1>4 DEF TryForce
<1>5. CASE \E t \in Triggers : Bump(t)
  <2>1. level' = Succ(level) /\ everForced' = (everForced \/ level' = FORCED)
    BY <1>5 DEF Bump
  <2>2. everForced => everForced'
    BY <2>1
  <2>3. ~everForced' => ~everForced /\ level # FORCED
    BY <2>1 DEF Inv, Forcing
  <2>4. level # FORCED => level' >= level
    BY <1>1, <2>1 DEF Succ
  <2> QED  BY <2>2, <2>3, <2>4
<1>6. CASE \E t \in Triggers : ForceStore(t)
  BY <1>1, <1>6 DEF ForceStore
<1>7. CASE \E t \in Triggers :
             \/ ForceSend(t) \/ SelfTrigger(t) \/ ReadHandlers(t) \/ Signal(t)
             \/ TriggerReturns(t)
  BY <1>1, <1>7
  DEF ForceSend, SelfTrigger, ReadHandlers, Signal, TriggerReturns, managerVars
<1> QED  BY <1>2, <1>3, <1>4, <1>5, <1>6, <1>7 DEF Next, TriggerStep

(* Only wait() of the server ends its task, and wait() follows done_tx.    *)
LEMMA HttpEnds ==
  ASSUME Inv, NEW h \in Handlers, AddHandler(h) \/ TaskStep(h),
         task'[Http] \in {"failed", "ended", "last", "gone"}
  PROVE  task[Http] \in {"failed", "ended", "last", "gone"}
BY ServerAssumption
DEF AddHandler, TaskStep, PushHandler, RecordError, SendDone, Decrement, Inv, TypeOK

(* A step of the manager that is not about the server leaves it alone.     *)
LEMMA ManagerStepServerInv ==
  ASSUME Inv, ServerInv, ManagerStep PROVE ServerInv'
<1>1. [Next]_vars
  BY ServerStepIsNext DEF NextServer
<1>2. UNCHANGED serverVars
  BY DEF ManagerStep
<1>3. task'[Http] \in {"failed", "ended", "last", "gone"} =>
      task[Http] \in {"failed", "ended", "last", "gone"}
  <2>1. CASE \E h \in Handlers : AddHandler(h) \/ TaskStep(h)
    BY <2>1, HttpEnds
  <2>2. CASE UNCHANGED task
    BY <2>2
  <2> QED
    BY <2>1, <2>2
    DEF ManagerStep, TryForce, ForceStore, ForceSend, Bump, SelfTrigger, ReadHandlers,
        TriggerReturns, WaitReturns
<1>4. ~everForced' => ~everForced /\ level' >= level /\ level' \in Nat /\ level \in Nat
  BY <1>1, LevelGrows, StepInv DEF Inv, TypeOK, Levels
<1> QED  BY <1>2, <1>3, <1>4 DEF ServerInv, serverVars, LAST_WARNING

(* signal(): a level of neither 1 nor 2 is a third, and then the manager   *)
(* has been there.                                                         *)
LEMMA SignalServerInv ==
  ASSUME Inv, ServerInv, NEW t \in Triggers, SignalServer(t) PROVE ServerInv'
<1>1. UNCHANGED <<managerVars, task, everForced, listen, conns>> /\ at[t] = "signal"
  BY DEF SignalServer, Signal
<1>2. told' \subseteq {"graceful", "now"}
  BY DEF SignalServer, ServerInv
<1>3. doneTx' = doneTx \/ doneTx' = (doneTx \/ my[t] \notin {1, 2})
  BY DEF SignalServer
<1>4. doneTx' \in BOOLEAN /\ (doneTx => doneTx')
  BY <1>3 DEF ServerInv
<1>5. ~everForced => my[t] \in 1..level
  BY <1>1 DEF Inv, MyReached
<1>6. doneTx' /\ ~everForced => doneTx \/ level > LAST_WARNING
  <2>1. doneTx' => doneTx \/ my[t] \notin {1, 2}
    BY <1>3
  <2>2. level \in Nat
    BY ShutdownAssumption DEF Inv, TypeOK, Levels
  <2> QED  BY <1>5, <2>1, <2>2 DEF LAST_WARNING
<1>7. doneTx' /\ ~everForced' => listen' = "done" \/ level' > LAST_WARNING
  BY <1>1, <1>6 DEF ServerInv, managerVars
<1>8. task'[Http] \in {"failed", "ended", "last", "gone"} => doneTx'
  BY <1>1, <1>4 DEF ServerInv
<1>9. (listen \in {"new", "serving", "stopped", "done", "panicked"})'
      /\ (conns \in 0..MaxConns)' /\ (listen # "serving" => conns = 0)'
  BY <1>1 DEF ServerInv
<1> QED  BY <1>2, <1>4, <1>7, <1>8, <1>9 DEF ServerInv

(* Every step of the manager and the server together.                      *)
LEMMA ServerStepInv == Inv /\ ServerInv /\ [NextServer]_allVars => ServerInv'
<1> SUFFICES ASSUME Inv, ServerInv, [NextServer]_allVars PROVE ServerInv'
  OBVIOUS
<1>1. CASE UNCHANGED allVars
  BY <1>1 DEF allVars, vars, serverVars, ServerInv
<1>2. CASE ServerStep
  <2>1. UNCHANGED vars
    BY <1>2 DEF ServerStep, Listen, Accept, Close, Stop, ServeFails, ListenEnds
  <2>2. conns' \in 0..MaxConns
    BY <1>2, ServerAssumption
    DEF ServerStep, Listen, Accept, Close, Stop, ServeFails, ListenEnds, ServerInv
  <2>3. UNCHANGED doneTx \/ (doneTx' = TRUE /\ listen' = "done")
    BY <1>2 DEF ServerStep, Listen, Accept, Close, Stop, ServeFails, ListenEnds
  <2>4. doneTx' \in BOOLEAN
    BY <2>3 DEF ServerInv
  <2>5. (doneTx => doneTx') /\ (doneTx' /\ ~doneTx => listen' = "done")
    BY <2>3
  <2>6. /\ listen' \in {"new", "serving", "stopped", "done", "panicked"}
        /\ told' = told
        /\ listen' # "serving" => conns' = 0
        /\ listen = "done" => listen' = "done"
    BY <1>2, ServerAssumption
    DEF ServerStep, Listen, Accept, Close, Stop, ServeFails, ListenEnds, ServerInv
  <2> QED  BY <2>1, <2>2, <2>4, <2>5, <2>6 DEF ServerInv, vars
<1>3. CASE \E t \in Triggers : SignalServer(t)
  BY <1>3, SignalServerInv
<1>4. ASSUME NEW h \in Handlers, EndsServer(h) PROVE ServerInv'
  <2>1. UNCHANGED serverVars /\ UNCHANGED <<managerVars, trigVars>>
    BY <1>4 DEF EndsServer, HandlerEnds
  <2>2. h # Http => task'[Http] = task[Http]
    BY <1>4, ServerAssumption DEF EndsServer, HandlerEnds, Inv, TypeOK
  <2>3. h = Http => doneTx
    BY <1>4 DEF EndsServer
  <2> QED  BY <2>1, <2>2, <2>3 DEF ServerInv, serverVars, managerVars, trigVars
<1> QED  BY <1>1, <1>2, <1>3, <1>4, ManagerStepServerInv DEF NextServer

(* The inductive invariant of the manager with the server.                 *)
THEOREM ServerInvariance == SafeSpecServer => [](Inv /\ ServerInv)
<1>1. ASSUME InitServer PROVE ServerInv
  <2>1. doneTx = FALSE /\ told = {} /\ listen = "new"
    BY <1>1 DEF InitServer
  <2>2. task[Http] = "new"
    BY <1>1, ServerAssumption DEF InitServer, Init
  <2>3. conns = 0 /\ 0 \in 0..MaxConns
    BY <1>1, ServerAssumption DEF InitServer
  <2> QED  BY <2>1, <2>2, <2>3 DEF ServerInv
<1>2. Inv /\ ServerInv /\ [NextServer]_allVars => (Inv /\ ServerInv)'
  BY StepInv, ServerStepIsNext, ServerStepInv
<1>3. InitServer => Inv
  BY InitInv DEF InitServer
<1> QED  BY <1>1, <1>2, <1>3, PTL DEF SafeSpecServer

(* The types of both.                                                      *)
THEOREM ServerTypeCorrect == SafeSpecServer => []TypeOKServer
<1>1. Inv /\ ServerInv => TypeOKServer
  BY DEF Inv, ServerInv, TypeOKServer
<1> QED  BY <1>1, ServerInvariance, PTL

(* Before a third level and a forced shutdown, the server's task is over   *)
(* only when serve() has returned and no connection is left.               *)
THEOREM ServerStoppedTheorem == SafeSpecServer => []ServerStoppedFirst
<1>1. Inv /\ ServerInv => ServerStoppedFirst
  BY DEF Inv, TypeOK, Levels, ServerInv, ServerStoppedFirst, LAST_WARNING
<1> QED  BY <1>1, ServerInvariance, PTL

=============================================================================
