------------------------------ MODULE KeepAlive ------------------------------
(***************************************************************************)
(* abstraction/mod.rs: KeepAlive, a resource behind a RwLock, the tasks    *)
(* that get() it and the keepalive_loop() that should renew it.            *)
(*                                                                         *)
(* tokio's RwLock (external) is fair: whoever comes while somebody waits,  *)
(* waits behind him.  Only the loop ever asks to write, so an entry of the *)
(* queue is a task that wants to read, or Keeper, which wants to write.    *)
(*                                                                         *)
(* The read guard of the if-let condition is a temporary that lives to the *)
(* end of the if-let's body: the loop still holds it when it asks to write.*)
(***************************************************************************)
EXTENDS Integers, SequencesExt

CONSTANTS
  Tasks,         \* tasks that use the resource
  Keeper,        \* the task of keepalive_loop()
  Implementors,  \* what health_check() of a resource may answer
  MaxTries       \* initialize() is tried so often before next_try() is None

ASSUME KeepAliveAssumption ==
  /\ Keeper \notin Tasks
  /\ \A a \in Implementors : "ok" \in a /\ a \subseteq {"ok", "bad", "error"} /\ a # {"ok"}
  /\ MaxTries \in Nat \ {0}

VARIABLES
  answers,  \* the answers of this resource's health_check()
  health,   \* "up", "down" for a while, or "dead" until it is made anew
  loop,     \* where KeepAlive::new() and then keepalive_loop() is
  task,     \* where each task is with its get()
  holders,  \* who holds a guard
  queue,    \* who waits for one
  flag,     \* health_flag
  tries     \* failures

kaVars == <<answers, health, loop, task, holders, queue, flag, tries>>
lockVars == <<task, holders, queue>>

InitKeepAlive ==
  /\ answers \in Implementors
  /\ health = "dead"
  /\ loop = "new"
  /\ task = [t \in Tasks |-> "out"]
  /\ holders = {} /\ queue = <<>>
  /\ flag = FALSE
  /\ tries = 0

Made == loop \notin {"new", "failed"}

-----------------------------------------------------------------------------
(* Faulty variants.                                                        *)

AnswerFlagLate(a) ==
  /\ loop = "checking"
  /\ a \in (IF health = "up" THEN {"ok"} ELSE answers \ {"ok"})
  /\ IF a = "error"
     THEN /\ loop' = "write" /\ queue' = Append(queue, Keeper)
          /\ UNCHANGED <<flag, task, holders>>
     ELSE /\ flag' = TRUE /\ loop' = "asleep"
          /\ holders' = holders \ {Keeper}
          /\ UNCHANGED <<task, queue>>
  /\ UNCHANGED <<answers, health, tries>>

-----------------------------------------------------------------------------
(* initialize() succeeds: for new(), which makes the KeepAlive and does    *)
(* not check again at once, or for the loop, which replaces the resource   *)
(* and drops its guards, so that those who wait get theirs.                *)
Initialized ==
  /\ loop \in {"new", "renew"}
  /\ health' = "up" /\ loop' = "asleep" /\ tries' = 0
  /\ task' = [t \in Tasks |-> IF task[t] = "waiting" THEN "using" ELSE task[t]]
  /\ holders' = ToSet(queue) /\ queue' = <<>>
  /\ UNCHANGED <<answers, flag>>

(* initialize() fails: new() returns the error; the loop counts failures   *)
(* and sleeps as long as next_try() says, or gives up until the next check.*)
InitializeFails ==
  /\ loop \in {"new", "renew"}
  /\ IF loop = "new"
     THEN loop' = "failed" /\ UNCHANGED <<lockVars, tries>>
     ELSE IF tries < MaxTries
     THEN tries' = tries + 1 /\ UNCHANGED <<loop, lockVars>>
     ELSE /\ loop' = "asleep" /\ tries' = 0
          /\ task' = [t \in Tasks |-> IF task[t] = "waiting" THEN "using" ELSE task[t]]
          /\ holders' = ToSet(queue) /\ queue' = <<>>
  /\ UNCHANGED <<answers, health, flag>>

(* The interval is over and the loop takes its read guard.  Nobody else    *)
(* writes, so nothing keeps it waiting.                                    *)
Check ==
  /\ loop = "asleep"
  /\ loop' = "checking"
  /\ holders' = holders \cup {Keeper}
  /\ UNCHANGED <<answers, health, task, queue, flag, tries>>

(* health_check() has answered.  An error lowers the flag, and the loop    *)
(* asks to write with its read guard in hand; any other answer, also that  *)
(* the resource is not healthy, raises the flag.                           *)
Answer(a) ==
  /\ loop = "checking"
  /\ a \in (IF health = "up" THEN {"ok"} ELSE answers \ {"ok"})
  /\ IF a = "error"
     THEN /\ flag' = FALSE
          /\ loop' = "write" /\ queue' = Append(queue, Keeper)
          /\ UNCHANGED <<task, holders>>
     ELSE /\ flag' = TRUE /\ loop' = "asleep"
          /\ holders' = holders \ {Keeper}
          /\ UNCHANGED <<task, queue>>
  /\ UNCHANGED <<answers, health, tries>>

(* get()                                                                   *)
Get(t) ==
  /\ Made /\ task[t] = "out"
  /\ IF queue = <<>> /\ loop # "renew"
     THEN /\ task' = [task EXCEPT ![t] = "using"]
          /\ holders' = holders \cup {t}
          /\ UNCHANGED queue
     ELSE /\ task' = [task EXCEPT ![t] = "waiting"]
          /\ queue' = Append(queue, t)
          /\ UNCHANGED holders
  /\ UNCHANGED <<answers, health, loop, flag, tries>>

(* A task drops its guard; with the last one the lock would go to the loop,*)
(* but while the loop waits it is itself among the holders.                *)
Release(t) ==
  /\ task[t] = "using"
  /\ task' = [task EXCEPT ![t] = "out"]
  /\ IF holders = {t} /\ queue # <<>>
     THEN holders' = {Keeper} /\ queue' = Tail(queue) /\ loop' = "renew"
     ELSE holders' = holders \ {t} /\ UNCHANGED <<queue, loop>>
  /\ UNCHANGED <<answers, health, flag, tries>>

(* The resource fails for a while, recovers, or fails for good.            *)
Fail ==
  /\ Made
  /\ \E h \in {"up", "down", "dead"} \ {health} :
       health # "dead" /\ health' = h
  /\ UNCHANGED <<answers, loop, lockVars, flag, tries>>

-----------------------------------------------------------------------------
(* A get() has to wait only while the health flag is down, so that whoever *)
(* watches the flag learns of a resource nobody can get at.                *)
WaitersAreFlagged == (\E t \in Tasks : task[t] = "waiting") => ~flag

(* The loop either goes on checking, or the flag is down for good: an up   *)
(* flag is never left over from a loop that has stopped.                   *)
WatchedOrFlagged == []<>(loop = "checking") \/ <>[]~flag

(* abstraction/mod.rs:110 and :181-194: the resource is renewed once a     *)
(* check of it has failed.                                                 *)
Renewed == loop = "write" ~> loop = "renew"
=============================================================================
