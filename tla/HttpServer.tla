----------------------------- MODULE HttpServer -----------------------------
(***************************************************************************)
(* server/mod.rs: the HTTP server as a handler of the ShutdownManager      *)
(* (module Shutdown), with its listen() task and the connections it has.   *)
(*                                                                         *)
(* axum_server (external) is what listen() and signal() use of it: a       *)
(* Handle remembers that it was told to shut down gracefully or at once;   *)
(* serve() accepts connections until then, a graceful shutdown returns     *)
(* when the last connection is closed, an immediate one closes them.       *)
(***************************************************************************)
EXTENDS Shutdown

CONSTANTS
  Http,      \* the server, one of the handlers
  MaxConns   \* bound: open connections

ASSUME ServerAssumption == Http \in Handlers /\ MaxConns \in Nat

VARIABLES
  listen,   \* "new", "serving", "stopped", "done", "panicked"
  conns,    \* open connections
  told,     \* what the axum_server Handle has been told
  doneTx    \* has done_tx been sent (and taken)

serverVars == <<listen, conns, told, doneTx>>
allVars == <<vars, serverVars>>

TypeOKServer ==
  /\ TypeOK
  /\ listen \in {"new", "serving", "stopped", "done", "panicked"}
  /\ conns \in 0..MaxConns
  /\ told \subseteq {"graceful", "now"}
  /\ doneTx \in BOOLEAN

InitServer ==
  /\ Init
  /\ listen = "new" /\ conns = 0 /\ told = {} /\ doneTx = FALSE

-----------------------------------------------------------------------------
(* Faulty variants.                                                        *)

(* The second level reports the end itself, as the third does.             *)
SignalServerDoneAtTwo(t) ==
  /\ Signal(t)
  /\ IF handlers[next[t]] # Http
     THEN UNCHANGED <<told, doneTx>>
     ELSE /\ told' = told \cup (IF my[t] = 1 THEN {"graceful"} ELSE {"now"})
          /\ doneTx' = (doneTx \/ my[t] # 1)
  /\ UNCHANGED <<listen, conns>>

SignalServerGracefulOnly(t) ==
  /\ Signal(t)
  /\ told' = IF handlers[next[t]] = Http THEN told \cup {"graceful"} ELSE told
  /\ UNCHANGED <<listen, conns, doneTx>>

ListenForgetsDone ==
  /\ listen = "stopped"
  /\ listen' = "done"
  /\ UNCHANGED <<vars, conns, told, doneTx>>

-----------------------------------------------------------------------------
(* listen(): serve() starts.                                               *)
Listen ==
  /\ listen = "new"
  /\ listen' = "serving"
  /\ UNCHANGED <<vars, conns, told, doneTx>>

Accept ==
  /\ listen = "serving" /\ told = {}
  /\ conns < MaxConns
  /\ conns' = conns + 1
  /\ UNCHANGED <<vars, listen, told, doneTx>>

Close ==
  /\ conns > 0
  /\ conns' = conns - 1
  /\ UNCHANGED <<vars, listen, told, doneTx>>

(* serve() returns.                                                        *)
Stop ==
  /\ listen = "serving"
  /\ "now" \in told \/ ("graceful" \in told /\ conns = 0)
  /\ listen' = "stopped"
  /\ conns' = 0
  /\ UNCHANGED <<vars, told, doneTx>>

(* serve() fails and expect("Failed to serve") ends the task: nobody takes *)
(* done_tx.                                                                *)
ServeFails ==
  /\ listen = "serving"
  /\ listen' = "panicked"
  /\ conns' = 0
  /\ UNCHANGED <<vars, told, doneTx>>

(* The end of listen(): done_tx.lock().await.take().map(|tx| tx.send(())). *)
ListenEnds ==
  /\ listen = "stopped"
  /\ listen' = "done"
  /\ doneTx' = TRUE
  /\ UNCHANGED <<vars, conns, told>>

(* signal(level), called by the manager's loop.                            *)
SignalServer(t) ==
  /\ Signal(t)
  /\ IF handlers[next[t]] # Http
     THEN UNCHANGED <<told, doneTx>>
     ELSE /\ told' = told \cup (CASE my[t] = 1 -> {"graceful"}
                                  [] my[t] = 2 -> {"now"}
                                  [] OTHER -> {})
          /\ doneTx' = (doneTx \/ my[t] \notin {1, 2})
  /\ UNCHANGED <<listen, conns>>

(* wait() resolves when done_tx has been sent, and never with an error.    *)
EndsServer(h) ==
  /\ HandlerEnds(h)
  /\ h = Http => doneTx /\ faulty' = faulty
  /\ UNCHANGED serverVars

-----------------------------------------------------------------------------
ManagerStep ==
  /\ \/ \E h \in Handlers : AddHandler(h) \/ TaskStep(h)
     \/ \E t \in Triggers :
          \/ TryForce(t) \/ ForceStore(t) \/ ForceSend(t) \/ Bump(t)
          \/ SelfTrigger(t) \/ ReadHandlers(t) \/ TriggerReturns(t)
     \/ WaitReturns
  /\ UNCHANGED serverVars

ServerStep == Listen \/ Accept \/ Close \/ Stop \/ ServeFails \/ ListenEnds

NextServer ==
  \/ ManagerStep
  \/ ServerStep
  \/ \E t \in Triggers : SignalServer(t)
  \/ \E h \in Handlers : EndsServer(h)

(* listen() is spawned once and its task runs, and so do the manager's     *)
(* tasks.  Nothing makes a client close its connection.                    *)
FairnessServer ==
  /\ WF_allVars(ManagerStep /\ ~(\E h \in Handlers : AddHandler(h))
                            /\ ~(\E t \in Triggers : TryForce(t)))
  /\ WF_allVars(\E t \in Triggers : SignalServer(t))
  /\ \A h \in Handlers : WF_allVars((h = Http \/ signals[h] # {}) /\ EndsServer(h))
  /\ WF_allVars(Listen) /\ WF_allVars(Stop) /\ WF_allVars(ListenEnds)

SafeSpecServer == InitServer /\ [][NextServer]_allVars
SpecServer == SafeSpecServer /\ FairnessServer

-----------------------------------------------------------------------------
(* The manager reports a graceful end only when the server has stopped     *)
(* serving and its connections are closed, as long as no third level has   *)
(* been signalled (which Shutdown shows two racing signals can cause).     *)
ServerStoppedFirst ==
  tx = "graceful" /\ ~everForced /\ level <= LAST_WARNING /\ task[Http] = "gone"
    => listen = "done" /\ conns = 0

RunningAndStarted == task[Http] = "running" /\ TriggersStarted /\ ~everForced

Returned ==
  \/ listen = "panicked" \/ waiter = "returned"
  \/ \E h \in Undone \ {Http} : signals[h] = {}

(* The second interrupt stops the server whatever its clients do, and then *)
(* wait() returns, unless a handler nobody has told is in the way or serve *)
(* has failed.  The server must still run when the manager's own count is  *)
(* taken back: the second of two racing signals can stop it before the     *)
(* first has done that, and then nobody wakes wait() (see WaitCompletes).  *)
SecondInterruptStops == RunningAndStarted /\ 2 \in signals[Http] ~> Returned

(* The first interrupt does so once the clients let go: provided that a    *)
(* connection of a draining server closes, which the request timeouts of   *)
(* server/router.rs bring about.                                           *)
FirstInterruptStops ==
  WF_allVars(told # {} /\ Close) =>
    (RunningAndStarted /\ signals[Http] # {} ~> Returned)
=============================================================================
