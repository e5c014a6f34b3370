------------------------------- MODULE Database -------------------------------
(***************************************************************************)
(* database/pool.rs: the KeepAlive whose resource is a database connection,*)
(* and get_db_url(), which takes the password from the configuration's     *)
(* URL, from the environment (once per process, which it then overwrites   *)
(* with stars) or from a vault.  initialize() and tcp_probe() call it.     *)
(*                                                                         *)
(* With answers other than DbAnswers the resource is that of some other    *)
(* implementor, whose initialize() succeeds or fails.                      *)
(***************************************************************************)
EXTENDS KeepAlive, FiniteSets

CONSTANTS
  Setups,       \* which DatabaseConfig each caller has
  Probes,       \* tasks that call tcp_probe()
  MaxRestarts   \* bound: how often the process is started again

ASSUME DatabaseAssumption == Keeper \notin Probes /\ MaxRestarts \in Nat

DbAnswers == {"ok", "bad"}
IsDb == answers = DbAnswers
Callers == Probes \cup {Keeper}

(* Which sources of a password it names, and the URL's scheme.  A vault is *)
(* out of reach when neither it nor the environment has a token and an     *)
(* address.  All configurations that name a variable name the same.        *)
Configs == [plain : BOOLEAN, env : BOOLEAN, vault : {"none", "ready", "unset"},
            postgres : BOOLEAN]

ASSUME SetupsAssumption == Setups \subseteq [Callers -> Configs]

VARIABLES
  config,   \* the DatabaseConfig of each caller
  given,    \* password_env as whoever starts the process sets it
  env,      \* password_env now
  cell,     \* DB_PASSWORD_ENV_LOCK
  at,       \* where each caller is in get_db_url()
  url,      \* the password of the URL it returns
  restarts

urlVars == <<config, given, env, cell, at, url, restarts>>
dbVars == <<kaVars, urlVars>>

Init ==
  /\ InitKeepAlive
  /\ config \in Setups
  /\ given \in {"unset", "empty", "stars", "secret"}
  /\ env = given
  /\ cell = "uninit"
  /\ at = [c \in Callers |-> "idle"]
  /\ url = [c \in Callers |-> "none"]
  /\ restarts = 0

(* main() ends with the task that initializes.                             *)
Alive == loop # "failed" /\ at[Keeper] # "panic"

Calling(c) ==
  /\ Alive /\ at[c] = "idle"
  /\ c = Keeper => IsDb /\ loop \in {"new", "renew"}

Reach(c, where) == at' = [at EXCEPT ![c] = where]
Return(c, password) == Reach(c, "ok") /\ url' = [url EXCEPT ![c] = password]

(* Faulty variant. *)
UsableIfThere(password) == password # "unset"

(* Neither missing nor empty nor overwritten by a parent process.          *)
Usable(password) == password \notin {"unset", "empty", "stars"}

-----------------------------------------------------------------------------
(* Faulty variants.                                                        *)

GetPasswordUncached(c) ==
  /\ Calling(c)
  /\ \/ /\ ~config[c].env
        /\ Reach(c, "match") /\ UNCHANGED <<cell, env>>
     \/ /\ config[c].env /\ Usable(env)
        /\ cell' = env /\ env' = "stars" /\ Reach(c, "match")
     \/ /\ config[c].env /\ ~Usable(env)
        /\ Reach(c, "panic") /\ UNCHANGED <<cell, env>>
  /\ UNCHANGED <<kaVars, config, given, url, restarts>>

GetPasswordLeft(c) ==
  /\ Calling(c)
  /\ \/ /\ cell # "uninit"
        /\ Reach(c, "match") /\ UNCHANGED cell
     \/ /\ cell = "uninit" /\ ~config[c].env
        /\ cell' = "None" /\ Reach(c, "match")
     \/ /\ cell = "uninit" /\ config[c].env /\ Usable(env)
        /\ cell' = env /\ Reach(c, "match")
     \/ /\ cell = "uninit" /\ config[c].env /\ ~Usable(env)
        /\ Reach(c, "panic") /\ UNCHANGED cell
  /\ UNCHANGED <<kaVars, config, given, env, url, restarts>>

-----------------------------------------------------------------------------
(* get_db_url(), first half: get_or_init() of the once-lock.  The first    *)
(* caller takes the password out of the environment; a closure that panics *)
(* leaves the lock as it was.                                              *)
GetPassword(c) ==
  /\ Calling(c)
  /\ \/ /\ cell # "uninit"
        /\ Reach(c, "match") /\ UNCHANGED <<cell, env>>
     \/ /\ cell = "uninit" /\ ~config[c].env
        /\ cell' = "None" /\ Reach(c, "match") /\ UNCHANGED env
     \/ /\ cell = "uninit" /\ config[c].env /\ Usable(env)
        /\ cell' = env /\ env' = "stars" /\ Reach(c, "match")
     \/ /\ cell = "uninit" /\ config[c].env /\ ~Usable(env)
        /\ Reach(c, "panic") /\ UNCHANGED <<cell, env>>
  /\ UNCHANGED <<kaVars, config, given, url, restarts>>

(* Second half: the match over the three sources.  The vault may fail, and *)
(* without a token or an address there is no asking it.                    *)
Match(c) ==
  LET has == <<config[c].plain, cell # "None", config[c].vault # "none">>
  IN  /\ Alive /\ at[c] = "match"
      /\ \/ has = <<FALSE, FALSE, FALSE>> /\ Return(c, "none")
         \/ has = <<TRUE, FALSE, FALSE>> /\ Return(c, "plain")
         \/ has = <<FALSE, TRUE, FALSE>> /\ Return(c, cell)
         \/ /\ has = <<FALSE, FALSE, TRUE>> /\ config[c].vault = "ready"
            /\ Return(c, "vault") \/ (Reach(c, "err") /\ UNCHANGED url)
         \/ /\ has = <<FALSE, FALSE, TRUE>> /\ config[c].vault = "unset"
            /\ Reach(c, "panic") /\ UNCHANGED url
         \/ /\ Cardinality({i \in 1..3 : has[i]}) > 1
            /\ Reach(c, "panic") /\ UNCHANGED url
      /\ UNCHANGED <<kaVars, config, given, env, cell, restarts>>

(* DBPoolProto::initialize() has its URL and connects, with metrics hung   *)
(* on the connection.  Only Postgres is supported.                         *)
Connect ==
  /\ Alive /\ at[Keeper] = "ok"
  /\ \/ config[Keeper].postgres /\ Initialized
     \/ InitializeFails
  /\ Reach(Keeper, "idle")
  /\ UNCHANGED <<config, given, env, cell, url, restarts>>

NoUrl ==
  /\ at[Keeper] = "err"
  /\ InitializeFails
  /\ Reach(Keeper, "idle")
  /\ UNCHANGED <<config, given, env, cell, url, restarts>>

(* tcp_probe() returns, and may be called again.                           *)
Probed(c) ==
  /\ c # Keeper /\ at[c] \in {"ok", "err", "panic"}
  /\ Reach(c, "idle")
  /\ UNCHANGED <<kaVars, config, given, env, cell, url, restarts>>

OtherInitialize ==
  /\ ~IsDb
  /\ Initialized \/ InitializeFails
  /\ UNCHANGED urlVars

Running ==
  /\ Alive
  /\ Check \/ (\E a \in answers : Answer(a)) \/ Fail
     \/ (\E t \in Tasks : Get(t) \/ Release(t))
  /\ UNCHANGED urlVars

(* The process ends, of itself or not, and is started again with the       *)
(* environment it had the first time.                                      *)
Restart ==
  /\ restarts < MaxRestarts
  /\ restarts' = restarts + 1
  /\ UNCHANGED <<answers, config, given>>
  /\ health' = "dead" /\ loop' = "new" /\ flag' = FALSE /\ tries' = 0
  /\ task' = [t \in Tasks |-> "out"] /\ holders' = {} /\ queue' = <<>>
  /\ env' = given /\ cell' = "uninit"
  /\ at' = [c \in Callers |-> "idle"]
  /\ url' = [c \in Callers |-> "none"]

Next ==
  \/ \E c \in Callers : GetPassword(c) \/ Match(c) \/ Probed(c)
  \/ Connect \/ NoUrl \/ OtherInitialize
  \/ Running
  \/ Restart

(* The loop is started as soon as there is a KeepAlive, and goes on; a task*)
(* does not keep its guard for ever.                                       *)
Fairness ==
  /\ WF_dbVars(Running /\ Check)
  /\ WF_dbVars(Running /\ \E a \in answers : Answer(a))
  /\ \A t \in Tasks : WF_dbVars(Running /\ Release(t))

Spec == Init /\ [][Next]_dbVars /\ Fairness

-----------------------------------------------------------------------------
Sources(c) == {s \in {"plain", "secret", "vault"} :
                 CASE s = "plain" -> config[c].plain
                   [] s = "secret" -> config[c].env
                   [] s = "vault" -> config[c].vault # "none"}

(* pool.rs:124, "using the specified role and configuration": however      *)
(* initialize() and the probes interleave, and however often the process   *)
(* is restarted, a URL carries the password of the one source that its     *)
(* caller's configuration names: never stars or nothing in its stead, and  *)
(* never one of several.  That needs configurations that agree on whether  *)
(* they name a variable, since the first caller's is what the lock keeps.  *)
RightCredential ==
  \A c \in Callers : at[c] = "ok" =>
    IF Sources(c) = {} THEN url[c] = "none" ELSE Sources(c) = {url[c]}

(* Once any caller has its URL, a child process that inherits the          *)
(* environment does not find the password there.                           *)
SecretErased == (\E c \in Callers : url[c] = "secret") => env # "secret"

(* Erasing the password from the environment takes it from nobody in the   *)
(* process: after the first URL, no later call with its configuration      *)
(* panics.                                                                 *)
FirstDecides ==
  [][\A c \in Callers : at[c] = "ok" =>
       \A d \in Callers : config[d] = config[c] /\ at[d] # "panic" => at'[d] # "panic"]_dbVars
=============================================================================
