--------------------------- MODULE DatabaseProofs ---------------------------
(***************************************************************************)
(* Proofs about KeepAlive.tla and Database.tla: whose password a URL       *)
(* carries and what is left of it in the environment, and what becomes of  *)
(* the loop that should renew a resource, for all tasks, probes,           *)
(* configurations, implementors and numbers of tries and restarts.         *)
(*                                                                         *)
(* The two halves share no variable that the other's argument needs, so    *)
(* each has an inductive invariant of its own.                             *)
(***************************************************************************)
EXTENDS Database, FiniteSetTheorems, SequenceTheorems, TLAPS

-----------------------------------------------------------------------------
(* get_db_url()                                                            *)

(* The configurations of a process agree on whether they name an           *)
(* environment variable, as when there is one, DBPoolProto's.              *)
OneEnv == \A s \in Setups : \A c, d \in Callers : s[c].env = s[d].env

TypeOKUrl ==
  /\ config \in Setups
  /\ given \in {"unset", "empty", "stars", "secret"}
  /\ env \in {"unset", "empty", "stars", "secret"}
  /\ cell \in {"uninit", "None", "secret"}
  /\ at \in [Callers -> {"idle", "match", "ok", "err", "panic"}]
  /\ url \in [Callers -> {"none", "plain", "secret", "vault"}]

(* Nobody is past the once-lock before it is set ...                       *)
CellFirst ==
  cell = "uninit" => \A c \in Callers : at[c] \in {"idle", "panic"} /\ url[c] = "none"

(* ... it is set to what the configuration asks for, and the environment   *)
(* has been overwritten by then.                                           *)
CellSays ==
  /\ cell = "None" => \A c \in Callers : ~config[c].env
  /\ cell = "secret" => env = "stars" /\ \A c \in Callers : config[c].env

(* The secret of a URL came out of the once-lock.                          *)
UrlSays == \A c \in Callers : url[c] = "secret" => cell = "secret"

(* Who has a URL could ask the vault, if it was to.                        *)
VaultAsked == \A c \in Callers : at[c] = "ok" => config[c].vault # "unset"

UrlInv == TypeOKUrl /\ CellFirst /\ CellSays /\ UrlSays /\ VaultAsked /\ RightCredential

(* Every caller has a configuration.                                       *)
LEMMA ConfigOf ==
  ASSUME UrlInv, NEW c \in Callers
  PROVE  /\ config[c].plain \in BOOLEAN /\ config[c].env \in BOOLEAN
         /\ config[c].vault \in {"none", "ready", "unset"}
<1>1. config \in [Callers -> Configs]
  BY SetupsAssumption DEF UrlInv, TypeOKUrl
<1> QED  BY <1>1 DEF Configs

(* What a caller finds to match on is what its configuration names.        *)
LEMMA HasIsSources ==
  ASSUME UrlInv, NEW c \in Callers, at[c] = "match"
  PROVE  /\ cell # "None" <=> config[c].env
         /\ cell # "None" => cell = "secret"
<1>1. config[c].env \in BOOLEAN
  BY ConfigOf
<1> QED  BY <1>1 DEF UrlInv, TypeOKUrl, CellFirst, CellSays

(* The configured sources, one by one.                                     *)
LEMMA SourcesMembers ==
  ASSUME NEW c \in Callers
  PROVE  /\ Sources(c) \subseteq {"plain", "secret", "vault"}
         /\ "plain" \in Sources(c) <=> config[c].plain
         /\ "secret" \in Sources(c) <=> config[c].env
         /\ "vault" \in Sources(c) <=> config[c].vault # "none"
BY DEF Sources

(* Two of three make the cardinality of the match more than one.           *)
LEMMA MoreThanOne ==
  ASSUME NEW p \in BOOLEAN, NEW e \in BOOLEAN, NEW v \in BOOLEAN,
         Cardinality({i \in 1..3 : <<p, e, v>>[i]}) > 1
  PROVE  (p /\ e) \/ (p /\ v) \/ (e /\ v)
<1> DEFINE S == {i \in 1..3 : <<p, e, v>>[i]}
<1>1. /\ 1 \in S <=> p
      /\ 2 \in S <=> e
      /\ 3 \in S <=> v
      /\ S \subseteq {1, 2, 3}
  OBVIOUS
<1> HIDE DEF S
<1>2. ASSUME ~((p /\ e) \/ (p /\ v) \/ (e /\ v)) PROVE S = {} \/ \E i \in 1..3 : S = {i}
  <2>1. S = {} \/ S = {1} \/ S = {2} \/ S = {3}
    BY <1>1, <1>2
  <2> QED  BY <2>1
<1>3. S = {} => Cardinality(S) = 0
  BY FS_EmptySet
<1>4. \A i \in 1..3 : S = {i} => Cardinality(S) = 1
  BY FS_Singleton
<1>5. Cardinality(S) > 1
  BY DEF S
<1> QED  BY <1>2, <1>3, <1>4, <1>5

(* An ok URL leaves at most one configured source.                         *)
LEMMA OneSource ==
  ASSUME UrlInv, NEW c \in Callers, at[c] = "ok"
  PROVE  ~(\/ config[c].plain /\ config[c].env
           \/ config[c].plain /\ config[c].vault # "none"
           \/ config[c].env /\ config[c].vault # "none")
<1>1. Sources(c) = {} \/ Sources(c) = {url[c]}
  BY DEF UrlInv, RightCredential
<1> QED  BY <1>1, SourcesMembers

-----------------------------------------------------------------------------
(* A process starts with nothing asked for.                                *)
LEMMA UrlInit == Init => UrlInv
<1> SUFFICES ASSUME Init PROVE UrlInv
  OBVIOUS
<1>1. TypeOKUrl
  BY DEF Init, TypeOKUrl
<1>2. CellFirst /\ CellSays /\ UrlSays /\ VaultAsked /\ RightCredential
  BY DEF Init, CellFirst, CellSays, UrlSays, VaultAsked, RightCredential
<1> QED  BY <1>1, <1>2 DEF UrlInv

(* The once-lock.                                                          *)
LEMMA GetPasswordInv ==
  ASSUME OneEnv, UrlInv, NEW c \in Callers, GetPassword(c) PROVE UrlInv'
<1>1. at[c] = "idle" /\ UNCHANGED <<config, given, url, restarts>>
  BY DEF GetPassword, Calling
<1>2. /\ at' = [at EXCEPT ![c] = "match"] \/ at' = [at EXCEPT ![c] = "panic"]
      /\ at' = [at EXCEPT ![c] = "match"] => cell' # "uninit"
  BY DEF GetPassword, Reach, UrlInv, TypeOKUrl, Usable
<1>3. \/ UNCHANGED <<cell, env>>
      \/ cell = "uninit" /\ cell' = "None" /\ env' = env /\ ~config[c].env
      \/ cell = "uninit" /\ cell' = "secret" /\ env' = "stars" /\ config[c].env
  BY DEF GetPassword, UrlInv, TypeOKUrl, Usable
<1>4. TypeOKUrl'
  BY <1>1, <1>2, <1>3 DEF UrlInv, TypeOKUrl
<1>5. CellSays' /\ UrlSays'
  <2>1. \A d \in Callers : config[d].env = config[c].env
    BY DEF OneEnv, UrlInv, TypeOKUrl
  <2> QED  BY <1>1, <1>3, <2>1 DEF UrlInv, CellSays, UrlSays
<1>6. CellFirst'
  <2>1. CASE cell' # "uninit"
    BY <2>1 DEF CellFirst
  <2>2. CASE cell' = "uninit"
    <3>1. cell = "uninit" /\ at' = [at EXCEPT ![c] = "panic"]
      BY <1>2, <1>3, <2>2
    <3> QED  BY <1>1, <3>1 DEF UrlInv, TypeOKUrl, CellFirst
  <2> QED  BY <2>1, <2>2
<1>7. RightCredential' /\ VaultAsked'
  <2>1. \A d \in Callers : Sources(d)' = Sources(d)
    BY <1>1 DEF Sources
  <2>2. \A d \in Callers : at'[d] = "ok" => at[d] = "ok"
    BY <1>2 DEF UrlInv, TypeOKUrl
  <2> QED  BY <1>1, <2>1, <2>2 DEF UrlInv, RightCredential, VaultAsked
<1> QED  BY <1>4, <1>5, <1>6, <1>7 DEF UrlInv

(* The match: the password it returns is that of the one source.           *)
LEMMA MatchInv ==
  ASSUME UrlInv, NEW c \in Callers, Match(c) PROVE UrlInv'
<1>1. UNCHANGED <<config, given, env, cell, restarts>> /\ at[c] = "match"
  BY DEF Match
<1>2. \/ \E w \in {"err", "panic"} : at' = [at EXCEPT ![c] = w] /\ url' = url
      \/ \E p \in {"none", "plain", "secret", "vault"} :
           /\ at' = [at EXCEPT ![c] = "ok"] /\ url' = [url EXCEPT ![c] = p]
           /\ \/ p = "none" /\ Sources(c) = {}
              \/ Sources(c) = {p}
           /\ p = "secret" => cell = "secret"
           /\ config[c].vault # "unset"
  <2> DEFINE has == <<config[c].plain, cell # "None", config[c].vault # "none">>
  <2>2. CASE has = <<FALSE, FALSE, FALSE>> /\ Return(c, "none")
    <3>1. Sources(c) = {} /\ config[c].vault = "none"
      BY <1>1, <2>2, HasIsSources, SourcesMembers
    <3> QED  BY <2>2, <3>1 DEF Return, Reach
  <2>3. CASE has = <<TRUE, FALSE, FALSE>> /\ Return(c, "plain")
    <3>1. Sources(c) = {"plain"} /\ config[c].vault = "none"
      BY <1>1, <2>3, HasIsSources, SourcesMembers
    <3> QED  BY <2>3, <3>1 DEF Return, Reach
  <2>4. CASE has = <<FALSE, TRUE, FALSE>> /\ Return(c, cell)
    <3>1. Sources(c) = {"secret"} /\ cell = "secret" /\ config[c].vault = "none"
      BY <1>1, <2>4, HasIsSources, SourcesMembers
    <3> QED  BY <2>4, <3>1 DEF Return, Reach
  <2>5. CASE has = <<FALSE, FALSE, TRUE>> /\ config[c].vault = "ready" /\ Return(c, "vault")
    <3>1. Sources(c) = {"vault"}
      BY <1>1, <2>5, HasIsSources, SourcesMembers
    <3> QED  BY <2>5, <3>1 DEF Return, Reach
  <2>6. CASE (Reach(c, "err") \/ Reach(c, "panic")) /\ UNCHANGED url
    BY <2>6 DEF Reach
  <2> QED
    BY <2>2, <2>3, <2>4, <2>5, <2>6 DEF Match
<1>3. TypeOKUrl'
  BY <1>1, <1>2 DEF UrlInv, TypeOKUrl
<1>4. CellSays'
  BY <1>1 DEF UrlInv, CellSays
<1>5. cell' # "uninit"
  BY <1>1 DEF UrlInv, CellFirst
<1>6. UrlSays'
  BY <1>1, <1>2 DEF UrlInv, TypeOKUrl, UrlSays
<1>7. RightCredential' /\ VaultAsked'
  <2>1. \A d \in Callers : Sources(d)' = Sources(d)
    BY <1>1 DEF Sources
  <2>2. ASSUME NEW d \in Callers, at'[d] = "ok"
        PROVE  /\ IF Sources(d) = {} THEN url'[d] = "none" ELSE Sources(d) = {url'[d]}
               /\ config[d].vault # "unset"
    <3>1. CASE d = c
      BY <1>2, <2>2, <3>1 DEF UrlInv, TypeOKUrl
    <3>2. CASE d # c
      <4>1. at[d] = "ok" /\ url'[d] = url[d]
        BY <1>2, <2>2, <3>2 DEF UrlInv, TypeOKUrl
      <4> QED  BY <4>1 DEF UrlInv, RightCredential, VaultAsked
    <3> QED  BY <3>1, <3>2
  <2> QED  BY <1>1, <2>1, <2>2 DEF RightCredential, VaultAsked
<1> QED  BY <1>3, <1>4, <1>5, <1>6, <1>7 DEF UrlInv, CellFirst

(* A caller that has made use of its URL, or of its failure, is idle.      *)
LEMMA IdleAgainInv ==
  ASSUME UrlInv, NEW c \in Callers, Reach(c, "idle"),
         UNCHANGED <<config, given, env, cell, url>>
  PROVE  UrlInv'
<1>1. at' = [at EXCEPT ![c] = "idle"]
  BY DEF Reach
<1>2. TypeOKUrl' /\ CellFirst' /\ CellSays' /\ UrlSays'
  BY <1>1 DEF UrlInv, TypeOKUrl, CellFirst, CellSays, UrlSays
<1>3. RightCredential' /\ VaultAsked'
  <2>1. \A d \in Callers : Sources(d)' = Sources(d)
    BY DEF Sources
  <2>2. \A d \in Callers : at'[d] = "ok" => at[d] = "ok"
    BY <1>1 DEF UrlInv, TypeOKUrl
  <2> QED  BY <2>1, <2>2 DEF UrlInv, RightCredential, VaultAsked
<1> QED  BY <1>2, <1>3 DEF UrlInv

(* A restart forgets, and gets the environment of the first start back.    *)
LEMMA RestartUrlInv == ASSUME UrlInv, Restart PROVE UrlInv'
<1>1. /\ UNCHANGED <<config, given>> /\ env' = given /\ cell' = "uninit"
      /\ at' = [c \in Callers |-> "idle"] /\ url' = [c \in Callers |-> "none"]
  BY DEF Restart
<1>2. TypeOKUrl'
  BY <1>1 DEF UrlInv, TypeOKUrl
<1>3. (CellFirst /\ CellSays /\ UrlSays /\ VaultAsked /\ RightCredential)'
  BY <1>1 DEF CellFirst, CellSays, UrlSays, VaultAsked, RightCredential
<1> QED  BY <1>2, <1>3 DEF UrlInv

(* Every step.                                                             *)
LEMMA UrlStep == OneEnv /\ UrlInv /\ [Next]_dbVars => UrlInv'
<1> SUFFICES ASSUME OneEnv, UrlInv, [Next]_dbVars PROVE UrlInv'
  OBVIOUS
<1>1. CASE UNCHANGED urlVars
  BY <1>1
  DEF urlVars, UrlInv, TypeOKUrl, CellFirst, CellSays, UrlSays, VaultAsked, RightCredential,
      Sources
<1>2. ASSUME NEW c \in Callers, GetPassword(c) \/ Match(c) \/ Probed(c) PROVE UrlInv'
  BY <1>2, GetPasswordInv, MatchInv, IdleAgainInv DEF Probed
<1>3. CASE Connect \/ NoUrl
  BY <1>3, IdleAgainInv DEF Connect, NoUrl, Callers
<1> QED
  BY <1>1, <1>2, <1>3, RestartUrlInv DEF Next, OtherInitialize, Running, dbVars

(* The inductive invariant of get_db_url().                                *)
THEOREM UrlInvariance == ASSUME OneEnv PROVE Spec => []UrlInv
BY UrlInit, UrlStep, PTL DEF Spec

(* A URL carries the password of the one source that its caller's          *)
(* configuration names, in every interleaving of initialize() and the      *)
(* probes, after any restarts, as long as the configurations of a process  *)
(* agree on whether they name an environment variable.                     *)
THEOREM CredentialTheorem == ASSUME OneEnv PROVE Spec => []RightCredential
<1>1. UrlInv => RightCredential
  BY DEF UrlInv
<1> QED  BY <1>1, UrlInvariance, PTL

(* Once a URL carries it, the secret is no longer in the environment.      *)
THEOREM SecretTheorem == ASSUME OneEnv PROVE Spec => []SecretErased
<1>1. UrlInv => SecretErased
  BY DEF UrlInv, CellSays, UrlSays, SecretErased
<1> QED  BY <1>1, UrlInvariance, PTL

(* The first URL decides for all: no caller with the configuration that it *)
(* was made with panics after it.                                          *)
THEOREM FirstDecidesTheorem == ASSUME OneEnv PROVE Spec => FirstDecides
<1>1. ASSUME UrlInv, [Next]_dbVars, NEW c \in Callers, at[c] = "ok",
             NEW d \in Callers, config[d] = config[c], at[d] # "panic", at'[d] = "panic"
      PROVE  FALSE
  <2>1. cell # "uninit"
    BY <1>1 DEF UrlInv, CellFirst
  <2>2. ASSUME NEW e \in Callers, GetPassword(e) PROVE FALSE
    BY <1>1, <2>1, <2>2 DEF GetPassword, Reach, UrlInv, TypeOKUrl
  <2>3. ASSUME NEW e \in Callers, Match(e) PROVE FALSE
    <3> DEFINE has == <<config[d].plain, cell # "None", config[d].vault # "none">>
    <3>1. e = d /\ at[e] = "match"
      BY <1>1, <2>3 DEF Match, Return, Reach, UrlInv, TypeOKUrl
    <3>2. ~(\E p : Return(e, p)) /\ ~Reach(e, "err")
      BY <1>1, <3>1 DEF Return, Reach, UrlInv, TypeOKUrl
    <3>3. Cardinality({i \in 1..3 : has[i]}) > 1
      BY <1>1, <2>3, <3>1, <3>2 DEF Match, UrlInv, VaultAsked
    <3>4. \/ config[d].plain /\ cell # "None"
          \/ config[d].plain /\ config[d].vault # "none"
          \/ cell # "None" /\ config[d].vault # "none"
      <4>1. PICK p \in BOOLEAN, there \in BOOLEAN, v \in BOOLEAN :
              /\ p = config[d].plain /\ there = (cell # "None")
              /\ v = (config[d].vault # "none")
        BY <1>1, ConfigOf
      <4>2. Cardinality({i \in 1..3 : <<p, there, v>>[i]}) > 1
        BY <3>3, <4>1, Zenon
      <4>3. (p /\ there) \/ (p /\ v) \/ (there /\ v)
        BY <4>2, MoreThanOne
      <4> QED  BY <4>1, <4>3
    <3> QED  BY <1>1, <3>1, <3>4, HasIsSources, OneSource
  <2>4. ASSUME NEW e \in Callers, Reach(e, "idle") PROVE FALSE
    BY <1>1, <2>4 DEF Reach, UrlInv, TypeOKUrl
  <2>5. CASE Restart
    BY <1>1, <2>5 DEF Restart
  <2>6. CASE UNCHANGED at
    BY <1>1, <2>6
  <2> QED
    BY <1>1, <2>2, <2>3, <2>4, <2>5, <2>6
    DEF Next, Probed, Connect, NoUrl, OtherInitialize, Running, urlVars, dbVars, Callers
<1>2. UrlInv /\ [Next]_dbVars =>
        [\A c \in Callers : at[c] = "ok" =>
           \A d \in Callers :
             config[d] = config[c] /\ at[d] # "panic" => at'[d] # "panic"]_dbVars
  BY <1>1
<1> QED  BY <1>2, UrlInvariance, PTL DEF Spec, FirstDecides

-----------------------------------------------------------------------------
(* KeepAlive                                                               *)

Lockers == Tasks \cup {Keeper}

TypeOKLoop ==
  /\ answers \in Implementors
  /\ health \in {"up", "down", "dead"}
  /\ loop \in {"new", "failed", "asleep", "checking", "write", "renew"}
  /\ task \in [Tasks -> {"out", "waiting", "using"}]
  /\ holders \subseteq Lockers
  /\ queue \in Seq(Lockers)
  /\ flag \in BOOLEAN
  /\ tries \in 0..MaxTries

(* Somebody waits only behind the loop, which waits with the flag down ... *)
BehindTheLoop ==
  /\ queue # <<>> => loop = "write"
  /\ \A t \in Tasks : task[t] = "waiting" => loop = "write"
  /\ loop = "write" => ~flag /\ "error" \in answers

(* ... and for itself: it has kept the read guard of its check.            *)
KeepsItsGuard == loop \in {"checking", "write"} => Keeper \in holders

(* abstraction/mod.rs:110: the resource is never made anew.                *)
NeverRenewed == loop # "renew"

LoopInv == TypeOKLoop /\ BehindTheLoop /\ KeepsItsGuard /\ NeverRenewed

-----------------------------------------------------------------------------
(* KeepAlive::new() has not been called yet.                               *)
LEMMA LoopInit == Init => LoopInv
<1> SUFFICES ASSUME Init PROVE LoopInv
  OBVIOUS
<1>1. InitKeepAlive
  BY DEF Init
<1>2. flag \in BOOLEAN
  BY <1>1 DEF InitKeepAlive
<1>3. queue \in Seq(Lockers) /\ tries \in 0..MaxTries
  BY <1>1, KeepAliveAssumption DEF InitKeepAlive
<1>4. TypeOKLoop
  BY <1>1, <1>2, <1>3 DEF InitKeepAlive, TypeOKLoop
<1> QED
  BY <1>1, <1>4 DEF InitKeepAlive, LoopInv, BehindTheLoop, KeepsItsGuard, NeverRenewed

(* initialize() succeeds or fails, and it does so for new() alone.         *)
LEMMA InitializeInv ==
  ASSUME LoopInv, Initialized \/ InitializeFails PROVE LoopInv'
<1>1. loop = "new" /\ queue = <<>> /\ \A t \in Tasks : task[t] # "waiting"
  BY DEF LoopInv, BehindTheLoop, NeverRenewed, Initialized, InitializeFails
<1>2. CASE Initialized
  <2>1. /\ task' = [t \in Tasks |-> IF task[t] = "waiting" THEN "using" ELSE task[t]]
        /\ holders' = ToSet(queue) /\ queue' = <<>>
        /\ health' = "up" /\ loop' = "asleep" /\ tries' = 0
        /\ UNCHANGED <<answers, flag>>
    BY <1>2 DEF Initialized
  <2>2. holders' = {}
    BY <1>1, <2>1 DEF ToSet
  <2>3. task' \in [Tasks -> {"out", "using"}]
    BY <1>1, <2>1 DEF LoopInv, TypeOKLoop
  <2>4. 0 \in 0..MaxTries /\ <<>> \in Seq(Lockers)
    BY KeepAliveAssumption
  <2>5. TypeOKLoop'
    BY <2>1, <2>2, <2>3, <2>4 DEF LoopInv, TypeOKLoop
  <2> QED  BY <2>1, <2>3, <2>5 DEF LoopInv, BehindTheLoop, KeepsItsGuard, NeverRenewed
<1>3. CASE InitializeFails
  <2>1. loop' = "failed" /\ UNCHANGED <<task, holders, queue, tries, answers, health, flag>>
    BY <1>1, <1>3 DEF InitializeFails, lockVars
  <2>2. TypeOKLoop'
    BY <2>1 DEF LoopInv, TypeOKLoop
  <2> QED  BY <1>1, <2>1, <2>2 DEF LoopInv, BehindTheLoop, KeepsItsGuard, NeverRenewed
<1> QED  BY <1>2, <1>3

(* The loop takes its read guard.                                          *)
LEMMA CheckInv == ASSUME LoopInv, Check PROVE LoopInv'
<1>1. /\ loop = "asleep" /\ loop' = "checking" /\ holders' = holders \cup {Keeper}
      /\ UNCHANGED <<answers, health, task, queue, flag, tries>>
  BY DEF Check
<1>2. TypeOKLoop'
  BY <1>1 DEF LoopInv, TypeOKLoop, Lockers
<1> QED  BY <1>1, <1>2 DEF LoopInv, BehindTheLoop, KeepsItsGuard, NeverRenewed

(* health_check() answers: an error lowers the flag and makes the loop     *)
(* wait, guard in hand.                                                    *)
LEMMA AnswerInv == ASSUME LoopInv, NEW a \in answers, Answer(a) PROVE LoopInv'
<1>1. /\ loop = "checking" /\ UNCHANGED <<answers, health, tries, task>>
      /\ queue = <<>> /\ \A t \in Tasks : task[t] # "waiting"
  BY DEF Answer, LoopInv, BehindTheLoop
<1>2. CASE a = "error"
  <2>1. /\ flag' = FALSE /\ loop' = "write" /\ queue' = Append(queue, Keeper)
        /\ holders' = holders
    BY <1>2 DEF Answer
  <2>2. queue' \in Seq(Lockers)
    BY <2>1 DEF LoopInv, TypeOKLoop, Lockers
  <2>3. flag' \in BOOLEAN
    BY <2>1
  <2>4. TypeOKLoop'
    BY <1>1, <2>1, <2>2, <2>3 DEF LoopInv, TypeOKLoop
  <2> QED
    BY <1>1, <1>2, <2>1, <2>4 DEF LoopInv, BehindTheLoop, KeepsItsGuard, NeverRenewed
<1>3. CASE a # "error"
  <2>1. flag' = TRUE /\ loop' = "asleep" /\ holders' = holders \ {Keeper} /\ queue' = queue
    BY <1>3 DEF Answer
  <2>2. TypeOKLoop'
    BY <1>1, <2>1 DEF LoopInv, TypeOKLoop
  <2> QED  BY <1>1, <2>1, <2>2 DEF LoopInv, BehindTheLoop, KeepsItsGuard, NeverRenewed
<1> QED  BY <1>2, <1>3

(* get() waits only if the loop does.                                      *)
LEMMA GetInv == ASSUME LoopInv, NEW t \in Tasks, Get(t) PROVE LoopInv'
<1>1. UNCHANGED <<answers, health, loop, flag, tries>> /\ t \in Lockers
  BY DEF Get, Lockers
<1>2. CASE queue = <<>>
  <2>1. /\ task' = [task EXCEPT ![t] = "using"]
        /\ holders' = holders \cup {t} /\ queue' = queue
    BY <1>2 DEF Get, LoopInv, NeverRenewed
  <2>2. TypeOKLoop'
    BY <1>1, <2>1 DEF LoopInv, TypeOKLoop
  <2>3. \A u \in Tasks : task'[u] = "waiting" => task[u] = "waiting"
    BY <2>1 DEF LoopInv, TypeOKLoop
  <2> QED  BY <1>1, <2>1, <2>2, <2>3 DEF LoopInv, BehindTheLoop, KeepsItsGuard, NeverRenewed
<1>3. CASE queue # <<>>
  <2>1. /\ task' = [task EXCEPT ![t] = "waiting"]
        /\ holders' = holders /\ queue' = Append(queue, t)
    BY <1>3 DEF Get
  <2>2. queue' \in Seq(Lockers) /\ loop = "write"
    BY <1>1, <1>3, <2>1 DEF LoopInv, TypeOKLoop, BehindTheLoop
  <2>3. TypeOKLoop'
    BY <1>1, <2>1, <2>2 DEF LoopInv, TypeOKLoop
  <2> QED  BY <1>1, <2>1, <2>2, <2>3 DEF LoopInv, BehindTheLoop, KeepsItsGuard, NeverRenewed
<1> QED  BY <1>2, <1>3

(* A guard is dropped; while somebody waits, it is never the last one.     *)
LEMMA ReleaseInv == ASSUME LoopInv, NEW t \in Tasks, Release(t) PROVE LoopInv'
<1>1. ~(holders = {t} /\ queue # <<>>)
  BY KeepAliveAssumption DEF LoopInv, BehindTheLoop, KeepsItsGuard
<1>2. /\ task' = [task EXCEPT ![t] = "out"] /\ holders' = holders \ {t}
      /\ UNCHANGED <<queue, loop, answers, health, flag, tries>>
  BY <1>1 DEF Release
<1>3. TypeOKLoop'
  BY <1>2 DEF LoopInv, TypeOKLoop
<1>4. \A u \in Tasks : task'[u] = "waiting" => task[u] = "waiting"
  BY <1>2 DEF LoopInv, TypeOKLoop
<1> QED
  BY <1>2, <1>3, <1>4, KeepAliveAssumption
  DEF LoopInv, BehindTheLoop, KeepsItsGuard, NeverRenewed

(* Every step.                                                             *)
LEMMA LoopStep == LoopInv /\ [Next]_dbVars => LoopInv'
<1> SUFFICES ASSUME LoopInv, [Next]_dbVars PROVE LoopInv'
  OBVIOUS
<1>1. CASE UNCHANGED kaVars
  BY <1>1
  DEF kaVars, LoopInv, TypeOKLoop, BehindTheLoop, KeepsItsGuard, NeverRenewed
<1>2. CASE Initialized \/ InitializeFails
  BY <1>2, InitializeInv
<1>3. CASE Fail
  <2>1. UNCHANGED <<answers, loop, task, holders, queue, flag, tries>>
        /\ health' \in {"up", "down", "dead"}
    BY <1>3 DEF Fail, lockVars
  <2>2. TypeOKLoop'
    BY <2>1 DEF LoopInv, TypeOKLoop
  <2> QED  BY <2>1, <2>2 DEF LoopInv, BehindTheLoop, KeepsItsGuard, NeverRenewed
<1>4. CASE Restart
  <2>1. /\ answers' = answers /\ health' = "dead" /\ loop' = "new"
        /\ flag' = FALSE /\ tries' = 0 /\ holders' = {} /\ queue' = <<>>
        /\ task' = [t \in Tasks |-> "out"]
    BY <1>4 DEF Restart
  <2>2. flag' \in BOOLEAN
    BY <2>1
  <2>3. queue' \in Seq(Lockers) /\ tries' \in 0..MaxTries
    BY <2>1, KeepAliveAssumption
  <2>4. TypeOKLoop'
    BY <2>1, <2>2, <2>3 DEF LoopInv, TypeOKLoop
  <2> QED  BY <2>1, <2>4 DEF LoopInv, BehindTheLoop, KeepsItsGuard, NeverRenewed
<1>5. CASE Running
  BY <1>3, <1>5, CheckInv, AnswerInv, GetInv, ReleaseInv DEF Running
<1> QED
  BY <1>1, <1>2, <1>4, <1>5
  DEF Next, GetPassword, Match, Probed, Connect, NoUrl, OtherInitialize, dbVars

(* The inductive invariant of the keep-alive loop.                         *)
THEOREM LoopInvariance == Spec => []LoopInv
BY LoopInit, LoopStep, PTL DEF Spec

(* A get() waits only while the health flag is down.                       *)
THEOREM WaitersTheorem == Spec => []WaitersAreFlagged
<1>1. LoopInv => WaitersAreFlagged
  BY DEF LoopInv, BehindTheLoop, WaitersAreFlagged
<1> QED  BY <1>1, LoopInvariance, PTL

(* keepalive_loop() keeps the read guard of its check while it asks for    *)
(* the write guard, so it never gets one: no resource is ever renewed, of  *)
(* whatever implementor and whatever the tasks do.                         *)
THEOREM NeverRenewedTheorem == Spec => []NeverRenewed
<1>1. LoopInv => NeverRenewed
  BY DEF LoopInv
<1> QED  BY <1>1, LoopInvariance, PTL

(* ... and once it asks, it asks until the process ends.                   *)
THEOREM StuckForGood == Spec => [][loop = "write" => loop' = "write" \/ Restart]_dbVars
<1>1. ASSUME LoopInv, [Next]_dbVars, loop = "write" PROVE loop' = "write" \/ Restart
  <2>1. ASSUME NEW t \in Tasks, Release(t) PROVE loop' = "write"
    BY <1>1, <2>1, KeepAliveAssumption DEF Release, LoopInv, KeepsItsGuard
  <2> QED
    BY <1>1, <2>1
    DEF Next, GetPassword, Match, Probed, Connect, NoUrl, OtherInitialize, Running,
        Initialized, InitializeFails, Check, Answer, Get, Fail, dbVars, kaVars
<1>2. LoopInv /\ [Next]_dbVars => [loop = "write" => loop' = "write" \/ Restart]_dbVars
  BY <1>1
<1> QED  BY <1>2, LoopInvariance, PTL DEF Spec

(* The check of a database connection gives no error, so nobody ever waits *)
(* for the pool, and nobody is told by waiting that it is dead.            *)
THEOREM PoolNeverWaits ==
  Spec => [](IsDb => loop # "write" /\ \A t \in Tasks : task[t] # "waiting")
<1>1. LoopInv => (IsDb => loop # "write" /\ \A t \in Tasks : task[t] # "waiting")
  BY DEF LoopInv, BehindTheLoop, IsDb, DbAnswers
<1> QED  BY <1>1, LoopInvariance, PTL
=============================================================================
