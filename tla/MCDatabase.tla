------------------------------ MODULE MCDatabase ------------------------------
(* Instances of Database for TLC: the pool itself, and a resource whose    *)
(* health_check() may answer with an error.                                *)
EXTENDS Database

(* The program has one DBPoolProto, whose configuration all callers share. *)
OneSetup == {[c \in Callers |-> k] : k \in Configs}

(* Another user of get_db_url(): the probes have a configuration of their  *)
(* own, which agrees with the pool's on whether it names a variable.       *)
AgreeingSetups ==
  {[c \in Callers |-> IF c = Keeper THEN k ELSE l] :
     <<k, l>> \in {kl \in Configs \X Configs :
                     kl[1].env = kl[2].env /\ kl[1].postgres = kl[2].postgres}}

MCImplementors == {DbAnswers, {"ok", "bad", "error"}}
MCFallible == {{"ok", "error"}}
=============================================================================
