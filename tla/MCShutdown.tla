----------------------------- MODULE MCShutdown -----------------------------
(* Instance of Shutdown for TLC, with abstract handlers.                   *)
EXTENDS Shutdown

(* All handlers have one name, so their errors share one place in the map. *)
MCNames == {"service"}
MCNameOf == [h \in Handlers |-> "service"]
=============================================================================
