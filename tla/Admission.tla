------------------------------ MODULE Admission ------------------------------
(***************************************************************************)
(* What Backpressure promises its callers (abstraction/backpressure.rs,    *)
(* doc lines 15 and 59-60): at most HardLimit requests are inside, at most *)
(* SoftLimit of them are being served, the others wait, and none waits     *)
(* for ever.  How the counter and the semaphore achieve it is the business *)
(* of module Backpressure, which implements this one.                      *)
(***************************************************************************)
EXTENDS Integers, FiniteSets

CONSTANTS Requests, SoftLimit, HardLimit

VARIABLES waiting, serving

vars == <<waiting, serving>>

Inside == waiting \cup serving

Init == waiting = {} /\ serving = {}

Enter(r) ==
  /\ r \notin Inside
  /\ Cardinality(Inside) < HardLimit
  /\ waiting' = waiting \cup {r}
  /\ UNCHANGED serving

Serve(r) ==
  /\ r \in waiting
  /\ Cardinality(serving) < SoftLimit
  /\ waiting' = waiting \ {r}
  /\ serving' = serving \cup {r}

(* A request leaves when it has been served or when its caller gives up.   *)
Leave(r) ==
  /\ r \in Inside
  /\ waiting' = waiting \ {r}
  /\ serving' = serving \ {r}

Next == \E r \in Requests : Enter(r) \/ Serve(r) \/ Leave(r)

(* Nobody who has been let in waits for ever.                              *)
Progress == \A r \in Requests : (r \in waiting) ~> (r \notin waiting)

Safe == Init /\ [][Next]_vars
Spec == Safe /\ Progress
=============================================================================
