------------------------------ MODULE DekVault ------------------------------
(***************************************************************************)
(* What the key store promises the services of one database: there is one  *)
(* data encryption key (DEK); it is chosen once, and whoever is served a   *)
(* key is served that one.  An operator who destroys an entry ends the     *)
(* promise.  Module KeyStore implements it when servers do not initialize  *)
(* different key selectors at once.                                        *)
(***************************************************************************)
CONSTANTS Procs, Deks, NoDek

VARIABLES dek, served, shredded

vars == <<dek, served, shredded>>

Init == dek = NoDek /\ served = [p \in Procs |-> NoDek] /\ shredded = FALSE

(* The first server to come chooses the key and is served it.              *)
Choose(p) ==
  /\ dek = NoDek
  /\ dek' \in Deks
  /\ served' = [served EXCEPT ![p] = dek']
  /\ UNCHANGED shredded

Serve(p) ==
  /\ dek # NoDek
  /\ served' = [served EXCEPT ![p] = dek]
  /\ UNCHANGED <<dek, shredded>>

Stop(p) ==
  /\ served' = [served EXCEPT ![p] = NoDek]
  /\ UNCHANGED <<dek, shredded>>

Shred == ~shredded /\ shredded' = TRUE

Next ==
  \/ ~shredded /\ \E p \in Procs : Choose(p) \/ Serve(p) \/ Stop(p)
  \/ Shred
  \/ shredded /\ UNCHANGED shredded

Spec == Init /\ [][Next]_vars
=============================================================================
