------------------------------ MODULE KeyStore ------------------------------
(***************************************************************************)
(* service/key_store/kiyoka.rs: the wrapped data keys in the meta_blob     *)
(* table and the operations on them, run by several processes at once.     *)
(*                                                                         *)
(* Every operation is a few SQL statements outside a transaction; each     *)
(* statement is one step, and what a process has read or computed since    *)
(* the last one is in its job.  Cryptography is symbolic: a blob is a DEK  *)
(* wrapped by a key encryption key (KEK), and unwrapping needs that KEK.   *)
(* A blob garbled by destroy_dek() (rekeyed to a random key or overwritten *)
(* with random bytes) is Garbage, which no KEK opens.  The associated data *)
(* is the same constant scope everywhere, so it never makes a difference.  *)
(***************************************************************************)
EXTENDS Integers, FiniteSets

CONSTANTS
  Procs, Keks, Selectors, Deks,
  MayOverlap(_, _),  \* the jobs operators let run at the same time
  NoBlob, Garbage, NoDek, Idle

Ops == {"initialize", "reencrypt", "insert", "destroy", "destroy_unchecked"}
Destroys == {"destroy", "destroy_unchecked"}

VARIABLES
  db,       \* meta_blob: the entry of each selector
  unused,   \* DEKs the random generator has not produced yet
  job,      \* the operation each process is running
  served,   \* the DEK of the key store service each process runs
  backups,  \* base64 copies the operators have: results of reencrypt, listings
  shredded  \* history: destroy_dek() has overwritten an entry

vars == <<db, unused, job, served, backups, shredded>>

Wrapped == [kek : Keks, dek : Deks]
Blobs == Wrapped \cup {Garbage}

Opens(k, b) == b \in Wrapped /\ b.kek = k

(* rekey(): a blob that already has the new key stays as it is.            *)
Rekey(from, to, b) ==
  IF Opens(from, b) THEN [b EXCEPT !.kek = to] ELSE IF Opens(to, b) THEN b ELSE NoBlob

Jobs == [op : Ops, pc : {"find", "list", "insert", "update", "delete"},
         kek : Keks, sel : Selectors, to : Keks, dest : Selectors,
         blob : Blobs \cup {NoBlob}]

ASSUME KeyStoreAssumption ==
  NoDek \notin Deks /\ NoBlob \notin Blobs /\ Garbage \notin Wrapped /\ Idle \notin Jobs

TypeOK ==
  /\ db \in [Selectors -> Blobs \cup {NoBlob}]
  /\ unused \subseteq Deks
  /\ job \in [Procs -> Jobs \cup {Idle}]
  /\ served \in [Procs -> Deks \cup {NoDek}]
  /\ backups \subseteq Blobs
  /\ shredded \in BOOLEAN

Init ==
  /\ db = [s \in Selectors |-> NoBlob]
  /\ unused = Deks
  /\ job = [p \in Procs |-> Idle]
  /\ served = [p \in Procs |-> NoDek]
  /\ backups = {}
  /\ shredded = FALSE

Working(p, op, pc) == job[p] # Idle /\ job[p].op \in op /\ job[p].pc = pc

Goto(p, pc, blob) == job' = [job EXCEPT ![p].pc = pc, ![p].blob = blob]
Return(p) == job' = [job EXCEPT ![p] = Idle]

-----------------------------------------------------------------------------
(* Faulty variants.                                                        *)

GenerateAndServe(p) ==
  /\ Working(p, {"initialize"}, "list")
  /\ IF \E s \in Selectors : db[s] # NoBlob
     THEN Return(p) /\ UNCHANGED <<unused, served>>
     ELSE \E d \in unused :
            /\ unused' = unused \ {d}
            /\ Goto(p, "insert", [kek |-> job[p].kek, dek |-> d])
            /\ served' = [served EXCEPT ![p] = d]
  /\ UNCHANGED <<db, backups, shredded>>

UpdateSkipped(p) ==
  /\ Working(p, {"reencrypt"} \cup Destroys, "update")
  /\ IF job[p].op = "reencrypt" THEN Return(p) ELSE Goto(p, "delete", job[p].blob)
  /\ UNCHANGED <<db, unused, served, backups, shredded>>

FindForDestroyUnchecked(p) ==
  /\ Working(p, Destroys, "find")
  /\ IF db[job[p].sel] # NoBlob THEN Goto(p, "update", Garbage) ELSE Return(p)
  /\ UNCHANGED <<db, unused, served, backups, shredded>>

Upsert(p) ==
  /\ Working(p, {"initialize", "reencrypt", "insert"}, "insert")
  /\ LET j == job[p]
         target == IF j.op = "reencrypt" THEN j.dest ELSE j.sel
     IN  /\ db' = [db EXCEPT ![target] = j.blob]
         /\ served' = IF j.op = "initialize" THEN [served EXCEPT ![p] = j.blob.dek] ELSE served
         /\ backups' = IF j.op = "reencrypt" THEN backups \cup {j.blob} ELSE backups
  /\ Return(p)
  /\ UNCHANGED <<unused, shredded>>

ZeroedDek(p) ==
  /\ Working(p, {"initialize"}, "list")
  /\ job' = [job EXCEPT ![p].pc = "insert",
                        ![p].blob = [kek |-> job[p].kek, dek |-> NoDek]]
  /\ UNCHANGED <<db, unused, served, backups, shredded>>

-----------------------------------------------------------------------------
(* An operation is called with a KEK (from a passphrase) and a selector;   *)
(* reencrypt_dek() with a second pair, insert_dek() with a backup.         *)
Call(p) ==
  /\ job[p] = Idle /\ served[p] = NoDek
  /\ \E op \in Ops, k \in Keks, s \in Selectors :
       LET new(to, dest, pc, b) == job' = [job EXCEPT ![p] =
             [op |-> op, pc |-> pc, kek |-> k, sel |-> s, to |-> to, dest |-> dest, blob |-> b]]
       IN  \/ op \notin {"reencrypt", "insert"} /\ new(k, s, "find", NoBlob)
           \/ op = "reencrypt" /\ \E to \in Keks, dest \in Selectors : new(to, dest, "find", NoBlob)
           \/ op = "insert" /\ \E b \in backups : new(k, s, "insert", b)
  /\ \A q \in Procs \ {p} : job[q] # Idle => MayOverlap(job'[p], job[q])
  /\ UNCHANGED <<db, unused, served, backups, shredded>>

(* initialize(): the entry exists, and opens or does not.                  *)
FindForInit(p) ==
  /\ Working(p, {"initialize"}, "find")
  /\ LET j == job[p] b == db[j.sel] IN
       IF b = NoBlob
       THEN Goto(p, "list", NoBlob) /\ UNCHANGED served
       ELSE /\ served' = IF Opens(j.kek, b) THEN [served EXCEPT ![p] = b.dek] ELSE served
            /\ Return(p)
  /\ UNCHANGED <<db, unused, backups, shredded>>

(* initialize(): no entry of its own; with others around it gives up, else *)
(* it generates a DEK.                                                     *)
List(p) ==
  /\ Working(p, {"initialize"}, "list")
  /\ IF \E s \in Selectors : db[s] # NoBlob
     THEN Return(p) /\ UNCHANGED <<unused, shredded>>
     ELSE \E d \in unused :
            /\ unused' = unused \ {d}
            /\ Goto(p, "insert", [kek |-> job[p].kek, dek |-> d])
  /\ UNCHANGED <<db, served, backups, shredded>>

(* reencrypt_dek(): no entry or one that does not open, or a rekeyed blob  *)
(* to be stored in place of the entry or beside it.                        *)
FindForReencrypt(p) ==
  /\ Working(p, {"reencrypt"}, "find")
  /\ LET j == job[p] b == Rekey(j.kek, j.to, db[j.sel]) IN
       IF b = NoBlob
       THEN Return(p)
       ELSE Goto(p, IF j.sel = j.dest THEN "update" ELSE "insert", b)
  /\ UNCHANGED <<db, unused, served, backups, shredded>>

(* destroy_dek(): nothing to do, a key that does not match, or garble.     *)
FindForDestroy(p) ==
  /\ Working(p, Destroys, "find")
  /\ LET j == job[p] b == db[j.sel] IN
       IF b # NoBlob /\ (j.op = "destroy" => Opens(j.kek, b))
       THEN Goto(p, "update", Garbage)
       ELSE Return(p)
  /\ UNCHANGED <<db, unused, served, backups, shredded>>

(* INSERT: fails when the primary key exists.                              *)
Insert(p) ==
  /\ Working(p, {"initialize", "reencrypt", "insert"}, "insert")
  /\ LET j == job[p]
         target == IF j.op = "reencrypt" THEN j.dest ELSE j.sel
         free == db[target] = NoBlob
     IN  /\ db' = IF free THEN [db EXCEPT ![target] = j.blob] ELSE db
         /\ served' = IF free /\ j.op = "initialize"
                      THEN [served EXCEPT ![p] = j.blob.dek] ELSE served
         /\ backups' = IF free /\ j.op = "reencrypt"
                       THEN backups \cup {j.blob} ELSE backups
  /\ Return(p)
  /\ UNCHANGED <<unused, shredded>>

(* UPDATE: fails when the row is gone.                                     *)
Update(p) ==
  /\ Working(p, {"reencrypt"} \cup Destroys, "update")
  /\ LET j == job[p] gone == db[j.sel] = NoBlob IN
       /\ db' = IF gone THEN db ELSE [db EXCEPT ![j.sel] = j.blob]
       /\ backups' = IF ~gone /\ j.op = "reencrypt" THEN backups \cup {j.blob} ELSE backups
       /\ IF ~gone /\ j.op \in Destroys
          THEN Goto(p, "delete", j.blob) /\ shredded' = TRUE
          ELSE Return(p) /\ UNCHANGED shredded
  /\ UNCHANGED <<unused, served>>

Delete(p) ==
  /\ Working(p, Destroys, "delete")
  /\ db' = [db EXCEPT ![job[p].sel] = NoBlob]
  /\ Return(p)
  /\ UNCHANGED <<unused, served, backups, shredded>>

(* list_key_selectors() shows an operator every entry.                     *)
Export ==
  /\ backups' = backups \cup {db[s] : s \in {t \in Selectors : db[t] # NoBlob}}
  /\ UNCHANGED <<db, unused, job, served, shredded>>

(* A process stops between two statements, or stops serving.               *)
Crash(p) ==
  /\ job[p] # Idle \/ served[p] # NoDek
  /\ Return(p)
  /\ served' = [served EXCEPT ![p] = NoDek]
  /\ UNCHANGED <<db, unused, backups, shredded>>

Step(p) ==
  \/ Call(p) \/ FindForInit(p) \/ List(p) \/ FindForReencrypt(p) \/ FindForDestroy(p)
  \/ Insert(p) \/ Update(p) \/ Delete(p) \/ Crash(p)

Next == Export \/ \E p \in Procs : Step(p)

Spec == Init /\ [][Next]_vars

-----------------------------------------------------------------------------
(* Careful operators start servers on one selector at a time, and let      *)
(* nobody store an entry where a key is being destroyed; everything else   *)
(* may run beside everything.                                              *)
Stores(j) ==
  IF j.op \in {"initialize", "insert"} THEN {j.sel}
  ELSE IF j.op = "reencrypt" THEN {j.dest} ELSE {}

Careful(i, j) ==
  /\ i.op \in Destroys => i.sel \notin Stores(j)
  /\ j.op \in Destroys => j.sel \notin Stores(i)
  /\ i.op = "initialize" /\ j.op = "initialize" => i.sel = j.sel

-----------------------------------------------------------------------------
StoredDeks == {db[s].dek : s \in {t \in Selectors : db[t] \in Wrapped}}

(* There is one DEK: every entry, every backup and every running service   *)
(* have the same, although servers may start on an empty table at once,    *)
(* crash, and be rekeyed and restored meanwhile.  It is the same for ever  *)
(* unless destroy_dek() is used.                                           *)
OneDek ==
  ~shredded =>
    /\ Cardinality(StoredDeks \cup {b.dek : b \in backups \cap Wrapped}) <= 1
    /\ \A p \in Procs : served[p] # NoDek => served[p] \in StoredDeks

(* destroy_dek() deletes only what it has garbled: the wrapped key is      *)
(* overwritten in the table before its row goes.                           *)
DestroyErases ==
  [][\A s \in Selectors : db[s] # NoBlob /\ db'[s] = NoBlob => db[s] = Garbage]_vars

(* key_store/mod.rs:156: only with unchecked may the key given not match   *)
(* the existing entry, so a checked destroy_dek() replaces no entry that   *)
(* its key does not open.  The check and the UPDATE are two statements, so *)
(* this needs an operator who stores nothing under the selector meanwhile. *)
CheckedDestroyMatches ==
  [][\A p \in Procs :
       LET j == job[p] IN
         Working(p, {"destroy"}, "update") /\ db'[j.sel] # db[j.sel] /\ job'[p] # job[p]
           => Opens(j.kek, db[j.sel])]_vars

(* Until something is destroyed, the table is a vault of one key that is   *)
(* chosen once and served to everybody.                                    *)
Vault == INSTANCE DekVault WITH
           dek <- IF StoredDeks = {} THEN NoDek ELSE CHOOSE d \in StoredDeks : TRUE,
           shredded <- shredded

VaultSpec == Vault!Spec
=============================================================================
