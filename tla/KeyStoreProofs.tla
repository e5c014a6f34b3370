---------------------------- MODULE KeyStoreProofs ----------------------------
(***************************************************************************)
(* KeyStore, for every number of processes, selectors and keys, as long as *)
(* its operators are careful: servers that start at once use one selector, *)
(* and nobody stores an entry under a selector while its key is destroyed  *)
(* (the latter is needed, see destroy_race, and so is the former: each of  *)
(* two processes would find no entry and insert a key of its own).         *)
(*                                                                         *)
(* That there is one DEK is not inductive alone.  A process that is about  *)
(* to insert the DEK it has made has looked at the table some steps ago,   *)
(* so the proof needs that only a process with the same selector can have  *)
(* filled it since (Fresh), and then its INSERT fails; and whatever else a *)
(* process carries towards the table has come from there (KnownBlobs).     *)
(***************************************************************************)
EXTENDS KeyStore, FiniteSetTheorems, TLAPS

OperatorsCareful == \A i, j \in Jobs : MayOverlap(i, j) => Careful(i, j)

-----------------------------------------------------------------------------
(* The inductive invariant.                                                *)

(* The jobs that run at once are such that operators let them.             *)
KeptApart ==
  \A p, q \in Procs : p # q /\ job[p] # Idle /\ job[q] # Idle => Careful(job[p], job[q])

(* What a job carries once it has read or made it.                         *)
Carried ==
  \A p \in Procs :
    /\ Working(p, {"initialize"}, "insert") => job[p].blob \in Wrapped
    /\ Working(p, {"reencrypt"}, "insert") => job[p].blob \in Wrapped
    /\ Working(p, {"reencrypt"}, "update") => job[p].blob \in Wrapped /\ job[p].dest = job[p].sel
    /\ Working(p, {"insert"}, "insert") => job[p].blob \in Blobs
    /\ Working(p, Destroys, "update") => job[p].blob = Garbage

(* What destroy_dek() has found out stays so until its next statement, but *)
(* for what another destroy_dek() does to the entry.                       *)
Destroyed == {Garbage, NoBlob}
DestroyHolds ==
  \A p \in Procs :
    /\ Working(p, {"destroy"}, "update") =>
         Opens(job[p].kek, db[job[p].sel]) \/ db[job[p].sel] \in Destroyed
    /\ Working(p, Destroys, "delete") => shredded /\ db[job[p].sel] \in Destroyed

(* The blobs of the table, of the backups, and of jobs that have theirs    *)
(* from there.                                                             *)
Carries(p) ==
  Working(p, {"reencrypt", "insert"}, "insert") \/ Working(p, {"reencrypt"}, "update")

KnownBlobs ==
  {db[s] : s \in {t \in Selectors : db[t] # NoBlob}}
    \cup backups \cup {job[p].blob : p \in {q \in Procs : Carries(q)}}

AllWrapped == KnownBlobs \subseteq Wrapped
SameDek == \A a, b \in KnownBlobs : a.dek = b.dek
FromTable == KnownBlobs # {} => \E s \in Selectors : db[s] # NoBlob
ServedStored == \A p \in Procs : served[p] # NoDek => served[p] \in StoredDeks

(* A DEK is about to be inserted into an empty table, or in vain.          *)
Fresh ==
  \A p \in Procs : Working(p, {"initialize"}, "insert") /\ db[job[p].sel] = NoBlob =>
    \A s \in Selectors : db[s] = NoBlob

OneKey == AllWrapped /\ SameDek /\ FromTable /\ ServedStored /\ Fresh

Inv == TypeOK /\ KeptApart /\ Carried /\ DestroyHolds /\ (~shredded => OneKey)

-----------------------------------------------------------------------------
(* What the steps do to the jobs.                                          *)

Pcs == {"find", "list", "insert", "update", "delete"}

(* A job that goes on keeps its arguments, and the others theirs.          *)
LEMMA GotoFacts ==
  ASSUME TypeOK, NEW p \in Procs, job[p] # Idle, NEW pc \in Pcs,
         NEW b \in Blobs \cup {NoBlob}, Goto(p, pc, b)
  PROVE  /\ job' \in [Procs -> Jobs \cup {Idle}]
         /\ job'[p] # Idle /\ job'[p].pc = pc /\ job'[p].blob = b
         /\ job'[p].op = job[p].op /\ job'[p].kek = job[p].kek
         /\ job'[p].sel = job[p].sel /\ job'[p].dest = job[p].dest
         /\ \A q \in Procs \ {p} : job'[q] = job[q]
<1>1. job[p] \in Jobs
  BY DEF TypeOK
<1> DEFINE j == [job[p] EXCEPT !.pc = pc, !.blob = b]
<1>2. /\ j \in Jobs /\ j.pc = pc /\ j.blob = b
      /\ j.op = job[p].op /\ j.kek = job[p].kek /\ j.sel = job[p].sel /\ j.dest = job[p].dest
  BY <1>1 DEF Jobs, Pcs
<1>3. job' = [job EXCEPT ![p] = j]
  BY DEF Goto
<1> HIDE DEF j
<1> QED  BY <1>2, <1>3, KeyStoreAssumption DEF TypeOK

(* A job that returns is gone, and the others stay.                        *)
LEMMA ReturnFacts ==
  ASSUME TypeOK, NEW p \in Procs, Return(p)
  PROVE  /\ job' \in [Procs -> Jobs \cup {Idle}]
         /\ job'[p] = Idle
         /\ \A q \in Procs \ {p} : job'[q] = job[q]
BY DEF TypeOK, Return

(* A new job is one that may run beside the others, and has not found      *)
(* anything yet, or brings a backup to insert.                             *)
LEMMA CallFacts ==
  ASSUME TypeOK, NEW p \in Procs, Call(p)
  PROVE  /\ job' \in [Procs -> Jobs \cup {Idle}]
         /\ job'[p] \in Jobs /\ job[p] = Idle
         /\ job'[p].pc = "find" \/ (/\ job'[p].op = "insert" /\ job'[p].pc = "insert"
                                    /\ job'[p].blob \in backups)
         /\ \A q \in Procs \ {p} : job'[q] = job[q]
         /\ \A q \in Procs \ {p} : job[q] # Idle => MayOverlap(job'[p], job[q])
         /\ UNCHANGED <<db, unused, served, backups, shredded>>
<1>1. PICK op \in Ops, k \in Keks, s \in Selectors, to \in Keks, dest \in Selectors,
           pc \in {"find", "insert"}, b \in Blobs \cup {NoBlob} :
        /\ job' = [job EXCEPT ![p] = [op |-> op, pc |-> pc, kek |-> k, sel |-> s,
                                      to |-> to, dest |-> dest, blob |-> b]]
        /\ pc = "find" \/ (op = "insert" /\ pc = "insert" /\ b \in backups)
  BY DEF Call, TypeOK
<1> DEFINE j == [op |-> op, pc |-> pc, kek |-> k, sel |-> s, to |-> to, dest |-> dest,
                 blob |-> b]
<1>2. j \in Jobs /\ j.pc = pc /\ j.op = op /\ j.blob = b
  BY DEF Jobs
<1>3. job' = [job EXCEPT ![p] = j]
  BY <1>1
<1> HIDE DEF j
<1> QED  BY <1>1, <1>2, <1>3 DEF TypeOK, Call

-----------------------------------------------------------------------------
(* What keeps the parts of the invariant.                                  *)

(* Jobs that only go on or end stay apart.                                 *)
LEMMA ApartKept ==
  ASSUME KeptApart,
         \A p \in Procs : job'[p] # Idle =>
           /\ job[p] # Idle /\ job'[p].op = job[p].op
           /\ job'[p].sel = job[p].sel /\ job'[p].dest = job[p].dest
  PROVE  KeptApart'
<1> SUFFICES ASSUME NEW p \in Procs, NEW q \in Procs, p # q, job'[p] # Idle, job'[q] # Idle
             PROVE  Careful(job'[p], job'[q])
  BY DEF KeptApart
<1>1. Careful(job[p], job[q])
  BY DEF KeptApart
<1>2. /\ job'[p].op = job[p].op /\ job'[p].sel = job[p].sel /\ job'[p].dest = job[p].dest
      /\ job'[q].op = job[q].op /\ job'[q].sel = job[q].sel /\ job'[q].dest = job[q].dest
  OBVIOUS
<1>3. Stores(job'[p]) = Stores(job[p]) /\ Stores(job'[q]) = Stores(job[q])
  BY <1>2 DEF Stores
<1> QED  BY <1>1, <1>2, <1>3 DEF Careful

(* A job that stores does not disturb one that destroys: its entry is      *)
(* another, and what a DELETE or another destroy_dek() leaves is known.    *)
LEMMA DestroyUndisturbed ==
  ASSUME KeptApart, DestroyHolds, shredded => shredded',
         NEW p \in Procs, job[p] # Idle, job'[p] = Idle,
         \A q \in Procs \ {p} : job'[q] = job[q],
         NEW t, db'[t] \in Destroyed \cup {db[t]} \/ t \in Stores(job[p]),
         \A s \in Selectors \ {t} : db'[s] = db[s],
         TypeOK
  PROVE  DestroyHolds'
<1> SUFFICES ASSUME NEW q \in Procs, job'[q] # Idle, job'[q].op \in Destroys
             PROVE  /\ Working(q, {"destroy"}, "update")' =>
                          (Opens(job[q].kek, db[job[q].sel]) \/ db[job[q].sel] \in Destroyed)'
                    /\ Working(q, Destroys, "delete")'
                          => (shredded /\ db[job[q].sel] \in Destroyed)'
  BY DEF DestroyHolds, Working, Destroys
<1>1. q # p /\ job'[q] = job[q] /\ job[q].sel \in Selectors
  BY DEF TypeOK, Jobs
<1>2. job[q].sel \notin Stores(job[p])
  BY <1>1 DEF KeptApart, Careful
<1>3. db'[job[q].sel] \in Destroyed \/ db'[job[q].sel] = db[job[q].sel]
  BY <1>1, <1>2
<1> QED  BY <1>1, <1>3 DEF DestroyHolds, Working

(* There is still one DEK if no other comes in and the table is not        *)
(* emptied.                                                                *)
LEMMA KnownKept ==
  ASSUME AllWrapped, SameDek, FromTable,
         \A x \in KnownBlobs' : x \in Wrapped /\ \E a \in KnownBlobs : x.dek = a.dek,
         \A s \in Selectors : db[s] # NoBlob => db'[s] # NoBlob
  PROVE  AllWrapped' /\ SameDek' /\ FromTable'
<1>1. AllWrapped'
  BY DEF AllWrapped
<1>2. SameDek'
  <2> SUFFICES ASSUME NEW a \in KnownBlobs', NEW b \in KnownBlobs' PROVE a.dek = b.dek
    BY DEF SameDek
  <2>1. PICK c \in KnownBlobs, d \in KnownBlobs : a.dek = c.dek /\ b.dek = d.dek
    OBVIOUS
  <2> QED  BY <2>1 DEF SameDek
<1>3. FromTable'
  BY DEF FromTable
<1> QED  BY <1>1, <1>2, <1>3

(* A known blob is in the table, among the backups, or carried.            *)
LEMMA KnownCases ==
  ASSUME NEW x
  PROVE  x \in KnownBlobs <=>
           \/ \E s \in Selectors : db[s] # NoBlob /\ x = db[s]
           \/ x \in backups
           \/ \E p \in Procs : Carries(p) /\ x = job[p].blob
BY DEF KnownBlobs

(* Nothing new is known after a step that leaves table and backups alone   *)
(* and gives no job a blob to carry.                                       *)
LEMMA KnownSame ==
  ASSUME OneKey, UNCHANGED <<db, backups>>,
         \A p \in Procs : Carries(p)' => job'[p].blob \in backups \/
                                         (Carries(p) /\ job'[p] = job[p])
  PROVE  AllWrapped' /\ SameDek' /\ FromTable'
<1>1. KnownBlobs' \subseteq KnownBlobs
  <2> SUFFICES ASSUME NEW x \in KnownBlobs' PROVE x \in KnownBlobs
    OBVIOUS
  <2>1. \/ \E s \in Selectors : db'[s] # NoBlob /\ x = db'[s]
        \/ x \in backups'
        \/ \E p \in Procs : Carries(p)' /\ x = job'[p].blob
    BY DEF KnownBlobs
  <2> QED  BY <2>1, KnownCases
<1> QED  BY <1>1, KnownKept DEF OneKey, AllWrapped

(* The DEKs in the table are those of its entries.                         *)
LEMMA StoredCases ==
  ASSUME NEW d
  PROVE  d \in StoredDeks <=> \E s \in Selectors : db[s] \in Wrapped /\ d = db[s].dek
BY DEF StoredDeks

-----------------------------------------------------------------------------
(* Each operation keeps the invariant.                                     *)

(* The initial state satisfies it.                                         *)
LEMMA InitInv == Init => Inv
<1> SUFFICES ASSUME Init PROVE Inv
  OBVIOUS
<1>1. TypeOK
  BY DEF Init, TypeOK
<1>2. KeptApart /\ Carried /\ DestroyHolds /\ KnownBlobs = {} /\ ServedStored /\ Fresh
  BY DEF Init, KeptApart, Carried, DestroyHolds, KnownBlobs, Carries, Working,
         ServedStored, Fresh
<1> QED  BY <1>1, <1>2 DEF Inv, OneKey, AllWrapped, SameDek, FromTable

(* A call brings nothing new to the table, and comes only beside jobs that *)
(* its operator lets it run with.                                          *)
LEMMA CallInv == ASSUME OperatorsCareful, Inv, NEW p \in Procs, Call(p) PROVE Inv'
<1> USE DEF Inv
<1>1. /\ job' \in [Procs -> Jobs \cup {Idle}]
      /\ job'[p] \in Jobs /\ job[p] = Idle
      /\ job'[p].pc = "find" \/ (/\ job'[p].op = "insert" /\ job'[p].pc = "insert"
                                 /\ job'[p].blob \in backups)
      /\ \A q \in Procs \ {p} : job'[q] = job[q]
      /\ \A q \in Procs \ {p} : job[q] # Idle => MayOverlap(job'[p], job[q])
      /\ UNCHANGED <<db, unused, served, backups, shredded>>
  BY CallFacts
<1>2. TypeOK'
  BY <1>1 DEF TypeOK
<1>3. KeptApart'
  <2>1. ASSUME NEW q \in Procs \ {p}, job[q] # Idle
        PROVE  Careful(job'[p], job'[q]) /\ Careful(job'[q], job'[p])
    <3>1. job[q] \in Jobs /\ MayOverlap(job'[p], job[q])
      BY <1>1, <2>1 DEF TypeOK
    <3>2. Careful(job'[p], job'[q])
      BY <1>1, <3>1 DEF OperatorsCareful
    <3> QED  BY <3>2 DEF Careful
  <2> QED  BY <1>1, <2>1 DEF KeptApart
<1>4. Carried'
  BY <1>1 DEF Carried, Working, TypeOK
<1>5. DestroyHolds'
  BY <1>1 DEF DestroyHolds, Working
<1>6. ASSUME ~shredded' PROVE OneKey'
  <2>1. AllWrapped' /\ SameDek' /\ FromTable'
    BY <1>1, <1>6, KnownSame DEF Carries, Working
  <2>2. ServedStored'
    BY <1>1, <1>6 DEF OneKey, ServedStored, StoredDeks
  <2>3. Fresh'
    BY <1>1, <1>6 DEF OneKey, Fresh, Working
  <2> QED  BY <2>1, <2>2, <2>3 DEF OneKey
<1> QED  BY <1>2, <1>3, <1>4, <1>5, <1>6

(* initialize() finds its entry and serves its DEK, or goes on.            *)
LEMMA FindForInitInv == ASSUME Inv, NEW p \in Procs, FindForInit(p) PROVE Inv'
<1> USE DEF Inv
<1>1. Working(p, {"initialize"}, "find") /\ UNCHANGED <<db, unused, backups, shredded>>
  BY DEF FindForInit
<1>2. \/ Goto(p, "list", NoBlob) /\ UNCHANGED served
      \/ /\ Return(p)
         /\ \/ UNCHANGED served
            \/ /\ db[job[p].sel] \in Wrapped
               /\ served' = [served EXCEPT ![p] = db[job[p].sel].dek]
  BY DEF FindForInit, Opens
<1>3. /\ job' \in [Procs -> Jobs \cup {Idle}]
      /\ job'[p] = Idle \/ (/\ job'[p] # Idle /\ job'[p].op = "initialize"
                            /\ job'[p].pc = "list"
                            /\ job'[p].sel = job[p].sel /\ job'[p].dest = job[p].dest)
      /\ \A q \in Procs \ {p} : job'[q] = job[q]
  BY <1>1, <1>2, GotoFacts, ReturnFacts DEF Pcs, Working
<1>4. job[p] \in Jobs /\ job[p].sel \in Selectors
  BY <1>1 DEF TypeOK, Working, Jobs
<1>5. TypeOK'
  BY <1>1, <1>2, <1>3, <1>4 DEF TypeOK, Wrapped
<1>6. KeptApart'
  BY <1>1, <1>3, ApartKept DEF Working
<1>7. Carried'
  BY <1>3 DEF Carried, Working
<1>8. DestroyHolds'
  BY <1>1, <1>3 DEF DestroyHolds, Working, Destroys
<1>9. ASSUME ~shredded' PROVE OneKey'
  <2>1. AllWrapped' /\ SameDek' /\ FromTable'
    BY <1>1, <1>3, <1>9, KnownSame DEF Carries, Working
  <2>2. ServedStored'
    BY <1>1, <1>2, <1>4, <1>9, StoredCases DEF OneKey, ServedStored, StoredDeks, TypeOK
  <2>3. Fresh'
    BY <1>1, <1>3, <1>9 DEF OneKey, Fresh, Working
  <2> QED  BY <2>1, <2>2, <2>3 DEF OneKey
<1> QED  BY <1>5, <1>6, <1>7, <1>8, <1>9

(* initialize() makes a DEK for a table that it has seen empty.            *)
LEMMA ListInv == ASSUME Inv, NEW p \in Procs, List(p) PROVE Inv'
<1> USE DEF Inv
<1>1. /\ Working(p, {"initialize"}, "list") /\ UNCHANGED <<db, served, backups, shredded>>
      /\ unused' \subseteq unused
  BY DEF List
<1>2. \/ Return(p)
      \/ /\ \A s \in Selectors : db[s] = NoBlob
         /\ \E d \in unused : Goto(p, "insert", [kek |-> job[p].kek, dek |-> d])
  BY DEF List
<1>3. job[p] \in Jobs /\ job[p].kek \in Keks
  BY <1>1 DEF TypeOK, Working, Jobs
<1>4. /\ job' \in [Procs -> Jobs \cup {Idle}]
      /\ \/ job'[p] = Idle
         \/ /\ job'[p] # Idle /\ job'[p].op = "initialize" /\ job'[p].pc = "insert"
            /\ job'[p].sel = job[p].sel /\ job'[p].dest = job[p].dest /\ job'[p].blob \in Wrapped
            /\ \A s \in Selectors : db[s] = NoBlob
      /\ \A q \in Procs \ {p} : job'[q] = job[q]
  <2>1. CASE Return(p)
    BY <2>1, ReturnFacts
  <2>2. ASSUME NEW d \in unused, Goto(p, "insert", [kek |-> job[p].kek, dek |-> d])
        PROVE  /\ job' \in [Procs -> Jobs \cup {Idle}]
               /\ job'[p] # Idle /\ job'[p].op = "initialize" /\ job'[p].pc = "insert"
               /\ job'[p].sel = job[p].sel /\ job'[p].dest = job[p].dest /\ job'[p].blob \in Wrapped
               /\ \A q \in Procs \ {p} : job'[q] = job[q]
    <3>1. [kek |-> job[p].kek, dek |-> d] \in Wrapped
      BY <1>3 DEF TypeOK, Wrapped
    <3> QED  BY <1>1, <2>2, <3>1, GotoFacts DEF Pcs, Working, Blobs
  <2> QED  BY <1>2, <2>1, <2>2
<1>5. TypeOK'
  BY <1>1, <1>4 DEF TypeOK
<1>6. KeptApart'
  BY <1>1, <1>4, ApartKept DEF Working
<1>7. Carried'
  BY <1>4 DEF Carried, Working, Destroys
<1>8. DestroyHolds'
  BY <1>1, <1>4 DEF DestroyHolds, Working, Destroys
<1>9. ASSUME ~shredded' PROVE OneKey'
  <2>1. AllWrapped' /\ SameDek' /\ FromTable'
    BY <1>1, <1>4, <1>9, KnownSame DEF Carries, Working
  <2>2. ServedStored'
    BY <1>1, <1>9 DEF OneKey, ServedStored, StoredDeks
  <2>3. Fresh'
    BY <1>1, <1>4, <1>9 DEF OneKey, Fresh, Working
  <2> QED  BY <2>1, <2>2, <2>3 DEF OneKey
<1> QED  BY <1>5, <1>6, <1>7, <1>8, <1>9

(* reencrypt_dek() carries a blob with the DEK of the entry it has found.  *)
LEMMA FindForReencryptInv == ASSUME Inv, NEW p \in Procs, FindForReencrypt(p) PROVE Inv'
<1> USE DEF Inv
<1> DEFINE j == job[p]
           b == Rekey(j.kek, j.to, db[j.sel])
<1>1. /\ Working(p, {"reencrypt"}, "find")
      /\ UNCHANGED <<db, unused, served, backups, shredded>>
  BY DEF FindForReencrypt
<1>2. j \in Jobs /\ j.sel \in Selectors /\ j.to \in Keks
  BY <1>1 DEF TypeOK, Working, Jobs
<1>3. b = NoBlob \/ (b \in Wrapped /\ db[j.sel] \in Wrapped /\ b.dek = db[j.sel].dek)
  BY <1>2 DEF Rekey, Opens, Wrapped
<1>4. /\ job' \in [Procs -> Jobs \cup {Idle}]
      /\ \/ job'[p] = Idle
         \/ /\ job'[p] # Idle /\ job'[p].op = "reencrypt" /\ job'[p].pc \in {"update", "insert"}
            /\ job'[p].sel = j.sel /\ job'[p].dest = j.dest /\ job'[p].blob = b
            /\ job'[p].pc = "update" => j.sel = j.dest
            /\ b \in Wrapped /\ db[j.sel] \in Wrapped /\ b.dek = db[j.sel].dek
      /\ \A q \in Procs \ {p} : job'[q] = job[q]
  <2>1. CASE b = NoBlob
    BY <2>1, ReturnFacts DEF FindForReencrypt
  <2>2. CASE b # NoBlob
    <3>1. PICK pc \in {"update", "insert"} : Goto(p, pc, b) /\ (pc = "update" => j.sel = j.dest)
      BY <2>2 DEF FindForReencrypt
    <3> HIDE DEF b
    <3> QED  BY <1>1, <1>3, <2>2, <3>1, GotoFacts DEF Pcs, Working, Blobs
  <2> QED  BY <2>1, <2>2
<1>5. TypeOK'
  BY <1>1, <1>4 DEF TypeOK
<1>6. KeptApart'
  BY <1>1, <1>4, ApartKept DEF Working
<1>7. Carried'
  BY <1>4 DEF Carried, Working, Destroys
<1>8. DestroyHolds'
  BY <1>1, <1>4 DEF DestroyHolds, Working, Destroys
<1>9. ASSUME ~shredded' PROVE OneKey'
  <2>1. AllWrapped' /\ SameDek' /\ FromTable'
    <3>1. ASSUME NEW x \in KnownBlobs'
          PROVE  x \in Wrapped /\ \E a \in KnownBlobs : x.dek = a.dek
      <4>1. \/ x \in KnownBlobs
            \/ x \in Wrapped /\ db[j.sel] \in Wrapped /\ x.dek = db[j.sel].dek
        <5>1. \/ \E s \in Selectors : db[s] # NoBlob /\ x = db[s]
              \/ x \in backups
              \/ \E q \in Procs : Carries(q)' /\ x = job'[q].blob
          BY <1>1, <3>1 DEF KnownBlobs
        <5>2. ASSUME NEW q \in Procs \ {p}, Carries(q)' PROVE Carries(q) /\ job'[q] = job[q]
          BY <1>4, <5>2 DEF Carries, Working
        <5>3. Carries(p)' => /\ job'[p].blob \in Wrapped /\ db[j.sel] \in Wrapped
                             /\ job'[p].blob.dek = db[j.sel].dek
          BY <1>4 DEF Carries, Working
        <5> QED  BY <5>1, <5>2, <5>3, KnownCases
      <4>2. db[j.sel] \in Wrapped => db[j.sel] \in KnownBlobs
        BY <1>2, KnownCases, KeyStoreAssumption DEF Blobs
      <4> QED  BY <1>1, <1>9, <4>1, <4>2 DEF OneKey, AllWrapped
    <3> QED  BY <1>1, <1>9, <3>1, KnownKept DEF OneKey
  <2>2. ServedStored'
    BY <1>1, <1>9 DEF OneKey, ServedStored, StoredDeks
  <2>3. Fresh'
    BY <1>1, <1>4, <1>9 DEF OneKey, Fresh, Working
  <2> QED  BY <2>1, <2>2, <2>3 DEF OneKey
<1> QED  BY <1>5, <1>6, <1>7, <1>8, <1>9

(* destroy_dek() begins where nothing else runs.                           *)
LEMMA FindForDestroyInv == ASSUME Inv, NEW p \in Procs, FindForDestroy(p) PROVE Inv'
<1> USE DEF Inv
<1>1. Working(p, Destroys, "find") /\ UNCHANGED <<db, unused, served, backups, shredded>>
  BY DEF FindForDestroy
<1>2. /\ job' \in [Procs -> Jobs \cup {Idle}]
      /\ \/ job'[p] = Idle
         \/ /\ job'[p] # Idle /\ job'[p].op = job[p].op /\ job'[p].pc = "update"
            /\ job'[p].sel = job[p].sel /\ job'[p].dest = job[p].dest /\ job'[p].kek = job[p].kek
            /\ job'[p].blob = Garbage
            /\ job[p].op = "destroy" => Opens(job[p].kek, db[job[p].sel])
      /\ \A q \in Procs \ {p} : job'[q] = job[q]
  <2>1. CASE Return(p)
    BY <2>1, ReturnFacts
  <2>2. CASE /\ Goto(p, "update", Garbage)
             /\ job[p].op = "destroy" => Opens(job[p].kek, db[job[p].sel])
    BY <1>1, <2>2, GotoFacts DEF Pcs, Working, Blobs
  <2> QED  BY <2>1, <2>2 DEF FindForDestroy
<1>3. TypeOK'
  BY <1>1, <1>2 DEF TypeOK
<1>4. KeptApart'
  BY <1>1, <1>2, ApartKept DEF Working
<1>5. Carried'
  BY <1>1, <1>2 DEF Carried, Working, Destroys
<1>6. DestroyHolds'
  BY <1>1, <1>2 DEF DestroyHolds, Working, Destroys, Opens
<1>7. ASSUME ~shredded' PROVE OneKey'
  <2>1. AllWrapped' /\ SameDek' /\ FromTable'
    BY <1>1, <1>2, <1>7, KnownSame DEF Carries, Working, Destroys
  <2>2. ServedStored'
    BY <1>1, <1>7 DEF OneKey, ServedStored, StoredDeks
  <2>3. Fresh'
    BY <1>1, <1>2, <1>7 DEF OneKey, Fresh, Working, Destroys
  <2> QED  BY <2>1, <2>2, <2>3 DEF OneKey
<1> QED  BY <1>3, <1>4, <1>5, <1>6, <1>7

(* An INSERT fills an empty row or changes nothing.                        *)
LEMMA InsertInv == ASSUME Inv, NEW p \in Procs, Insert(p) PROVE Inv'
<1> USE DEF Inv
<1> DEFINE j == job[p]
           target == IF j.op = "reencrypt" THEN j.dest ELSE j.sel
<1>1. Working(p, {"initialize", "reencrypt", "insert"}, "insert") /\ UNCHANGED <<unused, shredded>>
  BY DEF Insert
<1>2. /\ job' \in [Procs -> Jobs \cup {Idle}] /\ job'[p] = Idle
      /\ \A q \in Procs \ {p} : job'[q] = job[q]
  BY ReturnFacts DEF Insert
<1>3. j \in Jobs /\ target \in Selectors /\ j.blob \in Blobs
      /\ (j.op = "initialize" => j.blob \in Wrapped)
  BY <1>1, KeyStoreAssumption DEF TypeOK, Working, Jobs, Carried, Blobs
<1>4. \/ UNCHANGED <<db, served, backups>>
      \/ /\ db[target] = NoBlob /\ db' = [db EXCEPT ![target] = j.blob]
         /\ served' = IF j.op = "initialize" THEN [served EXCEPT ![p] = j.blob.dek] ELSE served
         /\ backups' = IF j.op = "reencrypt" THEN backups \cup {j.blob} ELSE backups
  BY DEF Insert
<1> HIDE DEF target
<1>5. TypeOK'
  BY <1>1, <1>2, <1>3, <1>4 DEF TypeOK, Wrapped
<1>6. KeptApart'
  BY <1>1, <1>2, ApartKept DEF Working
<1>7. Carried'
  BY <1>2 DEF Carried, Working
<1>8. DestroyHolds'
  <2>1. target \in Stores(j)
    BY <1>1 DEF Stores, Working, target
  <2>2. \A s \in Selectors \ {target} : db'[s] = db[s]
    BY <1>4 DEF TypeOK
  <2> QED  BY <1>1, <1>2, <2>1, <2>2, DestroyUndisturbed DEF Working
<1>9. ASSUME ~shredded', UNCHANGED <<db, served, backups>> PROVE OneKey'
  <2>1. AllWrapped' /\ SameDek' /\ FromTable'
    BY <1>1, <1>2, <1>9, KnownSame DEF Carries, Working
  <2>2. ServedStored'
    BY <1>9, <1>1 DEF OneKey, ServedStored, StoredDeks
  <2>3. Fresh'
    BY <1>1, <1>2, <1>9 DEF OneKey, Fresh, Working
  <2> QED  BY <2>1, <2>2, <2>3 DEF OneKey
<1>10. ASSUME ~shredded',
              db[target] = NoBlob, db' = [db EXCEPT ![target] = j.blob],
              served' = IF j.op = "initialize" THEN [served EXCEPT ![p] = j.blob.dek] ELSE served,
              backups' = IF j.op = "reencrypt" THEN backups \cup {j.blob} ELSE backups
       PROVE  OneKey'
  <2>1. OneKey
    BY <1>1, <1>10
  <2>2. \A s \in Selectors : db[s] # NoBlob => db'[s] = db[s]
    BY <1>3, <1>10 DEF TypeOK
  <2>3. db'[target] = j.blob /\ j.blob # NoBlob
    BY <1>3, <1>10, KeyStoreAssumption DEF TypeOK
  <2>4. KnownBlobs' \subseteq KnownBlobs \cup {j.blob}
    <3> SUFFICES ASSUME NEW x \in KnownBlobs' PROVE x \in KnownBlobs \/ x = j.blob
      OBVIOUS
    <3>1. \/ \E s \in Selectors : db'[s] # NoBlob /\ x = db'[s]
          \/ x \in backups'
          \/ \E q \in Procs : Carries(q)' /\ x = job'[q].blob
      BY DEF KnownBlobs
    <3>2. ASSUME NEW s \in Selectors PROVE db'[s] = db[s] \/ db'[s] = j.blob
      BY <1>10 DEF TypeOK
    <3>3. ASSUME NEW q \in Procs, Carries(q)' PROVE Carries(q) /\ job'[q] = job[q]
      BY <1>2, <3>3 DEF Carries, Working
    <3> QED  BY <1>10, <3>1, <3>2, <3>3, KnownCases
  <2>5. CASE j.op = "initialize"
    <3>1. target = j.sel /\ Working(p, {"initialize"}, "insert") /\ j.blob \in Wrapped
      BY <1>1, <1>3, <2>5 DEF Working, target
    <3>2. \A s \in Selectors : db[s] = NoBlob
      BY <1>10, <2>1, <3>1 DEF OneKey, Fresh
    <3>3. KnownBlobs = {}
      BY <2>1, <3>2 DEF OneKey, FromTable
    <3>4. KnownBlobs' \subseteq {j.blob}
      BY <2>4, <3>3
    <3>5. AllWrapped' /\ SameDek' /\ FromTable'
      BY <1>3, <2>3, <3>1, <3>4 DEF AllWrapped, SameDek, FromTable
    <3>6. StoredDeks = {} /\ j.blob.dek \in StoredDeks'
      <4>1. StoredDeks = {}
        BY <3>2, KeyStoreAssumption DEF StoredDeks, Blobs
      <4>2. j.blob.dek \in StoredDeks'
        BY <1>3, <2>3, <3>1 DEF StoredDeks
      <4> QED  BY <4>1, <4>2
    <3>7. ServedStored'
      BY <1>10, <2>1, <2>5, <3>6 DEF OneKey, ServedStored, TypeOK
    <3>8. Fresh'
      <4>1. ASSUME NEW q \in Procs, Working(q, {"initialize"}, "insert")'
            PROVE  db'[job'[q].sel] # NoBlob
        <5>1. q # p /\ job'[q] = job[q] /\ job[q].op = "initialize" /\ job[q] # Idle
          BY <1>2, <4>1 DEF Working
        <5>2. job[q].sel = j.sel
          BY <1>1, <2>5, <5>1 DEF KeptApart, Careful, Working
        <5> QED  BY <2>3, <3>1, <5>1, <5>2
      <4> QED  BY <4>1 DEF Fresh
    <3> QED  BY <3>5, <3>7, <3>8 DEF OneKey
  <2>6. CASE j.op # "initialize"
    <3>1. Carries(p)
      BY <1>1, <2>6 DEF Carries, Working
    <3>2. j.blob \in KnownBlobs
      BY <3>1, KnownCases
    <3>3. AllWrapped' /\ SameDek' /\ FromTable'
      <4>1. \A x \in KnownBlobs' : x \in KnownBlobs
        BY <2>4, <3>2
      <4>2. \A s \in Selectors : db[s] # NoBlob => db'[s] # NoBlob
        BY <2>2
      <4> QED  BY <2>1, <4>1, <4>2, KnownKept DEF OneKey, AllWrapped
    <3>4. ServedStored'
      <4>1. StoredDeks \subseteq StoredDeks'
        <5> SUFFICES ASSUME NEW d \in StoredDeks PROVE d \in StoredDeks'
          OBVIOUS
        <5>1. PICK s \in Selectors : db[s] \in Wrapped /\ d = db[s].dek
          BY StoredCases
        <5>2. db'[s] = db[s]
          BY <2>2, <5>1, KeyStoreAssumption DEF Blobs
        <5> QED  BY <5>1, <5>2 DEF StoredDeks
      <4> QED  BY <1>10, <2>1, <2>6, <4>1 DEF OneKey, ServedStored
    <3>5. Fresh'
      <4>1. PICK t \in Selectors : db[t] # NoBlob
        BY <2>1, <3>2 DEF OneKey, FromTable
      <4>2. ASSUME NEW q \in Procs, Working(q, {"initialize"}, "insert")'
            PROVE  db'[job'[q].sel] # NoBlob
        <5>1. job'[q] = job[q] /\ Working(q, {"initialize"}, "insert")
          BY <1>2, <4>2 DEF Working
        <5>2. job[q].sel \in Selectors
          BY <5>1 DEF TypeOK, Working, Jobs
        <5>3. db[job[q].sel] # NoBlob
          BY <2>1, <4>1, <5>1 DEF OneKey, Fresh
        <5> QED  BY <2>2, <5>1, <5>2, <5>3
      <4> QED  BY <4>2 DEF Fresh
    <3> QED  BY <3>3, <3>4, <3>5 DEF OneKey
  <2> QED  BY <2>5, <2>6
<1> QED  BY <1>4, <1>5, <1>6, <1>7, <1>8, <1>9, <1>10

(* An UPDATE of reencrypt_dek() puts the same DEK in the row's place; one  *)
(* of destroy_dek() ends what is promised.                                 *)
LEMMA UpdateInv == ASSUME Inv, NEW p \in Procs, Update(p) PROVE Inv'
<1> USE DEF Inv
<1> DEFINE j == job[p]
<1>1. Working(p, {"reencrypt"} \cup Destroys, "update") /\ UNCHANGED <<unused, served>>
  BY DEF Update
<1>2. /\ j \in Jobs /\ j.sel \in Selectors
      /\ \/ j.op = "reencrypt" /\ j.blob \in Wrapped
         \/ j.op \in Destroys /\ j.blob = Garbage
  <2>1. j \in Jobs /\ j.sel \in Selectors
    BY <1>1 DEF TypeOK, Working, Jobs
  <2>2. CASE j.op = "reencrypt"
    BY <1>1, <2>1, <2>2 DEF Working, Carried
  <2>3. CASE j.op \in Destroys
    BY <1>1, <2>1, <2>3 DEF Working, Carried
  <2> QED  BY <1>1, <2>1, <2>2, <2>3 DEF Working
<1>3. CASE db[j.sel] = NoBlob
  <2>1. Return(p) /\ UNCHANGED <<db, backups, shredded>>
    BY <1>3 DEF Update
  <2>2. /\ job' \in [Procs -> Jobs \cup {Idle}] /\ job'[p] = Idle
        /\ \A q \in Procs \ {p} : job'[q] = job[q]
    BY <2>1, ReturnFacts
  <2>3. TypeOK' /\ KeptApart' /\ Carried' /\ DestroyHolds'
    BY <1>1, <2>1, <2>2, ApartKept DEF TypeOK, Carried, DestroyHolds, Working
  <2>4. ASSUME ~shredded' PROVE OneKey'
    <3>1. AllWrapped' /\ SameDek' /\ FromTable'
      BY <2>1, <2>2, <2>4, KnownSame DEF Carries, Working
    <3>2. ServedStored' /\ Fresh'
      BY <1>1, <2>1, <2>2, <2>4 DEF OneKey, ServedStored, StoredDeks, Fresh, Working
    <3> QED  BY <3>1, <3>2 DEF OneKey
  <2> QED  BY <2>3, <2>4
<1>4. CASE db[j.sel] # NoBlob /\ j.op \in Destroys
  <2>1. /\ Goto(p, "delete", j.blob) /\ shredded'
        /\ db' = [db EXCEPT ![j.sel] = Garbage] /\ UNCHANGED backups
    BY <1>2, <1>4 DEF Update, Destroys
  <2>2. /\ job' \in [Procs -> Jobs \cup {Idle}]
        /\ job'[p] # Idle /\ job'[p].op = j.op /\ job'[p].pc = "delete"
        /\ job'[p].sel = j.sel /\ job'[p].dest = j.dest
        /\ \A q \in Procs \ {p} : job'[q] = job[q]
    BY <1>1, <1>2, <1>4, <2>1, GotoFacts DEF Pcs, Working, Blobs, Destroys
  <2>3. TypeOK'
    BY <1>1, <1>2, <2>1, <2>2 DEF TypeOK, Blobs
  <2>4. KeptApart'
    BY <1>1, <2>2, ApartKept DEF Working
  <2>5. Carried'
    BY <2>2 DEF Carried, Working
  <2>6. DestroyHolds'
    <3>1. db'[j.sel] = Garbage /\ \A s \in Selectors \ {j.sel} : db'[s] = db[s]
      BY <1>2, <2>1 DEF TypeOK
    <3>2. \A q \in Procs \ {p} : Working(q, {"destroy"}, "update")' =>
            (Opens(job[q].kek, db[job[q].sel]) \/ db[job[q].sel] \in Destroyed)'
      BY <2>2, <3>1 DEF DestroyHolds, Destroyed, Working, TypeOK, Jobs
    <3>3. \A q \in Procs \ {p} : Working(q, Destroys, "delete")' =>
            (db[job[q].sel] \in Destroyed)'
      BY <2>2, <3>1 DEF DestroyHolds, Destroyed, Working, TypeOK, Jobs
    <3>4. db'[job'[p].sel] \in Destroyed /\ job'[p].pc = "delete"
      BY <2>2, <3>1 DEF Destroyed
    <3> QED  BY <2>1, <3>2, <3>3, <3>4 DEF DestroyHolds, Working
  <2> QED  BY <2>1, <2>3, <2>4, <2>5, <2>6
<1>5. CASE db[j.sel] # NoBlob /\ j.op = "reencrypt"
  <2>1. /\ Return(p) /\ UNCHANGED shredded /\ j.blob \in Wrapped
        /\ db' = [db EXCEPT ![j.sel] = j.blob] /\ backups' = backups \cup {j.blob}
    BY <1>2, <1>5 DEF Update, Destroys
  <2>2. /\ job' \in [Procs -> Jobs \cup {Idle}] /\ job'[p] = Idle
        /\ \A q \in Procs \ {p} : job'[q] = job[q]
    BY <2>1, ReturnFacts
  <2>3. TypeOK'
    BY <1>1, <1>2, <2>1, <2>2 DEF TypeOK, Blobs
  <2>4. KeptApart'
    BY <1>1, <2>2, ApartKept DEF Working
  <2>5. Carried'
    BY <2>2 DEF Carried, Working
  <2>6. DestroyHolds'
    <3>1. j.sel \in Stores(j)
      BY <1>1, <1>5 DEF Stores, Carried, Working
    <3>2. \A s \in Selectors \ {j.sel} : db'[s] = db[s]
      BY <2>1 DEF TypeOK
    <3> QED  BY <1>1, <2>1, <2>2, <3>1, <3>2, DestroyUndisturbed DEF Working
  <2>7. ASSUME ~shredded' PROVE OneKey'
    <3>1. OneKey
      BY <2>1, <2>7
    <3>2. j.blob \in KnownBlobs /\ db[j.sel] \in KnownBlobs
      BY <1>1, <1>2, <1>5, KnownCases DEF Carries, Working
    <3>3. db[j.sel] \in Wrapped /\ db[j.sel].dek = j.blob.dek
      BY <3>1, <3>2 DEF OneKey, AllWrapped, SameDek
    <3>4. \A s \in Selectors : (db[s] # NoBlob <=> db'[s] # NoBlob)
                               /\ (db'[s] = db[s] \/ (s = j.sel /\ db'[s] = j.blob))
      BY <1>2, <1>5, <2>1, KeyStoreAssumption DEF TypeOK, Blobs
    <3>5. KnownBlobs' \subseteq KnownBlobs
      <4> SUFFICES ASSUME NEW x \in KnownBlobs' PROVE x \in KnownBlobs
        OBVIOUS
      <4>1. \/ \E s \in Selectors : db'[s] # NoBlob /\ x = db'[s]
            \/ x \in backups'
            \/ \E q \in Procs : Carries(q)' /\ x = job'[q].blob
        BY DEF KnownBlobs
      <4>2. ASSUME NEW q \in Procs, Carries(q)' PROVE Carries(q) /\ job'[q] = job[q]
        BY <2>2, <4>2 DEF Carries, Working
      <4> QED  BY <2>1, <3>2, <3>4, <4>1, <4>2, KnownCases
    <3>6. AllWrapped' /\ SameDek' /\ FromTable'
      BY <3>1, <3>4, <3>5, KnownKept DEF OneKey, AllWrapped
    <3>7. StoredDeks \subseteq StoredDeks'
      <4> SUFFICES ASSUME NEW d \in StoredDeks PROVE d \in StoredDeks'
        OBVIOUS
      <4>1. PICK s \in Selectors : db[s] \in Wrapped /\ d = db[s].dek
        BY StoredCases
      <4>2. db'[s] \in Wrapped /\ db'[s].dek = d
        BY <2>1, <3>3, <3>4, <4>1
      <4> QED  BY <4>2 DEF StoredDeks
    <3>8. ServedStored'
      BY <1>1, <3>1, <3>7 DEF OneKey, ServedStored
    <3>9. Fresh'
      <4> SUFFICES ASSUME NEW q \in Procs, Working(q, {"initialize"}, "insert")',
                          db'[job'[q].sel] = NoBlob
                   PROVE  \A s \in Selectors : db'[s] = NoBlob
        BY DEF Fresh
      <4>1. job'[q] = job[q] /\ Working(q, {"initialize"}, "insert")
        BY <2>2 DEF Working
      <4>2. job[q].sel \in Selectors
        BY <4>1 DEF TypeOK, Working, Jobs
      <4> QED  BY <3>1, <3>4, <4>1, <4>2 DEF OneKey, Fresh
    <3> QED  BY <3>6, <3>8, <3>9 DEF OneKey
  <2> QED  BY <2>3, <2>4, <2>5, <2>6, <2>7
<1> QED  BY <1>2, <1>3, <1>4, <1>5

(* Its DELETE comes after its UPDATE, when the promise has ended.          *)
LEMMA DeleteInv == ASSUME Inv, NEW p \in Procs, Delete(p) PROVE Inv'
<1> USE DEF Inv
<1>1. Working(p, Destroys, "delete") /\ UNCHANGED <<unused, served, backups, shredded>>
  BY DEF Delete
<1>2. /\ job' \in [Procs -> Jobs \cup {Idle}] /\ job'[p] = Idle
      /\ \A q \in Procs \ {p} : job'[q] = job[q]
  BY ReturnFacts DEF Delete
<1>3. TypeOK'
  BY <1>1, <1>2 DEF TypeOK, Delete
<1>4. KeptApart'
  BY <1>1, <1>2, ApartKept DEF Working
<1>5. Carried'
  BY <1>2 DEF Carried, Working
<1>6. DestroyHolds'
  <2>1. db' = [db EXCEPT ![job[p].sel] = NoBlob] /\ job[p].sel \in Selectors /\ job[p] # Idle
    BY <1>1 DEF Delete, Working, TypeOK, Jobs
  <2>2. db'[job[p].sel] \in Destroyed /\ \A s \in Selectors \ {job[p].sel} : db'[s] = db[s]
    BY <2>1 DEF Destroyed, TypeOK
  <2> QED  BY <1>1, <1>2, <2>1, <2>2, DestroyUndisturbed
<1>7. shredded'
  BY <1>1 DEF DestroyHolds
<1> QED  BY <1>3, <1>4, <1>5, <1>6, <1>7

(* A listing makes backups of what is in the table.                        *)
LEMMA ExportInv == ASSUME Inv, Export PROVE Inv'
<1> USE DEF Inv
<1>1. UNCHANGED <<db, unused, job, served, shredded>>
  BY DEF Export
<1>2. TypeOK'
  BY <1>1 DEF Export, TypeOK
<1>3. KeptApart' /\ Carried' /\ DestroyHolds'
  BY <1>1 DEF KeptApart, Carried, DestroyHolds, Working
<1>4. ASSUME ~shredded' PROVE OneKey'
  <2>1. KnownBlobs' = KnownBlobs
    BY <1>1 DEF Export, KnownBlobs, Carries, Working
  <2>2. AllWrapped' /\ SameDek' /\ FromTable'
    BY <1>1, <1>4, <2>1 DEF OneKey, AllWrapped, SameDek, FromTable
  <2>3. ServedStored' /\ Fresh'
    BY <1>1, <1>4 DEF OneKey, ServedStored, StoredDeks, Fresh, Working
  <2> QED  BY <2>2, <2>3 DEF OneKey
<1> QED  BY <1>2, <1>3, <1>4

(* A process that crashes carries and serves nothing.                      *)
LEMMA CrashInv == ASSUME Inv, NEW p \in Procs, Crash(p) PROVE Inv'
<1> USE DEF Inv
<1>1. UNCHANGED <<db, unused, backups, shredded>> /\ served' = [served EXCEPT ![p] = NoDek]
  BY DEF Crash
<1>2. /\ job' \in [Procs -> Jobs \cup {Idle}] /\ job'[p] = Idle
      /\ \A q \in Procs \ {p} : job'[q] = job[q]
  BY ReturnFacts DEF Crash
<1>3. TypeOK'
  BY <1>1, <1>2 DEF TypeOK
<1>4. KeptApart' /\ Carried' /\ DestroyHolds'
  BY <1>1, <1>2 DEF KeptApart, Carried, DestroyHolds, Working
<1>5. ASSUME ~shredded' PROVE OneKey'
  <2>1. AllWrapped' /\ SameDek' /\ FromTable'
    BY <1>1, <1>2, <1>5, KnownSame DEF Carries, Working
  <2>2. ServedStored'
    BY <1>1, <1>5 DEF OneKey, ServedStored, StoredDeks, TypeOK
  <2>3. Fresh'
    BY <1>1, <1>2, <1>5 DEF OneKey, Fresh, Working
  <2> QED  BY <2>1, <2>2, <2>3 DEF OneKey
<1> QED  BY <1>3, <1>4, <1>5

(* Every step keeps the invariant.                                         *)
LEMMA StepInv == ASSUME OperatorsCareful PROVE Inv /\ [Next]_vars => Inv'
<1> SUFFICES ASSUME Inv, [Next]_vars PROVE Inv'
  OBVIOUS
<1>1. CASE UNCHANGED vars
  BY <1>1 DEF vars, Inv, TypeOK, KeptApart, Carried, DestroyHolds, Working, OneKey,
     AllWrapped, SameDek, FromTable, KnownBlobs, Carries, ServedStored, StoredDeks, Fresh
<1>2. CASE Export
  BY <1>2, ExportInv
<1>3. ASSUME NEW p \in Procs, Step(p) PROVE Inv'
  BY <1>3, CallInv, FindForInitInv, ListInv, FindForReencryptInv, FindForDestroyInv,
     InsertInv, UpdateInv, DeleteInv, CrashInv DEF Step
<1> QED  BY <1>1, <1>2, <1>3 DEF Next

-----------------------------------------------------------------------------
(* What follows from it.                                                   *)

(* The inductive invariant holds in every state.                           *)
THEOREM Invariance == ASSUME OperatorsCareful PROVE Spec => []Inv
BY InitInv, StepInv, PTL DEF Spec

(* The type invariant of the module.                                       *)
THEOREM TypeCorrect == ASSUME OperatorsCareful PROVE Spec => []TypeOK
BY Invariance, PTL DEF Inv

(* There is one DEK, in the table, in every backup and in every service,   *)
(* however many servers start on an empty table, are rekeyed, restored and *)
(* crash between two statements, until destroy_dek() is used.              *)
THEOREM OneDekTheorem == ASSUME OperatorsCareful PROVE Spec => []OneDek
<1>1. Inv => OneDek
  <2> SUFFICES ASSUME Inv, ~shredded
               PROVE  /\ Cardinality(StoredDeks \cup {b.dek : b \in backups \cap Wrapped}) <= 1
                      /\ \A p \in Procs : served[p] # NoDek => served[p] \in StoredDeks
    BY DEF OneDek
  <2> USE DEF Inv
  <2> DEFINE D == StoredDeks \cup {b.dek : b \in backups \cap Wrapped}
  <2>1. \A d \in D : \E b \in KnownBlobs : d = b.dek
    <3> SUFFICES ASSUME NEW d \in D PROVE \E b \in KnownBlobs : d = b.dek
      OBVIOUS
    <3>1. CASE d \in StoredDeks
      BY <3>1, StoredCases, KnownCases, KeyStoreAssumption DEF Blobs
    <3>2. CASE d \in {b.dek : b \in backups \cap Wrapped}
      BY <3>2, KnownCases
    <3> QED  BY <3>1, <3>2
  <2>2. \A c, d \in D : c = d
    BY <2>1 DEF OneKey, SameDek
  <2> HIDE DEF D
  <2>3. Cardinality(D) <= 1
    <3>1. CASE D = {}
      BY <3>1, FS_EmptySet
    <3>2. CASE D # {}
      <4>1. PICK d \in D : TRUE
        BY <3>2
      <4>2. D = {d}
        BY <2>2, <4>1
      <4>3. Cardinality({d}) = 1
        BY FS_Singleton
      <4> QED  BY <4>2, <4>3
    <3> QED  BY <3>1, <3>2
  <2> QED  BY <2>3 DEF OneKey, ServedStored, D
<1> QED  BY <1>1, Invariance, PTL

(* What destroy_dek() deletes it has overwritten before.                   *)
THEOREM DestroyErasesTheorem == ASSUME OperatorsCareful PROVE Spec => DestroyErases
<1> DEFINE A == \A s \in Selectors : db[s] # NoBlob /\ db'[s] = NoBlob => db[s] = Garbage
<1>1. Inv /\ [Next]_vars => [A]_vars
  <2> SUFFICES ASSUME Inv, Next, NEW s \in Selectors, db[s] # NoBlob, db'[s] = NoBlob
               PROVE  db[s] = Garbage
    OBVIOUS
  <2> USE DEF Inv
  <2>1. CASE Export
    BY <2>1 DEF Export
  <2>2. ASSUME NEW p \in Procs, Insert(p) PROVE db[s] = Garbage
    BY <2>2 DEF Insert, TypeOK
  <2>3. ASSUME NEW p \in Procs, Update(p) PROVE db[s] = Garbage
    <3>1. job[p].blob # NoBlob /\ job[p].sel \in Selectors
      BY <2>3, KeyStoreAssumption DEF Update, Working, Carried, Blobs, TypeOK, Jobs
    <3> QED  BY <2>3, <3>1 DEF Update, TypeOK
  <2>4. ASSUME NEW p \in Procs, Delete(p) PROVE db[s] = Garbage
    BY <2>4 DEF Delete, DestroyHolds, Destroyed, TypeOK
  <2>5. ASSUME NEW p \in Procs,
               \/ Call(p) \/ FindForInit(p) \/ List(p) \/ FindForReencrypt(p)
               \/ FindForDestroy(p) \/ Crash(p)
        PROVE  db' = db
    BY <2>5 DEF Call, FindForInit, List, FindForReencrypt, FindForDestroy, Crash
  <2> QED  BY <2>1, <2>2, <2>3, <2>4, <2>5 DEF Next, Step
<1> QED  BY <1>1, Invariance, PTL DEF Spec, DestroyErases

(* A checked destroy_dek() replaces no entry that its key does not open,   *)
(* as long as nobody stores under its selector between its statements.     *)
THEOREM CheckedDestroyTheorem == ASSUME OperatorsCareful PROVE Spec => CheckedDestroyMatches
<1> DEFINE A == \A p \in Procs :
                  LET j == job[p] IN
                    Working(p, {"destroy"}, "update") /\ db'[j.sel] # db[j.sel] /\ job'[p] # job[p]
                      => Opens(j.kek, db[j.sel])
<1>1. ASSUME Inv, Next, NEW p \in Procs, Working(p, {"destroy"}, "update"),
             db'[job[p].sel] # db[job[p].sel], job'[p] # job[p]
      PROVE  Opens(job[p].kek, db[job[p].sel])
  <2>1. PICK q \in Procs : Step(q)
    BY <1>1 DEF Next, Export
  <2>2. \A r \in Procs \ {q} : job'[r] = job[r]
    <3>1. CASE Call(q)
      BY <1>1, <3>1, CallFacts DEF Inv
    <3>2. CASE \/ FindForInit(q) \/ List(q) \/ FindForReencrypt(q) \/ FindForDestroy(q)
      BY <1>1, <3>2
      DEF FindForInit, List, FindForReencrypt, FindForDestroy, Goto, Return, Inv, TypeOK
    <3>3. CASE Insert(q) \/ Update(q) \/ Delete(q) \/ Crash(q)
      BY <1>1, <3>3 DEF Insert, Update, Delete, Crash, Goto, Return, Inv, TypeOK
    <3> QED  BY <2>1, <3>1, <3>2, <3>3 DEF Step
  <2>3. q = p
    BY <1>1, <2>2
  <2>4. Update(p)
    BY <1>1, <2>1, <2>3
    DEF Step, Call, FindForInit, List, FindForReencrypt, FindForDestroy, Insert, Delete, Crash,
        Working, Destroys
  <2>5. db[job[p].sel] # NoBlob /\ db'[job[p].sel] = Garbage
    BY <1>1, <2>4, KeyStoreAssumption
    DEF Update, Working, Inv, TypeOK, Jobs, Carried, Destroys
  <2> QED  BY <1>1, <2>5 DEF Inv, DestroyHolds, Destroyed
<1>2. Inv /\ [Next]_vars => [A]_vars
  BY <1>1
<1> QED  BY <1>2, Invariance, PTL DEF Spec, CheckedDestroyMatches

-----------------------------------------------------------------------------
(* The refinement: until something is destroyed, the table is the vault.   *)

(* The DEK of the vault, as the refinement mapping computes it.            *)
VaultDek == IF StoredDeks = {} THEN NoDek ELSE CHOOSE d \in StoredDeks : TRUE

(* It is that of whichever entry there is.                                 *)
LEMMA VaultDekFacts ==
  ASSUME Inv, ~shredded, NEW s \in Selectors, db[s] \in Wrapped
  PROVE  StoredDeks = {db[s].dek} /\ VaultDek = db[s].dek /\ db[s].dek \in Deks
<1>1. db[s].dek \in StoredDeks
  BY StoredCases
<1>2. ASSUME NEW d \in StoredDeks PROVE d = db[s].dek
  <2>1. PICK t \in Selectors : db[t] \in Wrapped /\ d = db[t].dek
    BY StoredCases
  <2>2. db[s] \in KnownBlobs /\ db[t] \in KnownBlobs
    BY <2>1, KnownCases, KeyStoreAssumption DEF Blobs
  <2> QED  BY <2>1, <2>2 DEF Inv, OneKey, SameDek
<1>3. StoredDeks = {db[s].dek}
  BY <1>1, <1>2
<1> QED  BY <1>3 DEF VaultDek, Wrapped

(* The vault is empty in an initial state.                                 *)
LEMMA VaultInit == Init => Vault!Init
BY KeyStoreAssumption DEF Init, Vault!Init, StoredDeks, Blobs

(* A step that leaves the stored DEK and the services alone is none of the *)
(* vault's.                                                                *)
LEMMA VaultStutter ==
  ASSUME StoredDeks' = StoredDeks, UNCHANGED <<served, shredded>>
  PROVE  UNCHANGED Vault!vars
BY DEF Vault!vars

(* An INSERT lets the vault choose its DEK, or is none of its business.    *)
LEMMA VaultInsert ==
  ASSUME Inv, Inv', ~shredded, NEW p \in Procs, Insert(p)
  PROVE  Vault!Next \/ UNCHANGED Vault!vars
<1> USE DEF Inv
<1> DEFINE j == job[p]
           target == IF j.op = "reencrypt" THEN j.dest ELSE j.sel
<1>1. Working(p, {"initialize", "reencrypt", "insert"}, "insert") /\ UNCHANGED shredded
  BY DEF Insert
<1>2. j \in Jobs /\ target \in Selectors /\ j.blob \in Wrapped
  <2>1. j \in Jobs /\ target \in Selectors
    BY <1>1 DEF TypeOK, Working, Jobs
  <2>2. j.op = "initialize" \/ j.blob \in KnownBlobs
    BY <1>1, KnownCases DEF Working, Carries
  <2> QED  BY <1>1, <2>1, <2>2 DEF Working, Carried, OneKey, AllWrapped
<1>3. CASE db[target] # NoBlob
  <2>1. UNCHANGED <<db, served>>
    BY <1>3 DEF Insert
  <2>2. StoredDeks' = StoredDeks
    BY <2>1 DEF StoredDeks
  <2> QED  BY <1>1, <2>1, <2>2, VaultStutter
<1>4. CASE db[target] = NoBlob /\ j.op = "initialize"
  <2>1. \A s \in Selectors : db[s] = NoBlob
    BY <1>1, <1>4 DEF OneKey, Fresh, Working
  <2>2. VaultDek = NoDek
    BY <2>1, KeyStoreAssumption DEF VaultDek, StoredDeks, Blobs
  <2>3. /\ db' = [db EXCEPT ![target] = j.blob]
        /\ served' = [served EXCEPT ![p] = j.blob.dek]
    BY <1>4 DEF Insert
  <2>4. StoredDeks' = {j.blob.dek}
    <3> HIDE DEF target
    <3>1. db'[target] = j.blob /\ \A s \in Selectors : s # target => db'[s] = NoBlob
      BY <1>2, <2>1, <2>3 DEF TypeOK
    <3> QED  BY <1>2, <3>1, KeyStoreAssumption DEF StoredDeks, Blobs
  <2>5. VaultDek' = j.blob.dek
    BY <2>4 DEF VaultDek
  <2>6. j.blob.dek \in Deks
    BY <1>2 DEF Wrapped
  <2>7. Vault!Choose(p)
    BY <1>1, <2>2, <2>3, <2>5, <2>6 DEF VaultDek, Vault!Choose
  <2> QED  BY <2>7 DEF Vault!Next
<1>5. CASE db[target] = NoBlob /\ j.op # "initialize"
  <2>1. /\ UNCHANGED served /\ db' = [db EXCEPT ![target] = j.blob]
    BY <1>5 DEF Insert
  <2>2. j.blob \in KnownBlobs
    BY <1>1, <1>5, KnownCases DEF Working, Carries
  <2>3. PICK s \in Selectors : db[s] # NoBlob
    BY <2>2 DEF OneKey, FromTable
  <2>4. db[s] \in KnownBlobs /\ db[s] \in Wrapped
    BY <2>3, KnownCases DEF OneKey, AllWrapped
  <2>5. j.blob.dek = db[s].dek
    BY <2>2, <2>4 DEF OneKey, SameDek
  <2>6. StoredDeks = {db[s].dek}
    BY <2>4, VaultDekFacts
  <2>7. StoredDeks' = StoredDeks
    <3> HIDE DEF target
    <3>1. /\ db'[target] = j.blob /\ s # target
          /\ \A t \in Selectors : t # target => db'[t] = db[t]
      BY <1>2, <1>5, <2>1, <2>3 DEF TypeOK
    <3>2. \A d : d \in StoredDeks' <=> \E t \in Selectors : db'[t] \in Wrapped /\ d = db'[t].dek
      BY DEF StoredDeks
    <3>3. StoredDeks' \subseteq StoredDeks
      BY <2>5, <2>6, <3>1, <3>2, StoredCases
    <3>4. db[s].dek \in StoredDeks'
      BY <2>4, <3>1, <3>2
    <3> QED  BY <2>6, <3>3, <3>4
  <2> QED  BY <1>1, <2>1, <2>7, VaultStutter
<1> QED  BY <1>3, <1>4, <1>5

(* Every step is one of the vault or leaves what it shows unchanged.       *)
LEMMA VaultStep == Inv /\ Inv' /\ [Next]_vars => [Vault!Next]_(Vault!vars)
<1> SUFFICES ASSUME Inv, Inv', [Next]_vars PROVE Vault!Next \/ UNCHANGED Vault!vars
  OBVIOUS
<1>1. CASE UNCHANGED vars
  <2>1. UNCHANGED <<db, served, shredded>>
    BY <1>1 DEF vars
  <2> QED  BY <2>1, VaultStutter DEF StoredDeks
<1>2. CASE shredded /\ Next
  <2>1. shredded'
    BY <1>2 DEF Next, Step, Export, Call, FindForInit, List, FindForReencrypt,
       FindForDestroy, Insert, Update, Delete, Crash
  <2> QED  BY <1>2, <2>1 DEF Vault!Next, Inv, TypeOK
<1>3. CASE ~shredded /\ Export
  <2>1. UNCHANGED <<db, served, shredded>>
    BY <1>3 DEF Export
  <2> QED  BY <2>1, VaultStutter DEF StoredDeks
<1>4. ASSUME ~shredded, NEW p \in Procs, Step(p) PROVE Vault!Next \/ UNCHANGED Vault!vars
  <2>1. CASE Call(p) \/ List(p) \/ FindForReencrypt(p) \/ FindForDestroy(p)
    <3>1. UNCHANGED <<db, served, shredded>>
      BY <2>1 DEF Call, List, FindForReencrypt, FindForDestroy
    <3> QED  BY <3>1, VaultStutter DEF StoredDeks
  <2>2. CASE FindForInit(p)
    <3>1. UNCHANGED <<db, shredded>>
      BY <2>2 DEF FindForInit
    <3>2. StoredDeks' = StoredDeks
      BY <3>1 DEF StoredDeks
    <3>3. CASE UNCHANGED served
      BY <3>1, <3>2, <3>3, VaultStutter
    <3>4. CASE ~UNCHANGED served
      <4> DEFINE b == db[job[p].sel]
      <4>1. b \in Wrapped /\ served' = [served EXCEPT ![p] = b.dek]
        BY <2>2, <3>4 DEF FindForInit, Opens
      <4>2. job[p].sel \in Selectors
        BY <2>2 DEF FindForInit, Working, Inv, TypeOK, Jobs
      <4>3. VaultDek = b.dek /\ VaultDek # NoDek
        BY <1>4, <4>1, <4>2, VaultDekFacts, KeyStoreAssumption
      <4>4. VaultDek' = VaultDek
        BY <3>2 DEF VaultDek
      <4>5. Vault!Serve(p)
        BY <3>1, <4>1, <4>3, <4>4 DEF VaultDek, Vault!Serve
      <4> QED  BY <1>4, <4>5 DEF Vault!Next
    <3> QED  BY <3>3, <3>4
  <2>3. CASE Insert(p)
    BY <1>4, <2>3, VaultInsert
  <2>4. CASE Update(p) /\ shredded'
    BY <1>4, <2>4 DEF Vault!Next, Vault!Shred, Inv, TypeOK
  <2>5. CASE Update(p) /\ ~shredded'
    <3>1. UNCHANGED <<served, shredded>>
      BY <1>4, <2>5 DEF Update, Inv, TypeOK
    <3>2. db' = db \/ /\ job[p].op = "reencrypt" /\ db[job[p].sel] # NoBlob
                      /\ db' = [db EXCEPT ![job[p].sel] = job[p].blob]
      BY <2>5 DEF Update, Working
    <3>3. CASE db' = db
      BY <3>1, <3>3, VaultStutter DEF StoredDeks
    <3>4. CASE /\ job[p].op = "reencrypt" /\ db[job[p].sel] # NoBlob
               /\ db' = [db EXCEPT ![job[p].sel] = job[p].blob]
      <4> DEFINE s == job[p].sel
                 b == job[p].blob
      <4>1. s \in Selectors
        BY <2>5 DEF Update, Working, Inv, TypeOK, Jobs
      <4>2. b \in KnownBlobs /\ db[s] \in KnownBlobs
        BY <2>5, <3>4, <4>1, KnownCases DEF Update, Working, Carries
      <4>3. b \in Wrapped /\ db[s] \in Wrapped /\ b.dek = db[s].dek
        BY <1>4, <4>2 DEF Inv, OneKey, AllWrapped, SameDek
      <4>4. StoredDeks = {b.dek}
        BY <1>4, <4>1, <4>3, VaultDekFacts
      <4>5. /\ db'[s] = b /\ \A t \in Selectors : t # s => db'[t] = db[t]
        BY <3>4, <4>1 DEF Inv, TypeOK
      <4> HIDE DEF s, b
      <4>6. \A d : d \in StoredDeks' <=> \E t \in Selectors : db'[t] \in Wrapped /\ d = db'[t].dek
        BY DEF StoredDeks
      <4>7. StoredDeks' = StoredDeks
        BY <4>1, <4>3, <4>4, <4>5, <4>6, StoredCases
      <4> QED  BY <3>1, <4>7, VaultStutter
    <3> QED  BY <3>2, <3>3, <3>4
  <2>6. CASE Delete(p)
    BY <1>4, <2>6 DEF Delete, Inv, DestroyHolds
  <2>7. CASE Crash(p)
    <3>1. UNCHANGED <<db, shredded>> /\ served' = [served EXCEPT ![p] = NoDek]
      BY <2>7 DEF Crash
    <3>2. StoredDeks' = StoredDeks
      BY <3>1 DEF StoredDeks
    <3>3. Vault!Stop(p)
      BY <3>1, <3>2 DEF Vault!Stop
    <3> QED  BY <1>4, <3>3 DEF Vault!Next
  <2> QED  BY <1>4, <2>1, <2>2, <2>3, <2>4, <2>5, <2>6, <2>7 DEF Step
<1> QED  BY <1>1, <1>2, <1>3, <1>4 DEF Next

(* The table implements the vault: one DEK, chosen once, and served to     *)
(* whoever is served one, until destroy_dek() is used.                     *)
THEOREM VaultTheorem == ASSUME OperatorsCareful PROVE Spec => VaultSpec
BY VaultInit, VaultStep, Invariance, PTL DEF Spec, VaultSpec, Vault!Spec
=============================================================================
