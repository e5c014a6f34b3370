---------------------------- MODULE AssocEncoder ----------------------------
(***************************************************************************)
(* keyfinix-crypto, auth.rs and auth/abstracted.rs: the associated data a  *)
(* secret is bound to, as what a chain of push_assoc() writes to the       *)
(* hasher.                                                                 *)
(*                                                                         *)
(* The hash (SipHash, external) is ideal: the digest of a hasher is what   *)
(* was written to it, and a word mixed with half a digest equals no other  *)
(* word and no bytes.  A length or a count, of 64 bits, is one symbol.     *)
(***************************************************************************)
EXTENDS Integers, Sequences, FiniteSets, Functions

Byte(n) == <<"byte", n>>
Bytes(s) == [i \in DOMAIN s |-> Byte(s[i])]

(* A new encoder; its key is a constant of the program (bootstrap()), or   *)
(* part of the root keys.                                                  *)
NewEncoder(rootKey) == [count |-> 0, written |-> <<<<"key", rootKey>>>>]

-----------------------------------------------------------------------------
(* The elements of a chain: their type, and what identifies the row.       *)
Int8(n) == [type |-> "int8", of |-> "bytes", data |-> <<n>>]
Uuid(data) == [type |-> "uuid", of |-> "bytes", data |-> data]
ScopeAssoc(s) == [type |-> "scope", of |-> "bytes", data |-> s]
AsBytesAssoc(id, data) == [type |-> id, of |-> "bytes", data |-> data]
FieldAssoc(id, key, value) == [type |-> id, of |-> "field", key |-> key, value |-> value]
(* items: a function from keys to the bytes of their values.               *)
MapAssoc(id, items) == [type |-> id, of |-> "map", items |-> items]

U8 == 0..255
IsElement(e) ==
  \/ e.of = "bytes" /\ e.data \in Seq(U8) /\ e = AsBytesAssoc(e.type, e.data)
  \/ /\ e.of = "field" /\ e.key \in Seq(U8) /\ e.value \in Seq(U8)
     /\ e = FieldAssoc(e.type, e.key, e.value)
  \/ /\ e.of = "map" /\ DOMAIN e.items \subseteq Seq(U8)
     /\ e.items \in [DOMAIN e.items -> Seq(U8)]
     /\ e = MapAssoc(e.type, e.items)

(* What the encoder leaves to its users: a type is that of one kind of     *)
(* element.                                                                *)
OneKind(e, f) == e.type = f.type => e.of = f.of

(* Faulty variant: FieldAssoc does not bind the length of its key.         *)
FieldRowUnbound(e) == Bytes(e.key) \o Bytes(e.value)

FieldRow(e) == <<Byte(Len(e.key))>> \o Bytes(e.key) \o Bytes(e.value)

(* What an XOR over f leaves: the values it takes an odd number of times.  *)
OddAt(f) == {k \in DOMAIN f : Cardinality({j \in DOMAIN f : f[j] = f[k]}) % 2 = 1}
Folded(f) == {f[k] : k \in OddAt(f)}

(* The entries of a map are hashed apart, each by a copy of the hasher,    *)
(* and their digests are folded with XOR, so that two equal ones cancel.   *)
(* hash() of SipHasher takes &self: it returns a digest of the key, which  *)
(* nobody reads, and leaves the copy as it is.                             *)
Entry(written, items, k) == written \o <<Byte(Len(k))>> \o Bytes(items[k])

KeyLengths(items) == SumFunction([k \in DOMAIN items |-> Len(k)])

MapRow(written, e) ==
  << <<"fold", Folded([k \in DOMAIN e.items |-> Entry(written, e.items, k)])>>,
     Byte(KeyLengths(e.items)) >>

(* push_row_level_assoc() of each type.                                    *)
Row(written, e) ==
  CASE e.of = "bytes" -> Bytes(e.data)
    [] e.of = "field" -> FieldRow(e)
    [] e.of = "map"   -> MapRow(written, e)

(* push_assoc(): the length of the chain, the low half of the type mixed   *)
(* with the high half of the digest so far, the row, and the high half of  *)
(* the type mixed with the low half of that same digest.                   *)
PushAssoc(encoder, e) ==
  LET n == encoder.count + 1
      bound == Append(encoder.written, Byte(n))
      typed == Append(bound, <<"mix low", e.type, bound, n>>)
  IN  [count |-> n,
       written |-> typed \o Row(typed, e) \o << <<"mix high", e.type, bound, n>> >>]

(* Chains are short, and long ones are built from their prefixes.          *)
Encode(rootKey, chain) ==
  LET enc[i \in 0..Len(chain)] ==
        IF i = 0 THEN NewEncoder(rootKey) ELSE PushAssoc(enc[i - 1], chain[i])
  IN  enc[Len(chain)]

(* finish()                                                                *)
Hash(rootKey, chain) == Encode(rootKey, chain).written

-----------------------------------------------------------------------------
(* What a chain's hash is meant to tell, the chain, but for what a map row *)
(* leaves of its map: the bytes of the keys are not written, so of each    *)
(* entry it has the length of the key and the value, folded as above.      *)
MapImprint(items) ==
  <<Folded([k \in DOMAIN items |-> <<Len(k), items[k]>>]), KeyLengths(items)>>
Imprint(e) == IF e.of = "map" THEN MapAssoc(e.type, MapImprint(e.items)) ELSE e
Imprints(chain) == [i \in DOMAIN chain |-> Imprint(chain[i])]
=============================================================================
