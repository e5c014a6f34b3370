----------------------------- MODULE SealedStore -----------------------------
(***************************************************************************)
(* The blobs of module KeyStore as the bytes that key_store/kiyoka.rs has  *)
(* in its table: each data key wrapped (module Wrapping) with associated   *)
(* data made by an encoder (module AssocEncoder).  KeyStore takes it for   *)
(* granted that a blob opens with one key and in one context, and that     *)
(* rekeying changes that key and nothing else; this module says so of the  *)
(* code below it, at every step that unwraps or rekeys.                    *)
(***************************************************************************)
EXTENDS KeyStore, Sequences

CONSTANTS
  Contexts,            \* the chains of associated data that the program pushes
  NonceSize, TagSize   \* of the AEAD, in bytes

ASSUME SizesAssumption == NonceSize \in Nat /\ TagSize \in Nat \ {0}

E == INSTANCE AssocEncoder
W == INSTANCE Wrapping

(* SCOPE_PERSIST_DATABASE_DEK, alone in its chain from bootstrap().        *)
DekScope == E!ScopeAssoc(<<0, 1>>)

(* Every element that the program may push in some context.                *)
Pushed == UNION {{c[i] : i \in DOMAIN c} : c \in Contexts}

ASSUME ContextsAssumption ==
  /\ IsFiniteSet(Contexts) /\ <<DekScope>> \in Contexts
  /\ Contexts \subseteq Seq(Pushed)
  /\ \A e \in Pushed : E!IsElement(e) /\ \A f \in Pushed : E!OneKind(e, f)

BootstrapHash(chain) == E!Hash("bootstrap", chain)
DekHash == BootstrapHash(<<DekScope>>)

Nonce(n) == [i \in 1..NonceSize |-> <<"nonce", n, i>>]

(* The AEAD key, then the key of the encoder.                              *)
KeyPair(dek) == <<<<"db_key", dek>>, <<"encoder_key", dek>>>>

(* What the table holds for a blob of KeyStore; a destroyed one is random. *)
BytesOf(b) ==
  IF b = Garbage THEN [i \in 1..(W!Overhead + 2) |-> <<"random", i>>]
  ELSE W!Wrap(b.kek, DekHash, Nonce("old"), KeyPair(b.dek))

(* What a key opens a buffer to in a context: a key pair, or nothing.      *)
Opened(kek, chain, buf) ==
  LET plain == W!Unwrap(kek, BootstrapHash(chain), buf)
  IN  IF plain.result = "Ok" THEN {plain.buf} ELSE {}

-----------------------------------------------------------------------------
(* When reencrypt_dek() has found its entry, what it will store opens with *)
(* the new key, and no other, to the same key pair; an entry it cannot     *)
(* open is given back as it was; and one that was restored from a backup   *)
(* cut short is never taken for a rekeyed one, by whichever key.           *)
RekeyedAsStored ==
  \A p \in Procs :
    LET j == job[p]
        old == BytesOf(db[j.sel])
        rekeyed(buf) == W!Rekey(j.kek, j.to, DekHash, Nonce("new"), buf)
        new == Rekey(j.kek, j.to, db[j.sel])
    IN  Working(p, {"reencrypt"}, "find") /\ db[j.sel] # NoBlob =>
          /\ IF new = NoBlob
             THEN rekeyed(old) = [result |-> "InvalidDecrypt", buf |-> old]
             ELSE \A k \in Keks :
                    Opened(k, <<DekScope>>, rekeyed(old).buf) =
                      (IF Opens(k, new) THEN {KeyPair(new.dek)} ELSE {})
          /\ \A n \in 0..(Len(old) - 1) :
               LET cut == SubSeq(old, 1, n)
               IN  rekeyed(cut).result \in {"panic", "InvalidDecrypt"} /\ rekeyed(cut).buf = cut

(* Chains hash alike exactly when they are the same but for what the row   *)
(* of a map does not tell: the bytes of its keys, and entries that cancel. *)
(* So chains without maps never do, as auth.rs:243 promises of all chains, *)
(* and maps that differ in the bytes of a key but not in its length always *)
(* do.                                                                     *)
HashesBind ==
  \A c, d \in Contexts : BootstrapHash(c) = BootstrapHash(d) <=> E!Imprints(c) = E!Imprints(d)

(* When initialize() has found its entry, it gets a key pair exactly when  *)
(* it has the entry's key, and then the pair that was wrapped; with any    *)
(* other chain of associated data it gets nothing, maps or no maps.        *)
OpensInItsContext ==
  /\ HashesBind
  /\ \A p \in Procs :
       LET j == job[p] b == db[j.sel]
       IN  Working(p, {"initialize"}, "find") /\ b # NoBlob =>
             \A c \in Contexts :
               Opened(j.kek, c, BytesOf(b)) =
                 (IF Opens(j.kek, b) /\ c = <<DekScope>> THEN {KeyPair(b.dek)} ELSE {})
=============================================================================
