------------------------------ MODULE Wrapping ------------------------------
(***************************************************************************)
(* keyfinix-crypto, wrapping.rs: a secret sealed in a buffer, as           *)
(* ciphertext, nonce and tag, in this order.                               *)
(*                                                                         *)
(* The AEAD (external) works in place on the ciphertext.  It is ideal: a   *)
(* ciphertext byte stands for its key, nonce and plain byte, and the tag   *)
(* for all of them and the associated data.  Decryption checks the tag     *)
(* first and leaves a buffer whose tag is wrong as it is.                  *)
(***************************************************************************)
EXTENDS Integers, Sequences

CONSTANTS NonceSize, TagSize  \* the second is positive

Overhead == NonceSize + TagSize

(* What encrypt_in_place_detached() makes of a plaintext, and its tag.     *)
Encrypted(key, nonce, plain) == [i \in DOMAIN plain |-> <<"ct", key, nonce, plain[i]>>]
TagOf(key, nonce, assoc, ct) == [i \in 1..TagSize |-> <<"tag", i, key, nonce, assoc, ct>>]

(* decrypt_in_place_detached(): does it succeed, and with which plaintext. *)
Decrypts(key, nonce, assoc, ct, tag) == tag = TagOf(key, nonce, assoc, ct)
Decrypted(ct) == [i \in DOMAIN ct |-> ct[i][4]]

(* split_at_mut(), twice, from the end.                                    *)
Rest(buf) == SubSeq(buf, 1, Len(buf) - Overhead)
NoncePortion(buf) == SubSeq(buf, Len(buf) - Overhead + 1, Len(buf) - TagSize)
TagPortion(buf) == SubSeq(buf, Len(buf) - TagSize + 1, Len(buf))

(* wrap(): encrypt first, then extend.                                     *)
Wrap(key, assoc, nonce, plain) ==
  LET ct == Encrypted(key, nonce, plain)
  IN  ct \o nonce \o TagOf(key, nonce, assoc, ct)

(* unwrap(): the plaintext, or the buffer with its ciphertext zeroized.    *)
Unwrap(key, assoc, buf) ==
  IF Len(buf) < Overhead THEN [result |-> "InvalidDecrypt", buf |-> buf]
  ELSE IF Decrypts(key, NoncePortion(buf), assoc, Rest(buf), TagPortion(buf))
  THEN [result |-> "Ok", buf |-> Decrypted(Rest(buf))]
  ELSE [result |-> "InvalidDecrypt",
        buf |-> [i \in DOMAIN buf |-> IF i <= Len(buf) - Overhead THEN <<"zero">> ELSE buf[i]]]

(* Faulty variant: the tag is replaced and the nonce is not.               *)
RekeyOldNonce(from, to, assoc, newNonce, buf) ==
  IF Len(buf) < Overhead THEN [result |-> "panic", buf |-> buf]
  ELSE IF Decrypts(from, NoncePortion(buf), assoc, Rest(buf), TagPortion(buf))
  THEN LET ct == Encrypted(to, newNonce, Decrypted(Rest(buf)))
       IN  [result |-> "true",
            buf |-> ct \o NoncePortion(buf) \o TagOf(to, newNonce, assoc, ct)]
  ELSE [result |-> "InvalidDecrypt", buf |-> buf]

(* rekey(): true when the buffer opened with the old key; false when it    *)
(* opened with the new one, with which it is then sealed again, under the  *)
(* same nonce.  The splits have no length check.                           *)
Rekey(from, to, assoc, newNonce, buf) ==
  LET nonce == NoncePortion(buf)
      opens(key) == Decrypts(key, nonce, assoc, Rest(buf), TagPortion(buf))
      sealed(n) == Encrypted(to, n, Decrypted(Rest(buf)))
  IN  CASE Len(buf) < Overhead -> [result |-> "panic", buf |-> buf]
        [] Len(buf) >= Overhead /\ opens(from) ->
             [result |-> "true",
              buf |-> sealed(newNonce) \o newNonce
                        \o TagOf(to, newNonce, assoc, sealed(newNonce))]
        [] Len(buf) >= Overhead /\ ~opens(from) /\ opens(to) ->
             [result |-> "false", buf |-> sealed(nonce) \o nonce \o TagPortion(buf)]
        [] OTHER -> [result |-> "InvalidDecrypt", buf |-> buf]
=============================================================================
