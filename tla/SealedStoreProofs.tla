-------------------------- MODULE SealedStoreProofs --------------------------
(***************************************************************************)
(* SealedStore, for every size of nonce and tag and for every finite set   *)
(* of chains of associated data, of any length: what KeyStore takes for    *)
(* granted of its blobs is so of their bytes.                              *)
(*                                                                         *)
(* Of a buffer it is proved that wrap(), unwrap() and rekey() agree where  *)
(* its parts are, that a tag is that of one key and one associated data,   *)
(* and that a buffer that was cut does not end as a tag does.  Of the      *)
(* encoder, that the last thing it writes for an element tells everything  *)
(* it wrote before, so that a chain can be read back from its end, but for *)
(* what the row of a map leaves out.                                       *)
(***************************************************************************)
EXTENDS SealedStore, KeyStoreProofs, SequenceTheorems, WellFoundedInduction

-----------------------------------------------------------------------------
(* wrapping.rs: what is sealed in a buffer, for every size of the nonce    *)
(* and of the tag.                                                         *)

IsSeq(s) == Len(s) \in Nat /\ DOMAIN s = 1..Len(s) /\ s = [i \in 1..Len(s) |-> s[i]]

(* A function on 1..n is a sequence.                                       *)
LEMMA AFunctionIsSeq ==
  ASSUME NEW n \in Nat, NEW f, f = [i \in 1..n |-> f[i]]
  PROVE  IsSeq(f) /\ Len(f) = n /\ f \in Seq({f[i] : i \in 1..n})
<1> DEFINE S == {f[i] : i \in 1..n}
<1>1. f \in [1..n -> S]
  OBVIOUS
<1> HIDE DEF S
<1>2. f \in Seq(S) /\ Len(f) = n
  BY <1>1
<1>3. IsSeq(f)
  BY <1>2 DEF IsSeq
<1> QED  BY <1>2, <1>3 DEF S

(* Two sequences are equal when their elements are.                        *)
LEMMA SeqsEqual ==
  ASSUME NEW s, NEW t, IsSeq(s), IsSeq(t), Len(s) = Len(t), \A i \in 1..Len(s) : s[i] = t[i]
  PROVE  s = t
BY DEF IsSeq

(* A part of a buffer, after its first n bytes.                            *)
PartAt(part, n, buf) == IsSeq(part) /\ \A i \in 1..Len(part) : buf[n + i] = part[i]

(* There is one such part of each length.                                  *)
LEMMA SamePart ==
  ASSUME NEW p, NEW q, NEW n, NEW buf, PartAt(p, n, buf), PartAt(q, n, buf), Len(p) = Len(q)
  PROVE  p = q
<1>1. \A i \in 1..Len(p) : p[i] = q[i]
  BY DEF PartAt
<1> QED  BY <1>1, SeqsEqual DEF PartAt

Joined(x, y, z) == x \o y \o z

(* The concatenation of three.                                             *)
LEMMA ConcatThree ==
  ASSUME NEW x, NEW y, NEW z, IsSeq(x), IsSeq(y), IsSeq(z), NEW s, s = Joined(x, y, z)
  PROVE  /\ IsSeq(s) /\ Len(s) = Len(x) + Len(y) + Len(z)
         /\ PartAt(x, 0, s) /\ PartAt(y, Len(x), s) /\ PartAt(z, Len(x) + Len(y), s)
<1> DEFINE S == {x[i] : i \in 1..Len(x)} \cup {y[i] : i \in 1..Len(y)} \cup {z[i] : i \in 1..Len(z)}
           a == Len(x)
           b == Len(y)
           c == Len(z)
           xy == x \o y
           all == xy \o z
<1>1. a \in Nat /\ b \in Nat /\ c \in Nat
  BY DEF IsSeq
<1>2. x \in Seq(S) /\ y \in Seq(S) /\ z \in Seq(S)
  <2>1. ASSUME NEW t, IsSeq(t) PROVE t \in Seq({t[i] : i \in 1..Len(t)})
    <3>1. Len(t) \in Nat /\ t = [i \in 1..Len(t) |-> t[i]]
      BY <2>1 DEF IsSeq
    <3> QED  BY <3>1, AFunctionIsSeq
  <2>2. /\ x \in Seq({x[i] : i \in 1..Len(x)}) /\ y \in Seq({y[i] : i \in 1..Len(y)})
        /\ z \in Seq({z[i] : i \in 1..Len(z)})
    BY <2>1
  <2> QED  BY <2>2, SeqMonotonic
<1> HIDE DEF S
<1>3. /\ xy \in Seq(S) /\ Len(xy) = a + b
      /\ \A i \in 1..(a + b) : xy[i] = IF i <= a THEN x[i] ELSE y[i - a]
  BY <1>2, ConcatProperties
<1>4. /\ all \in Seq(S) /\ Len(all) = a + b + c
      /\ \A i \in 1..(a + b + c) : all[i] = IF i <= a + b THEN xy[i] ELSE z[i - (a + b)]
  BY <1>2, <1>3, ConcatProperties
<1>5. IsSeq(all)
  BY <1>4, LenProperties DEF IsSeq
<1> HIDE DEF a, b, c, xy, all
<1>6. ASSUME NEW i \in 1..a PROVE all[i] = x[i]
  BY <1>1, <1>3, <1>4, <1>6
<1>7. ASSUME NEW i \in 1..b PROVE all[a + i] = y[i]
  <2> DEFINE j == a + i
  <2>1. j \in 1..(a + b) /\ j \in 1..(a + b + c) /\ ~(j <= a) /\ j <= a + b /\ j - a = i
    BY <1>1
  <2> HIDE DEF j
  <2>2. all[j] = xy[j] /\ xy[j] = y[j - a]
    BY <1>3, <1>4, <2>1
  <2> QED  BY <2>1, <2>2 DEF j
<1>8. ASSUME NEW i \in 1..c PROVE all[a + b + i] = z[i]
  <2> DEFINE j == a + b + i
  <2>1. j \in 1..(a + b + c) /\ ~(j <= a + b) /\ j - (a + b) = i
    BY <1>1
  <2> HIDE DEF j
  <2>2. all[j] = z[j - (a + b)]
    BY <1>4, <2>1
  <2> QED  BY <2>1, <2>2 DEF j
<1>9. PartAt(x, 0, all)
  <2>1. \A i \in 1..a : 0 + i = i
    BY <1>1
  <2>2. \A i \in 1..a : all[0 + i] = x[i]
    BY <1>6, <2>1
  <2> QED  BY <2>2 DEF PartAt, a
<1>10. PartAt(y, a, all)
  BY <1>7 DEF PartAt, b
<1>11. PartAt(z, a + b, all)
  BY <1>8 DEF PartAt, c
<1>12. s = all /\ Len(all) = a + b + c
  BY <1>4 DEF Joined, all, xy
<1> QED  BY <1>5, <1>9, <1>10, <1>11, <1>12 DEF a, b, c

(* The three parts of a buffer.                                            *)
LEMMA Portions ==
  ASSUME NEW buf, IsSeq(buf), NEW n \in Nat, Len(buf) = n + W!Overhead
  PROVE  /\ PartAt(W!Rest(buf), 0, buf) /\ Len(W!Rest(buf)) = n
         /\ PartAt(W!NoncePortion(buf), n, buf) /\ Len(W!NoncePortion(buf)) = NonceSize
         /\ PartAt(W!TagPortion(buf), n + NonceSize, buf) /\ Len(W!TagPortion(buf)) = TagSize
<1> DEFINE S == {buf[i] : i \in 1..Len(buf)}
           l == Len(buf)
<1>1. NonceSize \in Nat /\ TagSize \in Nat /\ W!Overhead = NonceSize + TagSize /\ l \in Nat
      /\ n = l - W!Overhead
  BY SizesAssumption DEF W!Overhead, IsSeq
<1>2. \A i \in 1..l : buf[i] \in S
  OBVIOUS
<1> HIDE DEF S, l
<1>3. /\ SubSeq(buf, 1, n) \in Seq(S) /\ Len(SubSeq(buf, 1, n)) = n
      /\ \A i \in 1..n : SubSeq(buf, 1, n)[i] = buf[i]
  BY <1>1, <1>2, SubSeqProperties
<1>4. /\ SubSeq(buf, n + 1, l - TagSize) \in Seq(S) /\ Len(SubSeq(buf, n + 1, l - TagSize)) = NonceSize
      /\ \A i \in 1..NonceSize : SubSeq(buf, n + 1, l - TagSize)[i] = buf[n + i]
  <2>1. \A i \in (n+1)..(l - TagSize) : buf[i] \in S
    BY <1>1, <1>2
  <2>2. l - TagSize - (n + 1) + 1 = NonceSize /\ n + 1 \in Int /\ l - TagSize \in Int
    BY <1>1
  <2> QED  BY <1>1, <2>1, <2>2, SubSeqProperties
<1>5. /\ SubSeq(buf, l - TagSize + 1, l) \in Seq(S) /\ Len(SubSeq(buf, l - TagSize + 1, l)) = TagSize
      /\ \A i \in 1..TagSize : SubSeq(buf, l - TagSize + 1, l)[i] = buf[n + NonceSize + i]
  <2>1. \A i \in (l - TagSize + 1)..l : buf[i] \in S
    BY <1>1, <1>2
  <2>2. l - (l - TagSize + 1) + 1 = TagSize /\ l - TagSize + 1 \in Int
    BY <1>1
  <2>3. l - TagSize = n + NonceSize
    BY <1>1
  <2> QED  BY <1>1, <2>1, <2>2, <2>3, SubSeqProperties
<1>6. /\ W!Rest(buf) = SubSeq(buf, 1, n) /\ W!NoncePortion(buf) = SubSeq(buf, n + 1, l - TagSize)
      /\ W!TagPortion(buf) = SubSeq(buf, l - TagSize + 1, l)
  <2>1. n = l - W!Overhead
    BY <1>1
  <2> QED  BY <2>1 DEF W!Rest, W!NoncePortion, W!TagPortion, l
<1>7. \A s \in Seq(S) : IsSeq(s)
  BY LenProperties DEF IsSeq
<1>8. PartAt(SubSeq(buf, 1, n), 0, buf)
  <2>1. \A i \in 1..n : 0 + i = i
    BY <1>1
  <2>2. \A i \in 1..n : buf[0 + i] = SubSeq(buf, 1, n)[i]
    BY <1>3, <2>1
  <2> QED  BY <1>3, <1>7, <2>2 DEF PartAt
<1>9. PartAt(SubSeq(buf, n + 1, l - TagSize), n, buf)
  BY <1>4, <1>7 DEF PartAt
<1>10. PartAt(SubSeq(buf, l - TagSize + 1, l), n + NonceSize, buf)
  BY <1>5, <1>7 DEF PartAt
<1> QED  BY <1>3, <1>4, <1>5, <1>6, <1>8, <1>9, <1>10

(* The ciphertext and the tag are as long as the plaintext and a tag.      *)
LEMMA SealedParts ==
  ASSUME NEW key, NEW assoc, NEW nonce, NEW plain, IsSeq(plain),
         NEW ct, ct = W!Encrypted(key, nonce, plain),
         NEW tag, tag = W!TagOf(key, nonce, assoc, ct)
  PROVE  IsSeq(ct) /\ Len(ct) = Len(plain) /\ IsSeq(tag) /\ Len(tag) = TagSize
<1>1. Len(plain) \in Nat /\ TagSize \in Nat
  BY SizesAssumption DEF IsSeq
<1>2. ct = [i \in 1..Len(plain) |-> ct[i]]
  <2>1. ct = [i \in 1..Len(plain) |-> <<"ct", key, nonce, plain[i]>>]
    BY DEF W!Encrypted, IsSeq
  <2> QED  BY <2>1
<1>3. tag = [i \in 1..TagSize |-> tag[i]]
  <2>1. tag = [i \in 1..TagSize |-> <<"tag", i, key, nonce, assoc, ct>>]
    BY DEF W!TagOf
  <2> QED  BY <2>1
<1> QED  BY <1>1, <1>2, <1>3, AFunctionIsSeq

(* A wrapped secret, taken apart.                                          *)
LEMMA WrappedPortions ==
  ASSUME NEW key, NEW assoc, NEW nonce, IsSeq(nonce), Len(nonce) = NonceSize,
         NEW plain, IsSeq(plain)
  PROVE  LET ct == W!Encrypted(key, nonce, plain)
             tag == W!TagOf(key, nonce, assoc, ct)
             buf == W!Wrap(key, assoc, nonce, plain)
         IN  /\ IsSeq(buf) /\ Len(buf) = Len(plain) + W!Overhead
             /\ W!Rest(buf) = ct /\ W!NoncePortion(buf) = nonce /\ W!TagPortion(buf) = tag
<1> SUFFICES ASSUME NEW ct, ct = W!Encrypted(key, nonce, plain),
                    NEW tag, tag = W!TagOf(key, nonce, assoc, ct),
                    NEW buf, buf = W!Wrap(key, assoc, nonce, plain)
             PROVE  /\ IsSeq(buf) /\ Len(buf) = Len(plain) + W!Overhead
                    /\ W!Rest(buf) = ct /\ W!NoncePortion(buf) = nonce
                    /\ W!TagPortion(buf) = tag
  OBVIOUS
<1> DEFINE n == Len(plain)
<1>1. NonceSize \in Nat /\ TagSize \in Nat /\ n \in Nat
  BY SizesAssumption DEF IsSeq
<1>2. IsSeq(ct) /\ Len(ct) = n
  BY SealedParts
<1>3. IsSeq(tag) /\ Len(tag) = TagSize
  BY SealedParts
<1>4. buf = Joined(ct, nonce, tag)
  BY DEF W!Wrap, Joined
<1>5. IsSeq(ct) /\ IsSeq(nonce) /\ IsSeq(tag)
  BY <1>2, <1>3
<1> HIDE DEF n
<1>6. /\ IsSeq(buf) /\ Len(buf) = Len(ct) + Len(nonce) + Len(tag)
      /\ PartAt(ct, 0, buf) /\ PartAt(nonce, Len(ct), buf) /\ PartAt(tag, Len(ct) + Len(nonce), buf)
  BY <1>4, <1>5, ConcatThree
<1>7. Len(buf) = n + W!Overhead
  <2>1. Len(buf) = n + NonceSize + TagSize
    BY <1>2, <1>3, <1>6
  <2> QED  BY <1>1, <2>1 DEF W!Overhead
<1>8. /\ PartAt(W!Rest(buf), 0, buf) /\ Len(W!Rest(buf)) = n
      /\ PartAt(W!NoncePortion(buf), n, buf) /\ Len(W!NoncePortion(buf)) = NonceSize
      /\ PartAt(W!TagPortion(buf), n + NonceSize, buf) /\ Len(W!TagPortion(buf)) = TagSize
  BY <1>1, <1>6, <1>7, Portions
<1>9. PartAt(nonce, n, buf) /\ PartAt(tag, n + NonceSize, buf)
  BY <1>2, <1>6
<1>10. W!Rest(buf) = ct
  BY <1>2, <1>6, <1>8, SamePart
<1>11. W!NoncePortion(buf) = nonce
  BY <1>8, <1>9, SamePart
<1>12. W!TagPortion(buf) = tag
  BY <1>3, <1>8, <1>9, SamePart
<1> QED  BY <1>6, <1>7, <1>10, <1>11, <1>12 DEF n

(* A tag is that of one key and one associated data.                       *)
LEMMA TagBinds ==
  ASSUME NEW k, NEW a, NEW l, NEW b, NEW nonce, NEW ct,
         W!TagOf(k, nonce, a, ct) = W!TagOf(l, nonce, b, ct)
  PROVE  k = l /\ a = b
<1>1. 1 \in 1..TagSize
  BY SizesAssumption
<1>2. /\ W!TagOf(k, nonce, a, ct)[1] = <<"tag", 1, k, nonce, a, ct>>
      /\ W!TagOf(l, nonce, b, ct)[1] = <<"tag", 1, l, nonce, b, ct>>
  BY <1>1 DEF W!TagOf
<1> QED  BY <1>2

(* unwrap() of what wrap() has made: the secret, to the same key and       *)
(* associated data, and to no other.                                       *)
LEMMA UnwrapWrapped ==
  ASSUME NEW key, NEW assoc, NEW nonce, IsSeq(nonce), Len(nonce) = NonceSize,
         NEW plain, IsSeq(plain), NEW k, NEW a
  PROVE  LET r == W!Unwrap(k, a, W!Wrap(key, assoc, nonce, plain))
         IN  IF k = key /\ a = assoc THEN r.result = "Ok" /\ r.buf = plain
             ELSE r.result = "InvalidDecrypt"
<1> DEFINE ct == W!Encrypted(key, nonce, plain)
           tag == W!TagOf(key, nonce, assoc, ct)
           buf == W!Wrap(key, assoc, nonce, plain)
<1>1. /\ Len(buf) = Len(plain) + W!Overhead
      /\ W!Rest(buf) = ct /\ W!NoncePortion(buf) = nonce /\ W!TagPortion(buf) = tag
  BY WrappedPortions
<1>2. ~(Len(buf) < W!Overhead)
  BY <1>1, SizesAssumption DEF W!Overhead, IsSeq
<1>3. W!Decrypted(ct) = plain
  BY DEF W!Decrypted, W!Encrypted, IsSeq
<1> HIDE DEF ct, buf
<1>4. W!Decrypts(k, nonce, a, ct, tag) <=> k = key /\ a = assoc
  BY TagBinds DEF W!Decrypts, tag
<1> HIDE DEF tag
<1>5. CASE k = key /\ a = assoc
  BY <1>1, <1>2, <1>3, <1>4, <1>5 DEF W!Unwrap, buf
<1>6. CASE ~(k = key /\ a = assoc)
  BY <1>1, <1>2, <1>4, <1>6 DEF W!Unwrap, buf
<1> QED  BY <1>5, <1>6

(* rekey() of it: as if it had been wrapped with the new key, or left as   *)
(* it is when neither key opens it.                                        *)
LEMMA RekeyWrapped ==
  ASSUME NEW key, NEW assoc, NEW nonce, IsSeq(nonce), Len(nonce) = NonceSize,
         NEW plain, IsSeq(plain), NEW from, NEW to, NEW newNonce
  PROVE  LET buf == W!Wrap(key, assoc, nonce, plain)
             r == W!Rekey(from, to, assoc, newNonce, buf)
         IN  IF key = from THEN r.buf = W!Wrap(to, assoc, newNonce, plain)
             ELSE IF key = to THEN r.buf = W!Wrap(to, assoc, nonce, plain)
             ELSE r = [result |-> "InvalidDecrypt", buf |-> buf]
<1> DEFINE ct == W!Encrypted(key, nonce, plain)
           tag == W!TagOf(key, nonce, assoc, ct)
           buf == W!Wrap(key, assoc, nonce, plain)
           r == W!Rekey(from, to, assoc, newNonce, buf)
<1>1. /\ Len(buf) = Len(plain) + W!Overhead
      /\ W!Rest(buf) = ct /\ W!NoncePortion(buf) = nonce /\ W!TagPortion(buf) = tag
  BY WrappedPortions
<1>2. ~(Len(buf) < W!Overhead) /\ Len(buf) >= W!Overhead
  BY <1>1, SizesAssumption DEF W!Overhead, IsSeq
<1>3. W!Decrypted(ct) = plain
  BY DEF W!Decrypted, W!Encrypted, IsSeq
<1> HIDE DEF ct
<1>4. \A k : W!Decrypts(k, nonce, assoc, ct, tag) <=> k = key
  BY TagBinds DEF W!Decrypts, tag
<1> HIDE DEF tag, buf
<1>5. CASE key = from
  <2>1. r.buf = W!Encrypted(to, newNonce, plain) \o newNonce
                  \o W!TagOf(to, newNonce, assoc, W!Encrypted(to, newNonce, plain))
    BY <1>1, <1>2, <1>3, <1>4, <1>5 DEF W!Rekey
  <2> QED  BY <1>5, <2>1 DEF W!Wrap, buf
<1>6. CASE key # from /\ key = to
  <2>1. r.buf = W!Encrypted(to, nonce, plain) \o nonce \o tag
    BY <1>1, <1>2, <1>3, <1>4, <1>6 DEF W!Rekey
  <2> QED  BY <1>6, <2>1 DEF W!Wrap, tag, ct, buf
<1>7. CASE key # from /\ key # to
  <2>1. r = [result |-> "InvalidDecrypt", buf |-> buf]
    BY <1>1, <1>2, <1>4, <1>7 DEF W!Rekey
  <2> QED  BY <1>7, <2>1 DEF buf
<1> QED  BY <1>5, <1>6, <1>7

(* A buffer that does not end as a tag does is opened by no key, and       *)
(* rekey() leaves it as it is, or panics when it is too short.             *)
LEMMA NotSealed ==
  ASSUME NEW buf, IsSeq(buf), NEW from, NEW to, NEW assoc, NEW newNonce,
         Len(buf) >= W!Overhead =>
           \A k, n, a, c : buf[Len(buf)] # <<"tag", TagSize, k, n, a, c>>
  PROVE  LET r == W!Rekey(from, to, assoc, newNonce, buf)
         IN  /\ r = [result |-> IF Len(buf) >= W!Overhead THEN "InvalidDecrypt" ELSE "panic",
                     buf |-> buf]
             /\ \A k, a : W!Unwrap(k, a, buf).result = "InvalidDecrypt"
<1> DEFINE l == Len(buf)
           n == l - W!Overhead
<1>1. l \in Nat /\ NonceSize \in Nat /\ TagSize \in Nat /\ TagSize \in 1..TagSize
       /\ W!Overhead = NonceSize + TagSize
  BY SizesAssumption DEF IsSeq, W!Overhead
<1>2. CASE l >= W!Overhead
  <2>1. W!TagPortion(buf)[TagSize] = buf[n + NonceSize + TagSize]
    <3>1. n \in Nat /\ l = n + W!Overhead
      BY <1>1, <1>2
    <3> HIDE DEF n
    <3>2. PartAt(W!TagPortion(buf), n + NonceSize, buf) /\ Len(W!TagPortion(buf)) = TagSize
      BY <3>1, Portions
    <3> QED  BY <1>1, <3>2 DEF PartAt
  <2>2. n + NonceSize + TagSize = l
    BY <1>1
  <2>3. \A k, m, a, c : W!TagOf(k, m, a, c)[TagSize] = <<"tag", TagSize, k, m, a, c>>
    BY <1>1 DEF W!TagOf
  <2>4. \A k, m, a, c : W!TagPortion(buf) # W!TagOf(k, m, a, c)
    BY <1>2, <2>1, <2>2, <2>3
  <2>5. ~(l < W!Overhead)
    BY <1>1, <1>2
  <2>6. \A k, m, a, c : ~W!Decrypts(k, m, a, c, W!TagPortion(buf))
    BY <2>4 DEF W!Decrypts
  <2>7. W!Rekey(from, to, assoc, newNonce, buf) = [result |-> "InvalidDecrypt", buf |-> buf]
    BY <1>2, <2>5, <2>6 DEF W!Rekey
  <2>8. \A k, a : W!Unwrap(k, a, buf).result = "InvalidDecrypt"
    BY <2>5, <2>6 DEF W!Unwrap
  <2> QED  BY <1>2, <2>7, <2>8
<1>3. CASE ~(l >= W!Overhead)
  <2>1. l < W!Overhead
    BY <1>1, <1>3
  <2>2. W!Rekey(from, to, assoc, newNonce, buf) = [result |-> "panic", buf |-> buf]
    BY <1>3, <2>1 DEF W!Rekey
  <2>3. \A k, a : W!Unwrap(k, a, buf).result = "InvalidDecrypt"
    BY <2>1 DEF W!Unwrap
  <2> QED  BY <1>3, <2>2, <2>3
<1> QED  BY <1>2, <1>3

-----------------------------------------------------------------------------
(* The table of KeyStore in bytes.                                         *)

(* A nonce fills its part of a buffer, with bytes of its own.              *)
LEMMA NonceFacts ==
  ASSUME NEW which
  PROVE  /\ IsSeq(Nonce(which)) /\ Len(Nonce(which)) = NonceSize
         /\ \A i \in 1..NonceSize : Nonce(which)[i] = <<"nonce", which, i>>
<1> DEFINE f == Nonce(which)
<1>1. f = [i \in 1..NonceSize |-> <<"nonce", which, i>>]
  BY DEF Nonce
<1>2. f = [i \in 1..NonceSize |-> f[i]] /\ NonceSize \in Nat
  BY <1>1, SizesAssumption
<1>3. \A i \in 1..NonceSize : f[i] = <<"nonce", which, i>>
  BY <1>1
<1> HIDE DEF f
<1>4. IsSeq(f) /\ Len(f) = NonceSize
  BY <1>2, AFunctionIsSeq
<1> QED  BY <1>3, <1>4 DEF f

(* A plaintext is a pair of keys.                                          *)
LEMMA KeyPairFacts == ASSUME NEW dek PROVE IsSeq(KeyPair(dek)) /\ Len(KeyPair(dek)) = 2
BY DEF KeyPair, IsSeq

(* A wrapped key is opened by its KEK, in its context, and by nothing else.*)
LEMMA OpenedFacts ==
  ASSUME NEW kek, NEW which, NEW dek, NEW k, NEW c
  PROVE  Opened(k, c, W!Wrap(kek, DekHash, Nonce(which), KeyPair(dek))) =
           IF k = kek /\ BootstrapHash(c) = DekHash THEN {KeyPair(dek)} ELSE {}
<1> DEFINE r == W!Unwrap(k, BootstrapHash(c), W!Wrap(kek, DekHash, Nonce(which), KeyPair(dek)))
<1>1. /\ IsSeq(Nonce(which)) /\ Len(Nonce(which)) = NonceSize /\ IsSeq(KeyPair(dek))
  BY NonceFacts, KeyPairFacts
<1>2. IF k = kek /\ BootstrapHash(c) = DekHash THEN r.result = "Ok" /\ r.buf = KeyPair(dek)
      ELSE r.result = "InvalidDecrypt"
  BY <1>1, UnwrapWrapped
<1>3. Opened(k, c, W!Wrap(kek, DekHash, Nonce(which), KeyPair(dek))) =
        IF r.result = "Ok" THEN {r.buf} ELSE {}
  BY DEF Opened
<1> HIDE DEF r
<1> QED  BY <1>2, <1>3

(* What destroy_dek() leaves, or any part of it, is no sealed buffer.      *)
LEMMA GarbageEnds ==
  LET old == BytesOf(Garbage)
  IN  /\ IsSeq(old) /\ Len(old) = W!Overhead + 2
      /\ \A i \in 1..Len(old) : old[i] = <<"random", i>>
<1> DEFINE old == BytesOf(Garbage)
           n == W!Overhead + 2
<1>1. n \in Nat
  BY SizesAssumption DEF W!Overhead
<1>2. old = [i \in 1..n |-> <<"random", i>>]
  BY DEF BytesOf
<1> HIDE DEF n, old
<1>3. old = [i \in 1..n |-> old[i]]
  BY <1>2
<1>4. IsSeq(old) /\ Len(old) = n
  BY <1>1, <1>3, AFunctionIsSeq
<1>5. \A i \in 1..n : old[i] = <<"random", i>>
  BY <1>2
<1> QED  BY <1>4, <1>5 DEF n, old

NonceBytes(nonce, which) == \A i \in 1..NonceSize : nonce[i] = <<"nonce", which, i>>

(* The last byte of a tag.                                                 *)
TagEnd(byte) == \E k, n, a, c : byte = <<"tag", TagSize, k, n, a, c>>

(* A wrapped secret has the end of its tag at its end and nowhere before.  *)
LEMMA TagEnds ==
  ASSUME NEW key, NEW assoc, NEW nonce, NEW which, IsSeq(nonce), Len(nonce) = NonceSize,
         NonceBytes(nonce, which), NEW plain, IsSeq(plain),
         NEW old, old = W!Wrap(key, assoc, nonce, plain),
         NEW end, end = Len(plain) + W!Overhead
  PROVE  \A i \in 1..end : i # end => ~TagEnd(old[i])
<1> SUFFICES ASSUME NEW i \in 1..end, i # end, NEW k, NEW n, NEW a, NEW c,
                    NEW ct, ct = W!Encrypted(key, nonce, plain),
                    NEW tag, tag = W!TagOf(key, nonce, assoc, ct)
             PROVE  old[i] # <<"tag", TagSize, k, n, a, c>>
  BY DEF TagEnd
<1> DEFINE l == Len(plain)
<1>1. \A j \in 1..l : ct[j] = <<"ct", key, nonce, plain[j]>>
  BY DEF W!Encrypted, IsSeq
<1>2. \A j \in 1..TagSize : tag[j] = <<"tag", j, key, nonce, assoc, ct>>
  BY DEF W!TagOf
<1>8. IsSeq(ct) /\ Len(ct) = Len(plain) /\ IsSeq(tag) /\ Len(tag) = TagSize
  BY SealedParts
<1>12. IsSeq(ct) /\ IsSeq(nonce) /\ IsSeq(tag)
  BY <1>8
<1>9. old = Joined(ct, nonce, tag)
  BY DEF W!Wrap, Joined
<1>4. /\ NonceSize \in Nat /\ TagSize \in Nat /\ l \in Nat /\ end = l + NonceSize + TagSize
      /\ i \in 1..end /\ i # end
  BY SizesAssumption DEF W!Overhead, IsSeq
<1>10. l = Len(ct) /\ NonceSize = Len(nonce) /\ TagSize = Len(tag)
  BY <1>8
<1> HIDE DEF l
<1>11. PartAt(ct, 0, old) /\ PartAt(nonce, Len(ct), old) /\ PartAt(tag, Len(ct) + Len(nonce), old)
  BY <1>9, <1>12, ConcatThree
<1>13. PartAt(nonce, l, old) /\ PartAt(tag, l + NonceSize, old)
  BY <1>10, <1>11
<1>5. CASE i \in 1..l
  <2>1. old[0 + i] = ct[i]
    BY <1>5, <1>10, <1>11 DEF PartAt
  <2>2. 0 + i = i
    BY <1>4, <1>5
  <2>3. old[i] = <<"ct", key, nonce, plain[i]>>
    BY <1>1, <1>5, <2>1, <2>2
  <2> QED  BY <2>3
<1>6. CASE i \in (l + 1)..(l + NonceSize)
  <2> DEFINE j == i - l
  <2>1. j \in 1..NonceSize /\ i = l + j
    BY <1>4, <1>6
  <2> HIDE DEF j
  <2>2. old[l + j] = nonce[j]
    BY <1>10, <1>13, <2>1 DEF PartAt
  <2>3. nonce[j] = <<"nonce", which, j>>
    BY <2>1 DEF NonceBytes
  <2> QED  BY <2>1, <2>2, <2>3
<1>7. CASE i \in (l + NonceSize + 1)..(end - 1)
  <2> DEFINE j == i - (l + NonceSize)
  <2>1. j \in 1..TagSize /\ j # TagSize /\ i = l + NonceSize + j
    BY <1>4, <1>7
  <2> HIDE DEF j
  <2>2. old[l + NonceSize + j] = tag[j]
    BY <1>10, <1>13, <2>1 DEF PartAt
  <2>3. tag[j] = <<"tag", j, key, nonce, assoc, ct>>
    BY <1>2, <2>1
  <2> QED  BY <2>1, <2>2, <2>3
<1> QED  BY <1>4, <1>5, <1>6, <1>7

(* The length of a wrapped secret.                                         *)
LEMMA WrappedLen ==
  ASSUME NEW key, NEW assoc, NEW nonce, IsSeq(nonce), Len(nonce) = NonceSize,
         NEW plain, IsSeq(plain), NEW old, old = W!Wrap(key, assoc, nonce, plain)
  PROVE  IsSeq(old) /\ Len(old) = Len(plain) + W!Overhead
BY WrappedPortions

(* An entry of the table that opens.                                       *)
LEMMA WrappedEnds ==
  ASSUME NEW kek, NEW dek, NEW old, old = W!Wrap(kek, DekHash, Nonce("old"), KeyPair(dek))
  PROVE  /\ IsSeq(old) /\ Len(old) = W!Overhead + 2
         /\ \A i \in 1..(Len(old) - 1) : \A k, n, a, c : old[i] # <<"tag", TagSize, k, n, a, c>>
<1> DEFINE plain == KeyPair(dek)
           nonce == Nonce("old")
           end == Len(old)
<1>1. IsSeq(nonce) /\ Len(nonce) = NonceSize
  BY NonceFacts
<1>2. IsSeq(plain)
  BY KeyPairFacts
<1>3. Len(plain) = 2
  BY KeyPairFacts
<1>4. IsSeq(old) /\ Len(old) = Len(plain) + W!Overhead
  BY <1>1, <1>2, WrappedLen
<1>5. NonceBytes(nonce, "old")
  BY NonceFacts DEF NonceBytes
<1>9. old = W!Wrap(kek, DekHash, nonce, plain)
  OBVIOUS
<1>6. /\ end \in Nat /\ end = Len(plain) + W!Overhead /\ end = W!Overhead + 2
      /\ \A i \in 1..(end - 1) : i \in 1..end /\ i # end
  BY <1>3, <1>4, SizesAssumption DEF W!Overhead
<1> HIDE DEF end
<1>8. end = Len(plain) + W!Overhead
  BY <1>6
<1> HIDE DEF nonce, plain
<1>7. \A i \in 1..end : i # end => ~TagEnd(old[i])
  BY <1>1, <1>2, <1>5, <1>8, <1>9, TagEnds
<1>10. \A i \in 1..(end - 1) : \A k, n, a, c : old[i] # <<"tag", TagSize, k, n, a, c>>
  BY <1>6, <1>7 DEF TagEnd
<1> QED  BY <1>4, <1>6, <1>10 DEF end

(* A part of either, cut at its end, is no sealed buffer.                  *)
LEMMA CutFacts ==
  ASSUME NEW b \in Blobs, NEW n \in 0..(Len(BytesOf(b)) - 1), NEW from, NEW to, NEW newNonce
  PROVE  LET cut == SubSeq(BytesOf(b), 1, n)
             r == W!Rekey(from, to, DekHash, newNonce, cut)
         IN  r.result \in {"panic", "InvalidDecrypt"} /\ r.buf = cut
<1> DEFINE old == BytesOf(b)
           cut == SubSeq(old, 1, n)
           l == Len(old)
           S == {old[i] : i \in 1..n}
<1>1. /\ IsSeq(old) /\ l \in Nat
      /\ \A i \in 1..(l - 1) : \A k, m, a, c : old[i] # <<"tag", TagSize, k, m, a, c>>
  <2>1. CASE b = Garbage
    <3>1. IsSeq(BytesOf(Garbage)) /\ \A i \in 1..Len(BytesOf(Garbage)) : BytesOf(Garbage)[i] = <<"random", i>>
      BY GarbageEnds
    <3>2. \A i \in 1..(l - 1) : i \in 1..l
      BY <2>1, <3>1 DEF IsSeq
    <3>3. \A i \in 1..(l - 1) : old[i] = <<"random", i>>
      BY <2>1, <3>1, <3>2
    <3> QED  BY <2>1, <3>1, <3>3 DEF IsSeq
  <2>2. CASE b \in Wrapped
    <3>1. old = W!Wrap(b.kek, DekHash, Nonce("old"), KeyPair(b.dek))
      BY <2>2, KeyStoreAssumption DEF BytesOf
    <3> HIDE DEF old
    <3> QED  BY <3>1, WrappedEnds DEF IsSeq
  <2> QED  BY <2>1, <2>2 DEF Blobs
<1> HIDE DEF l
<1>2. n \in 0..(l - 1)
  BY DEF l
<1> HIDE DEF old
<1>3. \A i \in 1..n : old[i] \in S
  OBVIOUS
<1> HIDE DEF S
<1>4. /\ cut \in Seq(S) /\ Len(cut) = n
      /\ \A i \in 1..n : cut[i] = old[i]
  BY <1>1, <1>2, <1>3, SubSeqProperties
<1> HIDE DEF cut
<1>5. IsSeq(cut)
  BY <1>4, LenProperties DEF IsSeq
<1>6. Len(cut) >= W!Overhead => \A k, m, a, c : cut[Len(cut)] # <<"tag", TagSize, k, m, a, c>>
  <2> SUFFICES ASSUME Len(cut) >= W!Overhead
               PROVE  \A k, m, a, c : cut[Len(cut)] # <<"tag", TagSize, k, m, a, c>>
    OBVIOUS
  <2>1. n >= W!Overhead /\ W!Overhead >= 1
    BY <1>4, SizesAssumption DEF W!Overhead
  <2>2. n \in 1..n /\ n \in 1..(l - 1)
    BY <1>1, <1>2, <2>1, SizesAssumption DEF W!Overhead
  <2> QED  BY <1>1, <1>4, <2>2
<1>7. LET r == W!Rekey(from, to, DekHash, newNonce, cut)
      IN  r.buf = cut /\ r.result = IF Len(cut) >= W!Overhead THEN "InvalidDecrypt" ELSE "panic"
  BY <1>5, <1>6, NotSealed
<1> QED  BY <1>7 DEF cut, old

(* A buffer opens with this key, and no other, to this pair.               *)
OpensOnlyWith(kek, dek, buf) ==
  \A k : Opened(k, <<DekScope>>, buf) = IF k = kek THEN {KeyPair(dek)} ELSE {}

(* What reencrypt_dek() makes of an entry that opens, in bytes.            *)
LEMMA RekeyedBytes ==
  ASSUME NEW kek, NEW dek, NEW from, NEW to, NEW old,
         old = W!Wrap(kek, DekHash, Nonce("old"), KeyPair(dek)),
         NEW r, r = W!Rekey(from, to, DekHash, Nonce("new"), old)
  PROVE  IF kek = from \/ kek = to
         THEN OpensOnlyWith(to, dek, r.buf)
         ELSE r = [result |-> "InvalidDecrypt", buf |-> old]
<1>1. IsSeq(Nonce("old")) /\ Len(Nonce("old")) = NonceSize /\ IsSeq(KeyPair(dek))
  BY NonceFacts, KeyPairFacts
<1>2. \A which : OpensOnlyWith(to, dek, W!Wrap(to, DekHash, Nonce(which), KeyPair(dek)))
  <2>1. BootstrapHash(<<DekScope>>) = DekHash
    BY DEF DekHash
  <2> QED  BY <2>1, OpenedFacts DEF OpensOnlyWith
<1>3. CASE kek = from
  <2>1. r.buf = W!Wrap(to, DekHash, Nonce("new"), KeyPair(dek))
    BY <1>1, <1>3, RekeyWrapped
  <2>2. OpensOnlyWith(to, dek, r.buf)
    BY <1>2, <2>1
  <2> QED  BY <1>3, <2>2
<1>4. CASE kek # from /\ kek = to
  <2>1. r.buf = W!Wrap(to, DekHash, Nonce("old"), KeyPair(dek))
    BY <1>1, <1>4, RekeyWrapped
  <2>2. OpensOnlyWith(to, dek, r.buf)
    BY <1>2, <2>1
  <2> QED  BY <1>4, <2>2
<1>5. CASE kek # from /\ kek # to
  <2>1. r = [result |-> "InvalidDecrypt", buf |-> old]
    BY <1>1, <1>5, RekeyWrapped
  <2> QED  BY <1>5, <2>1
<1> QED  BY <1>3, <1>4, <1>5

(* RekeyedAsStored for one entry and one pair of keys.                     *)
EntryRekeyed(b, from, to) ==
  LET old == BytesOf(b)
      rekeyed(buf) == W!Rekey(from, to, DekHash, Nonce("new"), buf)
      new == Rekey(from, to, b)
  IN  /\ IF new = NoBlob
         THEN rekeyed(old) = [result |-> "InvalidDecrypt", buf |-> old]
         ELSE \A k \in Keks :
                Opened(k, <<DekScope>>, rekeyed(old).buf) =
                  (IF Opens(k, new) THEN {KeyPair(new.dek)} ELSE {})
      /\ \A n \in 0..(Len(old) - 1) :
           LET cut == SubSeq(old, 1, n)
           IN  rekeyed(cut).result \in {"panic", "InvalidDecrypt"} /\ rekeyed(cut).buf = cut
(* What it makes of any entry, and of one that was cut short.              *)
LEMMA RekeyedEntry ==
  ASSUME NEW b \in Blobs, NEW from \in Keks, NEW to \in Keks
  PROVE  EntryRekeyed(b, from, to)
<1> DEFINE old == BytesOf(b)
           r == W!Rekey(from, to, DekHash, Nonce("new"), old)
           new == Rekey(from, to, b)
<1>1. \A n \in 0..(Len(old) - 1) :
        LET cut == SubSeq(old, 1, n)
            s == W!Rekey(from, to, DekHash, Nonce("new"), cut)
        IN  s.result \in {"panic", "InvalidDecrypt"} /\ s.buf = cut
  BY CutFacts
<1>2. IF new = NoBlob
      THEN r = [result |-> "InvalidDecrypt", buf |-> old]
      ELSE \A k \in Keks :
             Opened(k, <<DekScope>>, r.buf) = (IF Opens(k, new) THEN {KeyPair(new.dek)} ELSE {})
  <2>1. CASE b = Garbage
    <3>1. new = NoBlob
      BY <2>1, KeyStoreAssumption DEF Rekey, Opens
    <3>2. IsSeq(old) /\ Len(old) = W!Overhead + 2 /\ \A i \in 1..Len(old) : old[i] = <<"random", i>>
      BY <2>1, GarbageEnds
    <3> HIDE DEF old
    <3>3. Len(old) >= W!Overhead /\ Len(old) \in 1..Len(old)
      BY <3>2, SizesAssumption DEF W!Overhead
    <3>4. \A k, n, a, c : old[Len(old)] # <<"tag", TagSize, k, n, a, c>>
      BY <3>2, <3>3
    <3>5. r = [result |-> "InvalidDecrypt", buf |-> old]
      BY <3>2, <3>3, <3>4, NotSealed
    <3> QED  BY <3>1, <3>5
  <2>2. CASE b \in Wrapped
    <3> SUFFICES ASSUME NEW kek \in Keks, NEW dek \in Deks, b = [kek |-> kek, dek |-> dek]
                 PROVE  IF new = NoBlob
                        THEN r = [result |-> "InvalidDecrypt", buf |-> old]
                        ELSE \A k \in Keks : Opened(k, <<DekScope>>, r.buf) =
                               (IF Opens(k, new) THEN {KeyPair(new.dek)} ELSE {})
      BY <2>2 DEF Wrapped
    <3>1. old = W!Wrap(kek, DekHash, Nonce("old"), KeyPair(dek))
      BY <2>2, KeyStoreAssumption DEF BytesOf
    <3> HIDE DEF old
    <3>2. IF kek = from \/ kek = to
          THEN OpensOnlyWith(to, dek, r.buf)
          ELSE r = [result |-> "InvalidDecrypt", buf |-> old]
      <4>1. r = W!Rekey(from, to, DekHash, Nonce("new"), old)
        OBVIOUS
      <4> HIDE DEF r
      <4> QED  BY <3>1, <4>1, RekeyedBytes
    <3> HIDE DEF r
    <3>3. CASE kek = from \/ kek = to
      <4>1. new = [kek |-> to, dek |-> dek]
        BY <2>2, <3>3 DEF Rekey, Opens
      <4>2. new \in Wrapped /\ new.kek = to /\ new.dek = dek /\ new # NoBlob
        BY <4>1, KeyStoreAssumption DEF Wrapped, Blobs
      <4> HIDE DEF new
      <4>3. \A k : Opens(k, new) <=> k = to
        BY <4>2 DEF Opens
      <4> QED  BY <3>2, <3>3, <4>2, <4>3 DEF OpensOnlyWith
    <3>4. CASE ~(kek = from \/ kek = to)
      <4>1. new = NoBlob
        BY <3>4 DEF Rekey, Opens
      <4> QED  BY <3>2, <3>4, <4>1
    <3> QED  BY <3>3, <3>4
  <2> QED  BY <2>1, <2>2 DEF Blobs
<1> HIDE DEF old, r, new
<1> QED  BY <1>1, <1>2 DEF EntryRekeyed, old, r, new

(* What reencrypt_dek() is about to store opens with its new key, and with *)
(* no other, to the pair of keys that the entry held; an entry that it     *)
(* cannot open is left alone; and one that was cut short is never taken    *)
(* for a rekeyed one.  So it is for every size of nonce and tag, and for   *)
(* every key that an operator may give.                                    *)
THEOREM RekeyedTheorem == ASSUME OperatorsCareful PROVE Spec => []RekeyedAsStored
<1>1. TypeOK => RekeyedAsStored
  <2> SUFFICES ASSUME TypeOK, NEW p \in Procs,
                      Working(p, {"reencrypt"}, "find"), db[job[p].sel] # NoBlob
               PROVE  LET j == job[p]
                          old == BytesOf(db[j.sel])
                          rekeyed(buf) == W!Rekey(j.kek, j.to, DekHash, Nonce("new"), buf)
                          new == Rekey(j.kek, j.to, db[j.sel])
                      IN  /\ IF new = NoBlob
                             THEN rekeyed(old) = [result |-> "InvalidDecrypt", buf |-> old]
                             ELSE \A k \in Keks :
                                    Opened(k, <<DekScope>>, rekeyed(old).buf) =
                                      (IF Opens(k, new) THEN {KeyPair(new.dek)} ELSE {})
                          /\ \A n \in 0..(Len(old) - 1) :
                               LET cut == SubSeq(old, 1, n)
                               IN  /\ rekeyed(cut).result \in {"panic", "InvalidDecrypt"}
                                   /\ rekeyed(cut).buf = cut
    BY DEF RekeyedAsStored
  <2>1. /\ job[p].kek \in Keks /\ job[p].to \in Keks /\ job[p].sel \in Selectors
        /\ db[job[p].sel] \in Blobs
    BY DEF TypeOK, Working, Jobs
  <2>2. EntryRekeyed(db[job[p].sel], job[p].kek, job[p].to)
    BY <2>1, RekeyedEntry
  <2> QED  BY <2>2 DEF EntryRekeyed
<1> QED  BY <1>1, TypeCorrect, PTL

-----------------------------------------------------------------------------
(* Induction, which the library has for the natural numbers as a least     *)
(* element of a set of them.                                               *)

(* The least of some natural numbers, for proofs by induction.             *)
LEMMA LeastOf ==
  ASSUME NEW T, T \subseteq Nat, T # {}
  PROVE  \E x \in T : \A y \in T : x <= y
<1> DEFINE R == OpToRel(<, Nat)
<1>1. IsWellFoundedOn(R, Nat)
  BY NatLessThanWellFounded
<1>2. \A x, y \in Nat : <<y, x>> \in R <=> y < x
  BY DEF OpToRel
<1> HIDE DEF R
<1>3. \E x \in T : \A y \in T : ~(<<y, x>> \in R)
  BY <1>1, WFMin
<1>4. \A x, y \in T : ~(y < x) => x <= y
  OBVIOUS
<1> QED  BY <1>2, <1>3, <1>4

(* What holds of 0, and of every number up to n whose predecessor it holds *)
(* of, holds of them all.                                                  *)
LEMMA UpTo ==
  ASSUME NEW n \in Nat, NEW G, 0 \in G, \A i \in 1..n : i - 1 \in G => i \in G
  PROVE  0..n \subseteq G
<1> DEFINE T == (0..n) \ G
<1>1. SUFFICES ASSUME T # {} PROVE FALSE
  OBVIOUS
<1>2. T \subseteq Nat
  OBVIOUS
<1> HIDE DEF T
<1>3. PICK x \in T : \A y \in T : x <= y
  BY <1>1, <1>2, LeastOf
<1>4. x \in 1..n /\ x - 1 \in (0..n) /\ x \notin G
  BY <1>3 DEF T
<1>5. x - 1 \in T
  BY <1>4 DEF T
<1> QED  BY <1>3, <1>4, <1>5

-----------------------------------------------------------------------------
(* auth.rs: what finish() has been fed tells the chain.                    *)

(* The encoders that a chain goes through.                                 *)
RunOf(f, key, chain, n) ==
  f = [i \in 0..n |-> IF i = 0 THEN E!NewEncoder(key) ELSE E!PushAssoc(f[i - 1], chain[i])]

(* There is one for every chain.                                           *)
LEMMA RunExists ==
  ASSUME NEW key, NEW chain, NEW n \in Nat
  PROVE  \E f : RunOf(f, key, chain, n)
<1> DEFINE G == {k \in 0..n : \E f : RunOf(f, key, chain, k)}
<1>1. 0 \in G
  <2> DEFINE f == [i \in 0..0 |-> E!NewEncoder(key)]
  <2>1. RunOf(f, key, chain, 0)
    BY DEF RunOf
  <2> QED  BY <2>1
<1>2. ASSUME NEW k \in 1..n, k - 1 \in G PROVE k \in G
  <2>1. PICK f : RunOf(f, key, chain, k - 1)
    BY <1>2
  <2> DEFINE g == [i \in 0..k |-> IF i = k THEN E!PushAssoc(f[k - 1], chain[k]) ELSE f[i]]
  <2>2. RunOf(g, key, chain, k)
    <3>1. \A i \in 0..(k - 1) :
            f[i] = IF i = 0 THEN E!NewEncoder(key) ELSE E!PushAssoc(f[i - 1], chain[i])
      BY <2>1 DEF RunOf
    <3>2. ASSUME NEW i \in 0..k
          PROVE  g[i] = IF i = 0 THEN E!NewEncoder(key) ELSE E!PushAssoc(g[i - 1], chain[i])
      <4>1. CASE i = k
        <5>1. g[k - 1] = f[k - 1] /\ g[k] = E!PushAssoc(f[k - 1], chain[k])
          OBVIOUS
        <5> HIDE DEF g
        <5> QED  BY <4>1, <5>1
      <4>2. CASE i # k
        <5>1. i \in 0..(k - 1) /\ g[i] = f[i] /\ (i # 0 => g[i - 1] = f[i - 1])
          BY <4>2
        <5> HIDE DEF g
        <5> QED  BY <3>1, <5>1
      <4> QED  BY <4>1, <4>2
    <3>3. g = [i \in 0..k |-> g[i]]
      OBVIOUS
    <3> HIDE DEF g
    <3> QED  BY <3>2, <3>3 DEF RunOf
  <2> QED  BY <2>2
<1> HIDE DEF G
<1>3. n \in G
  BY <1>1, <1>2, UpTo
<1> QED  BY <1>3 DEF G

(* Encode is the last encoder of one.                                      *)
LEMMA EncodeRuns ==
  ASSUME NEW key, NEW chain, Len(chain) \in Nat
  PROVE  \E f : RunOf(f, key, chain, Len(chain)) /\ E!Hash(key, chain) = f[Len(chain)].written
<1> DEFINE F == CHOOSE f : RunOf(f, key, chain, Len(chain))
<1>1. RunOf(F, key, chain, Len(chain))
  BY RunExists
<1>2. E!Encode(key, chain) = F[Len(chain)]
  BY DEF E!Encode, RunOf
<1> QED  BY <1>1, <1>2 DEF E!Hash

(* A sequence of one.                                                      *)
LEMMA OneElement ==
  ASSUME NEW x PROVE IsSeq(<<x>>) /\ Len(<<x>>) = 1 /\ <<x>>[1] = x
<1>1. <<x>> = [i \in 1..1 |-> x]
  OBVIOUS
<1>2. Len(<<x>>) = 1 /\ <<x>>[1] = x /\ DOMAIN <<x>> = 1..1
  OBVIOUS
<1> QED  BY <1>1, <1>2 DEF IsSeq

(* A sequence and one more.                                                *)
LEMMA AppendFacts ==
  ASSUME NEW s, IsSeq(s), NEW x
  PROVE  /\ IsSeq(Append(s, x)) /\ Len(Append(s, x)) = Len(s) + 1
         /\ Append(s, x)[Len(s) + 1] = x /\ \A i \in 1..Len(s) : Append(s, x)[i] = s[i]
<1> DEFINE S == {s[i] : i \in 1..Len(s)} \cup {x}
<1>1. s = [i \in 1..Len(s) |-> s[i]] /\ Len(s) \in Nat
  BY DEF IsSeq
<1>2. s \in Seq({s[i] : i \in 1..Len(s)})
  BY <1>1, AFunctionIsSeq
<1>3. s \in Seq(S) /\ x \in S
  BY <1>2, SeqMonotonic
<1> HIDE DEF S
<1>4. Append(s, x) \in Seq(S) /\ Len(Append(s, x)) = Len(s) + 1
      /\ Append(s, x)[Len(s) + 1] = x /\ \A i \in 1..Len(s) : Append(s, x)[i] = s[i]
  BY <1>3, AppendProperties
<1>5. IsSeq(Append(s, x))
  BY <1>4, LenProperties DEF IsSeq
<1> QED  BY <1>4, <1>5

(* It tells what it was made of.                                           *)
LEMMA AppendsDiffer ==
  ASSUME NEW s, IsSeq(s), NEW t, IsSeq(t), NEW x, NEW y, Append(s, x) = Append(t, y)
  PROVE  s = t /\ x = y
<1> DEFINE u == Append(s, x)
<1>1. /\ Len(u) = Len(s) + 1 /\ u[Len(s) + 1] = x
      /\ \A i \in 1..Len(s) : u[i] = s[i]
  BY AppendFacts
<1>2. /\ Len(u) = Len(t) + 1 /\ u[Len(t) + 1] = y
      /\ \A i \in 1..Len(t) : u[i] = t[i]
  BY AppendFacts
<1> HIDE DEF u
<1>3. Len(s) \in Nat /\ Len(t) \in Nat
  BY DEF IsSeq
<1>4. Len(s) = Len(t)
  BY <1>1, <1>2, <1>3
<1>5. \A i \in 1..Len(s) : s[i] = t[i]
  BY <1>1, <1>2, <1>4
<1>6. s = t
  BY <1>4, <1>5, SeqsEqual
<1> QED  BY <1>1, <1>2, <1>6

(* The bytes of an array, as what is written of it.                        *)
LEMMA BytesFacts ==
  ASSUME NEW S, NEW s \in Seq(S)
  PROVE  /\ IsSeq(E!Bytes(s)) /\ Len(E!Bytes(s)) = Len(s)
         /\ \A i \in 1..Len(s) : E!Bytes(s)[i] = <<"byte", s[i]>>
<1>1. Len(s) \in Nat /\ DOMAIN s = 1..Len(s)
  OBVIOUS
<1>2. E!Bytes(s) = [i \in 1..Len(s) |-> <<"byte", s[i]>>]
  BY <1>1 DEF E!Bytes, E!Byte
<1> QED  BY <1>1, <1>2, AFunctionIsSeq

(* They tell the array.                                                    *)
LEMMA BytesDiffer ==
  ASSUME NEW S, NEW s \in Seq(S), NEW t \in Seq(S), E!Bytes(s) = E!Bytes(t)
  PROVE  s = t
<1>1. Len(s) = Len(t) /\ \A i \in 1..Len(s) : <<"byte", s[i]>> = <<"byte", t[i]>>
  BY BytesFacts
<1>2. \A i \in 1..Len(s) : s[i] = t[i]
  BY <1>1
<1>3. IsSeq(s) /\ IsSeq(t)
  BY DEF IsSeq
<1> QED  BY <1>1, <1>2, <1>3, SeqsEqual

(* The row of a field tells its key, by its length, and its value.         *)
LEMMA FieldRowsDiffer ==
  ASSUME NEW S, NEW e, NEW f, e.key \in Seq(S), f.key \in Seq(S),
         e.value \in Seq(S), f.value \in Seq(S)
  PROVE  /\ IsSeq(E!FieldRow(e))
         /\ E!FieldRow(e) = E!FieldRow(f) => e.key = f.key /\ e.value = f.value
<1>1. ASSUME NEW g, g.key \in Seq(S), g.value \in Seq(S), NEW s, s = E!FieldRow(g)
      PROVE  /\ IsSeq(s) /\ Len(s) = 1 + Len(g.key) + Len(g.value)
             /\ s[1] = <<"byte", Len(g.key)>>
             /\ PartAt(E!Bytes(g.key), 1, s) /\ PartAt(E!Bytes(g.value), 1 + Len(g.key), s)
  <2> DEFINE x == <<E!Byte(Len(g.key))>>
             y == E!Bytes(g.key)
             z == E!Bytes(g.value)
  <2>1. IsSeq(x) /\ Len(x) = 1 /\ x[1] = <<"byte", Len(g.key)>>
    BY OneElement DEF E!Byte
  <2>2. IsSeq(y) /\ IsSeq(z) /\ Len(y) = Len(g.key) /\ Len(z) = Len(g.value)
    BY <1>1, BytesFacts
  <2>3. s = Joined(x, y, z)
    BY <1>1 DEF Joined, E!FieldRow
  <2> HIDE DEF x, y, z
  <2>4. /\ IsSeq(s) /\ Len(s) = Len(x) + Len(y) + Len(z)
        /\ PartAt(x, 0, s) /\ PartAt(y, Len(x), s) /\ PartAt(z, Len(x) + Len(y), s)
    <3>1. IsSeq(x) /\ IsSeq(y) /\ IsSeq(z)
      BY <2>1, <2>2
    <3> QED  BY ONLY <2>3, <3>1, ConcatThree
  <2>5. s[0 + 1] = x[1]
    BY <2>1, <2>4 DEF PartAt
  <2>6. s[1] = x[1]
    BY <2>5
  <2> QED  BY <2>1, <2>2, <2>4, <2>6 DEF y, z
<1>2. ASSUME E!FieldRow(e) = E!FieldRow(f) PROVE e.key = f.key /\ e.value = f.value
  <2> DEFINE s == E!FieldRow(e)
  <2>1. /\ Len(s) = 1 + Len(e.key) + Len(e.value) /\ s[1] = <<"byte", Len(e.key)>>
        /\ PartAt(E!Bytes(e.key), 1, s) /\ PartAt(E!Bytes(e.value), 1 + Len(e.key), s)
    BY <1>1
  <2>2. /\ Len(s) = 1 + Len(f.key) + Len(f.value) /\ s[1] = <<"byte", Len(f.key)>>
        /\ PartAt(E!Bytes(f.key), 1, s) /\ PartAt(E!Bytes(f.value), 1 + Len(f.key), s)
    BY <1>1, <1>2
  <2> HIDE DEF s
  <2>3. /\ Len(e.key) \in Nat /\ Len(f.key) \in Nat
        /\ Len(e.value) \in Nat /\ Len(f.value) \in Nat
    OBVIOUS
  <2>4. Len(e.key) = Len(f.key) /\ Len(e.value) = Len(f.value)
    <3>1. <<"byte", Len(e.key)>> = <<"byte", Len(f.key)>>
      BY <2>1, <2>2
    <3>2. Len(e.key) = Len(f.key)
      BY <3>1
    <3>3. 1 + Len(e.key) + Len(e.value) = 1 + Len(f.key) + Len(f.value)
      BY <2>1, <2>2
    <3> DEFINE a == Len(e.key)
               b == Len(e.value)
               c == Len(f.value)
    <3>4. a \in Nat /\ b \in Nat /\ c \in Nat /\ 1 + a + b = 1 + a + c
      BY <2>3, <3>2, <3>3
    <3> HIDE DEF a, b, c
    <3>5. b = c
      BY <3>4
    <3> QED  BY <3>2, <3>5 DEF b, c
  <2>5. /\ Len(E!Bytes(e.key)) = Len(E!Bytes(f.key))
        /\ Len(E!Bytes(e.value)) = Len(E!Bytes(f.value))
    BY <2>4, BytesFacts
  <2>6. E!Bytes(e.key) = E!Bytes(f.key)
    BY <2>1, <2>2, <2>5, SamePart
  <2>7. E!Bytes(e.value) = E!Bytes(f.value)
    BY <2>1, <2>2, <2>4, <2>5, SamePart
  <2> QED  BY <2>6, <2>7, BytesDiffer
<1> QED  BY <1>1, <1>2

(* The digest of an entry tells the length of its key, and its value.      *)
LEMMA EntriesDiffer ==
  ASSUME NEW S, NEW w, IsSeq(w), NEW m, NEW n, NEW k, NEW l,
         m[k] \in Seq(S), n[l] \in Seq(S), E!Entry(w, m, k) = E!Entry(w, n, l)
  PROVE  Len(k) = Len(l) /\ m[k] = n[l]
<1>1. ASSUME NEW g, NEW j, g[j] \in Seq(S), NEW s, s = E!Entry(w, g, j)
      PROVE  /\ Len(s) = Len(w) + 1 + Len(g[j])
             /\ s[Len(w) + 1] = <<"byte", Len(j)>>
             /\ PartAt(E!Bytes(g[j]), Len(w) + 1, s)
  <2> DEFINE x == <<E!Byte(Len(j))>>
             y == E!Bytes(g[j])
  <2>1. IsSeq(x) /\ Len(x) = 1 /\ x[1] = <<"byte", Len(j)>>
    BY OneElement DEF E!Byte
  <2>2. IsSeq(y) /\ Len(y) = Len(g[j])
    BY <1>1, BytesFacts
  <2>3. s = Joined(w, x, y)
    BY <1>1 DEF Joined, E!Entry
  <2> HIDE DEF x, y
  <2>4. /\ IsSeq(s) /\ Len(s) = Len(w) + Len(x) + Len(y)
        /\ PartAt(w, 0, s) /\ PartAt(x, Len(w), s) /\ PartAt(y, Len(w) + Len(x), s)
    <3>1. IsSeq(w) /\ IsSeq(x) /\ IsSeq(y)
      BY <2>1, <2>2
    <3> QED  BY ONLY <2>3, <3>1, ConcatThree
  <2>5. s[Len(w) + 1] = x[1]
    BY <2>1, <2>4 DEF PartAt
  <2> QED  BY <2>1, <2>2, <2>4, <2>5 DEF y
<1> DEFINE s == E!Entry(w, m, k)
<1>2. /\ Len(s) = Len(w) + 1 + Len(m[k]) /\ s[Len(w) + 1] = <<"byte", Len(k)>>
      /\ PartAt(E!Bytes(m[k]), Len(w) + 1, s)
  BY <1>1
<1>3. /\ Len(s) = Len(w) + 1 + Len(n[l]) /\ s[Len(w) + 1] = <<"byte", Len(l)>>
      /\ PartAt(E!Bytes(n[l]), Len(w) + 1, s)
  BY <1>1
<1> HIDE DEF s
<1>4. Len(k) = Len(l)
  <2>1. <<"byte", Len(k)>> = <<"byte", Len(l)>>
    BY <1>2, <1>3
  <2> QED  BY <2>1
<1>5. Len(m[k]) = Len(n[l])
  <2> DEFINE a == Len(w)
             b == Len(m[k])
             c == Len(n[l])
  <2>1. a \in Nat /\ b \in Nat /\ c \in Nat
    BY DEF IsSeq
  <2>3. a + 1 + b = a + 1 + c
    BY <1>2, <1>3
  <2> HIDE DEF a, b, c
  <2>2. b = c
    BY <2>1, <2>3
  <2> QED  BY <2>2 DEF b, c
<1>6. E!Bytes(m[k]) = E!Bytes(n[l])
  <2>1. Len(E!Bytes(m[k])) = Len(E!Bytes(n[l]))
    BY <1>5, BytesFacts
  <2> QED  BY <1>2, <1>3, <2>1, SamePart
<1> QED  BY <1>4, <1>6, BytesDiffer

(* What a map's row shows of its entries: one pair, or none, for each.     *)
Digests(w, m) == [k \in DOMAIN m |-> E!Entry(w, m, k)]
Shown(m) == [k \in DOMAIN m |-> <<Len(k), m[k]>>]

(* Two entries have one digest exactly when they have one pair.            *)
LEMMA EntriesAlike ==
  ASSUME NEW S, NEW w, IsSeq(w), NEW m, NEW n, NEW k, NEW l, m[k] \in Seq(S), n[l] \in Seq(S)
  PROVE  E!Entry(w, m, k) = E!Entry(w, n, l) <=> <<Len(k), m[k]>> = <<Len(l), n[l]>>
<1>1. ASSUME E!Entry(w, m, k) = E!Entry(w, n, l) PROVE <<Len(k), m[k]>> = <<Len(l), n[l]>>
  <2>1. Len(k) = Len(l) /\ m[k] = n[l]
    BY <1>1, EntriesDiffer
  <2> QED  BY <2>1
<1>2. ASSUME <<Len(k), m[k]>> = <<Len(l), n[l]>> PROVE E!Entry(w, m, k) = E!Entry(w, n, l)
  <2>1. Len(k) = Len(l) /\ m[k] = n[l]
    BY <1>2
  <2> QED  BY <2>1, Zenon DEF E!Entry
<1> QED  BY <1>1, <1>2

(* Functions that repeat themselves alike fold at the same places.         *)
LEMMA OddAlike ==
  ASSUME NEW d, NEW p, DOMAIN d = DOMAIN p,
         \A j \in DOMAIN d, k \in DOMAIN d : d[j] = d[k] <=> p[j] = p[k]
  PROVE  E!OddAt(d) = E!OddAt(p)
<1>1. ASSUME NEW k \in DOMAIN d
      PROVE  {j \in DOMAIN d : d[j] = d[k]} = {j \in DOMAIN p : p[j] = p[k]}
  OBVIOUS
<1> QED  BY <1>1 DEF E!OddAt

(* So what is folded stands at the same places of the digests and of the   *)
(* pairs.                                                                  *)
LEMMA OddPlaces ==
  ASSUME NEW S, NEW w, IsSeq(w), NEW o, o \in [DOMAIN o -> Seq(S)]
  PROVE  /\ E!OddAt(Digests(w, o)) = E!OddAt(Shown(o))
         /\ \A k \in E!OddAt(Shown(o)) : k \in DOMAIN o
<1> DEFINE d == Digests(w, o)
           p == Shown(o)
<1>1. DOMAIN d = DOMAIN o /\ DOMAIN p = DOMAIN o
  BY DEF Digests, Shown
<1>2. ASSUME NEW j \in DOMAIN o, NEW k \in DOMAIN o PROVE d[j] = d[k] <=> p[j] = p[k]
  <2>1. o[j] \in Seq(S) /\ o[k] \in Seq(S)
    OBVIOUS
  <2>2. E!Entry(w, o, j) = E!Entry(w, o, k) <=> <<Len(j), o[j]>> = <<Len(k), o[k]>>
    BY ONLY <2>1, IsSeq(w), EntriesAlike
  <2> QED  BY <2>2 DEF Digests, Shown
<1> HIDE DEF d, p
<1>3. E!OddAt(d) = E!OddAt(p)
  BY <1>1, <1>2, OddAlike
<1>4. \A k \in E!OddAt(p) : k \in DOMAIN o
  BY <1>1 DEF E!OddAt
<1> QED  BY <1>3, <1>4 DEF d, p

(* What is left of the digests tells what is left of the pairs, and the    *)
(* other way round.                                                        *)
LEMMA FoldShows ==
  ASSUME NEW S, NEW w, IsSeq(w), NEW m, NEW n,
         m \in [DOMAIN m -> Seq(S)], n \in [DOMAIN n -> Seq(S)]
  PROVE  /\ E!Folded(Digests(w, m)) = E!Folded(Digests(w, n))
              => E!Folded(Shown(m)) \subseteq E!Folded(Shown(n))
         /\ E!Folded(Shown(m)) = E!Folded(Shown(n))
              => E!Folded(Digests(w, m)) \subseteq E!Folded(Digests(w, n))
<1>1. /\ E!OddAt(Digests(w, m)) = E!OddAt(Shown(m))
      /\ E!OddAt(Digests(w, n)) = E!OddAt(Shown(n))
      /\ \A k \in E!OddAt(Shown(m)) : k \in DOMAIN m
      /\ \A k \in E!OddAt(Shown(n)) : k \in DOMAIN n
  BY OddPlaces
<1>2. ASSUME NEW k \in DOMAIN m, NEW l \in DOMAIN n
      PROVE  Digests(w, m)[k] = Digests(w, n)[l] <=> Shown(m)[k] = Shown(n)[l]
  <2>1. m[k] \in Seq(S) /\ n[l] \in Seq(S)
    OBVIOUS
  <2>2. E!Entry(w, m, k) = E!Entry(w, n, l) <=> <<Len(k), m[k]>> = <<Len(l), n[l]>>
    BY ONLY <2>1, IsSeq(w), EntriesAlike
  <2> QED  BY <2>2 DEF Digests, Shown
<1>3. ASSUME E!Folded(Digests(w, m)) = E!Folded(Digests(w, n)), NEW k \in E!OddAt(Shown(m))
      PROVE  Shown(m)[k] \in E!Folded(Shown(n))
  <2>1. PICK l \in E!OddAt(Shown(n)) : Digests(w, m)[k] = Digests(w, n)[l]
    BY <1>1, <1>3 DEF E!Folded
  <2>2. Shown(m)[k] = Shown(n)[l]
    BY <1>1, <1>2, <1>3, <2>1
  <2> QED  BY <2>2 DEF E!Folded
<1>4. ASSUME E!Folded(Shown(m)) = E!Folded(Shown(n)), NEW k \in E!OddAt(Shown(m))
      PROVE  Digests(w, m)[k] \in E!Folded(Digests(w, n))
  <2>1. PICK l \in E!OddAt(Shown(n)) : Shown(m)[k] = Shown(n)[l]
    BY <1>4 DEF E!Folded
  <2>2. Digests(w, m)[k] = Digests(w, n)[l]
    BY <1>1, <1>2, <1>4, <2>1
  <2> QED  BY <1>1, <2>2 DEF E!Folded
<1>5. ASSUME E!Folded(Digests(w, m)) = E!Folded(Digests(w, n))
      PROVE  E!Folded(Shown(m)) \subseteq E!Folded(Shown(n))
  BY <1>3, <1>5 DEF E!Folded
<1>6. ASSUME E!Folded(Shown(m)) = E!Folded(Shown(n))
      PROVE  E!Folded(Digests(w, m)) \subseteq E!Folded(Digests(w, n))
  BY <1>1, <1>4, <1>6 DEF E!Folded
<1> QED  BY <1>5, <1>6

(* The row of a map, and its two parts.                                    *)
LEMMA MapRowParts ==
  ASSUME NEW w, NEW e
  PROVE  /\ IsSeq(E!MapRow(w, e))
         /\ E!MapRow(w, e)[1] = <<"fold", E!Folded(Digests(w, e.items))>>
         /\ E!MapRow(w, e)[2] = <<"byte", E!KeyLengths(e.items)>>
<1> DEFINE x == <<"fold", E!Folded(Digests(w, e.items))>>
           y == <<"byte", E!KeyLengths(e.items)>>
           row == <<x, y>>
<1>1. E!MapRow(w, e) = row
  BY DEF E!MapRow, E!Byte, Digests
<1> HIDE DEF x, y
<1>2. row = [i \in 1..2 |-> row[i]] /\ row[1] = x /\ row[2] = y
  OBVIOUS
<1> HIDE DEF row
<1>3. IsSeq(row)
  BY <1>2, AFunctionIsSeq
<1> QED  BY <1>1, <1>2, <1>3 DEF x, y

(* The rows of two maps tell their imprints.                               *)
LEMMA MapRowsBind ==
  ASSUME NEW w, IsSeq(w), NEW S, NEW e, NEW f,
         e.items \in [DOMAIN e.items -> Seq(S)], f.items \in [DOMAIN f.items -> Seq(S)],
         E!MapRow(w, e) = E!MapRow(w, f)
  PROVE  E!MapImprint(e.items) = E!MapImprint(f.items)
<1> DEFINE m == e.items
           n == f.items
           x == E!Folded(Digests(w, m))
           y == E!Folded(Digests(w, n))
           a == E!KeyLengths(m)
           b == E!KeyLengths(n)
<1>1. <<"fold", x>> = <<"fold", y>> /\ <<"byte", a>> = <<"byte", b>>
  BY MapRowParts, Zenon
<1>2. x = y /\ a = b
  <2> HIDE DEF x, y, a, b
  <2> QED  BY <1>1
<1>3. E!Folded(Shown(m)) \subseteq E!Folded(Shown(n))
  BY <1>2, FoldShows
<1>4. E!Folded(Shown(n)) \subseteq E!Folded(Shown(m))
  BY <1>2, FoldShows
<1>5. E!Folded(Shown(m)) = E!Folded(Shown(n))
  BY <1>3, <1>4
<1> QED  BY <1>2, <1>5, Zenon DEF E!MapImprint, Shown

(* What push_row_level_assoc() writes is a sequence.                       *)
LEMMA RowIsSeq ==
  ASSUME NEW w, IsSeq(w), NEW e, E!IsElement(e)
  PROVE  IsSeq(E!Row(w, e))
<1>1. CASE e.of = "bytes" /\ e.data \in Seq(E!U8)
  BY <1>1, BytesFacts DEF E!Row
<1>2. CASE e.of = "field" /\ e.key \in Seq(E!U8) /\ e.value \in Seq(E!U8)
  BY <1>2, FieldRowsDiffer DEF E!Row
<1>3. CASE e.of = "map" /\ e.items \in [DOMAIN e.items -> Seq(E!U8)]
  <2>1. IsSeq(E!MapRow(w, e))
    BY MapRowParts
  <2> QED  BY <1>3, <2>1 DEF E!Row
<1> QED  BY <1>1, <1>2, <1>3 DEF E!IsElement

(* Two elements of one type whose rows are alike have one imprint: they    *)
(* are one, unless they are maps.                                          *)
LEMMA RowsBind ==
  ASSUME NEW w, IsSeq(w), NEW e, NEW f, E!IsElement(e), E!IsElement(f), E!OneKind(e, f),
         e.type = f.type, E!Row(w, e) = E!Row(w, f)
  PROVE  E!Imprint(e) = E!Imprint(f)
<1>1. e.of = f.of
  BY DEF E!OneKind
<1>2. CASE e.of = "bytes"
  <2>1. /\ e.data \in Seq(E!U8) /\ e = E!AsBytesAssoc(e.type, e.data)
        /\ f.data \in Seq(E!U8) /\ f = E!AsBytesAssoc(f.type, f.data)
    BY <1>1, <1>2 DEF E!IsElement
  <2>2. E!Bytes(e.data) = E!Bytes(f.data)
    BY <1>1, <1>2 DEF E!Row
  <2>3. e.data = f.data
    BY <2>1, <2>2, BytesDiffer
  <2>4. e = f
    BY <2>1, <2>3, Zenon
  <2> QED  BY <2>4
<1>3. CASE e.of = "field"
  <2>1. /\ e.key \in Seq(E!U8) /\ e.value \in Seq(E!U8) /\ e = E!FieldAssoc(e.type, e.key, e.value)
        /\ f.key \in Seq(E!U8) /\ f.value \in Seq(E!U8) /\ f = E!FieldAssoc(f.type, f.key, f.value)
    BY <1>1, <1>3 DEF E!IsElement
  <2>2. E!FieldRow(e) = E!FieldRow(f)
    BY <1>1, <1>3 DEF E!Row
  <2>3. e.key = f.key /\ e.value = f.value
    <3>1. /\ e.key \in Seq(E!U8) /\ f.key \in Seq(E!U8)
          /\ e.value \in Seq(E!U8) /\ f.value \in Seq(E!U8)
      BY <2>1
    <3> QED  BY ONLY <2>2, <3>1, FieldRowsDiffer
  <2>4. e = f
    BY <2>1, <2>3, Zenon
  <2> QED  BY <2>4
<1>4. CASE e.of = "map"
  <2>1. e.items \in [DOMAIN e.items -> Seq(E!U8)] /\ f.items \in [DOMAIN f.items -> Seq(E!U8)]
    BY <1>1, <1>4 DEF E!IsElement
  <2>2. E!MapRow(w, e) = E!MapRow(w, f)
    BY <1>1, <1>4 DEF E!Row
  <2>3. E!MapImprint(e.items) = E!MapImprint(f.items)
    BY <2>1, <2>2, MapRowsBind
  <2> QED  BY <1>1, <1>4, <2>3, Zenon DEF E!Imprint
<1> QED  BY <1>2, <1>3, <1>4 DEF E!IsElement

(* The rows of two maps of one imprint are alike.                          *)
LEMMA MapRowsAlike ==
  ASSUME NEW w, IsSeq(w), NEW S, NEW e, NEW f,
         e.items \in [DOMAIN e.items -> Seq(S)], f.items \in [DOMAIN f.items -> Seq(S)],
         E!MapImprint(e.items) = E!MapImprint(f.items)
  PROVE  E!MapRow(w, e) = E!MapRow(w, f)
<1> DEFINE m == e.items
           n == f.items
           x == E!Folded(Shown(m))
           y == E!Folded(Shown(n))
           a == E!KeyLengths(m)
           b == E!KeyLengths(n)
<1>1. <<x, a>> = <<y, b>>
  BY Zenon DEF E!MapImprint, Shown
<1>2. x = y /\ a = b
  <2> HIDE DEF x, y, a, b
  <2> QED  BY <1>1
<1>3. E!Folded(Digests(w, m)) \subseteq E!Folded(Digests(w, n))
  BY <1>2, FoldShows
<1>4. E!Folded(Digests(w, n)) \subseteq E!Folded(Digests(w, m))
  BY <1>2, FoldShows
<1>5. E!Folded(Digests(w, m)) = E!Folded(Digests(w, n))
  BY <1>3, <1>4
<1> QED  BY <1>2, <1>5, Zenon DEF E!MapRow, Digests

(* So elements of one imprint have one type, and rows that are alike.      *)
LEMMA RowsAlike ==
  ASSUME NEW e, NEW f, E!IsElement(e), E!IsElement(f), E!OneKind(e, f), E!OneKind(f, e),
         E!Imprint(e) = E!Imprint(f)
  PROVE  e.type = f.type /\ \A w : IsSeq(w) => E!Row(w, e) = E!Row(w, f)
<1>1. e.type = f.type
  <2>1. ASSUME NEW g, E!IsElement(g) PROVE E!Imprint(g).type = g.type
    BY DEF E!Imprint, E!MapAssoc
  <2> QED  BY <2>1
<1>2. e.of = f.of
  BY <1>1 DEF E!OneKind
<1>3. CASE e.of = "map"
  <2>1. e.items \in [DOMAIN e.items -> Seq(E!U8)] /\ f.items \in [DOMAIN f.items -> Seq(E!U8)]
    BY <1>2, <1>3 DEF E!IsElement
  <2>2. E!MapAssoc(e.type, E!MapImprint(e.items)) = E!MapAssoc(f.type, E!MapImprint(f.items))
    BY <1>2, <1>3, Zenon DEF E!Imprint
  <2>3. E!MapImprint(e.items) = E!MapImprint(f.items)
    <3> DEFINE x == E!MapImprint(e.items)
               y == E!MapImprint(f.items)
    <3>1. E!MapAssoc(e.type, x) = E!MapAssoc(f.type, y)
      BY <2>2
    <3> HIDE DEF x, y
    <3>2. x = y
      BY <3>1 DEF E!MapAssoc
    <3> QED  BY <3>2 DEF x, y
  <2>4. ASSUME NEW w, IsSeq(w) PROVE E!MapRow(w, e) = E!MapRow(w, f)
    BY ONLY <2>1, <2>3, <2>4, MapRowsAlike
  <2> QED  BY <1>1, <1>2, <1>3, <2>4 DEF E!Row
<1>4. CASE e.of # "map"
  <2>1. e = f
    BY <1>2, <1>4 DEF E!Imprint
  <2> QED  BY <2>1
<1> QED  BY <1>3, <1>4

(* What push_assoc() writes: what was written before, the length of the    *)
(* chain, the type and the row, and at its end a word that tells all but   *)
(* the row.                                                                *)
Bound(c) == Append(c.written, E!Byte(c.count + 1))
Typed(c, e) == Append(Bound(c), <<"mix low", e.type, Bound(c), c.count + 1>>)
LastWord(c, e) == <<"mix high", e.type, Bound(c), c.count + 1>>

LEMMA PushFacts ==
  ASSUME NEW c, IsSeq(c.written), NEW e, E!IsElement(e), NEW s, s = E!PushAssoc(c, e).written
  PROVE  /\ E!PushAssoc(c, e).count = c.count + 1
         /\ IsSeq(Typed(c, e)) /\ Len(Typed(c, e)) = Len(c.written) + 2
         /\ IsSeq(s) /\ Len(s) = Len(Typed(c, e)) + Len(E!Row(Typed(c, e), e)) + 1
         /\ PartAt(E!Row(Typed(c, e), e), Len(Typed(c, e)), s)
         /\ s[Len(s)] = LastWord(c, e)
<1> DEFINE typed == Typed(c, e)
           row == E!Row(typed, e)
           last == <<LastWord(c, e)>>
<1>1. IsSeq(Bound(c)) /\ Len(Bound(c)) = Len(c.written) + 1
  BY AppendFacts DEF Bound
<1>2. IsSeq(typed) /\ Len(typed) = Len(Bound(c)) + 1
  BY <1>1, AppendFacts DEF Typed
<1> HIDE DEF typed
<1>3. IsSeq(row)
  BY <1>2, RowIsSeq
<1>4. IsSeq(last) /\ Len(last) = 1 /\ last[1] = LastWord(c, e)
  BY OneElement
<1>5. E!PushAssoc(c, e) = [count |-> c.count + 1, written |-> typed \o row \o last]
  BY DEF E!PushAssoc, typed, Typed, Bound, LastWord
<1> HIDE DEF row, last
<1>6. s = typed \o row \o last /\ E!PushAssoc(c, e).count = c.count + 1
  BY <1>5
<1>7. /\ IsSeq(s) /\ Len(s) = Len(typed) + Len(row) + Len(last)
      /\ PartAt(row, Len(typed), s) /\ PartAt(last, Len(typed) + Len(row), s)
  <2>1. s = Joined(typed, row, last)
    BY <1>6 DEF Joined
  <2>2. IsSeq(typed) /\ IsSeq(row) /\ IsSeq(last)
    BY <1>2, <1>3, <1>4
  <2> QED  BY ONLY <2>1, <2>2, ConcatThree
<1>8. s[Len(s)] = LastWord(c, e)
  <2>1. s[Len(typed) + Len(row) + 1] = last[1]
    BY <1>4, <1>7 DEF PartAt
  <2>2. Len(s) = Len(typed) + Len(row) + 1
    BY <1>4, <1>7
  <2> QED  BY <1>4, <2>1, <2>2
<1>9. Len(typed) = Len(c.written) + 2
  <2>1. Len(c.written) \in Nat
    BY DEF IsSeq
  <2> QED  BY <1>1, <1>2, <2>1
<1>10. Len(s) = Len(typed) + Len(row) + 1
  BY <1>4, <1>7
<1> QED  BY <1>2, <1>6, <1>7, <1>8, <1>9, <1>10 DEF typed, row

(* So what it wrote tells the encoder it was pushed to, and the imprint of *)
(* the element.                                                            *)
LEMMA PushBinds ==
  ASSUME NEW c, IsSeq(c.written), NEW d, IsSeq(d.written),
         NEW e, NEW f, E!IsElement(e), E!IsElement(f), E!OneKind(e, f),
         E!PushAssoc(c, e).written = E!PushAssoc(d, f).written
  PROVE  c.written = d.written /\ c.count + 1 = d.count + 1 /\ E!Imprint(e) = E!Imprint(f)
<1> DEFINE s == E!PushAssoc(c, e).written
           typed == Typed(c, e)
<1>1. /\ IsSeq(typed) /\ IsSeq(s)
      /\ Len(s) = Len(typed) + Len(E!Row(typed, e)) + 1
      /\ PartAt(E!Row(typed, e), Len(typed), s)
      /\ s[Len(s)] = LastWord(c, e)
  BY PushFacts
<1>2. /\ Len(s) = Len(Typed(d, f)) + Len(E!Row(Typed(d, f), f)) + 1
      /\ PartAt(E!Row(Typed(d, f), f), Len(Typed(d, f)), s)
      /\ s[Len(s)] = LastWord(d, f)
  BY PushFacts
<1> HIDE DEF s
<1>3. e.type = f.type /\ Bound(c) = Bound(d) /\ c.count + 1 = d.count + 1
  <2>1. LastWord(c, e) = LastWord(d, f)
    BY <1>1, <1>2
  <2> QED  BY <2>1 DEF LastWord
<1>4. c.written = d.written
  BY <1>3, AppendsDiffer DEF Bound
<1>5. typed = Typed(d, f)
  BY <1>3 DEF Typed
<1> HIDE DEF typed
<1>6. Len(E!Row(typed, e)) = Len(E!Row(typed, f))
  <2> DEFINE a == Len(typed)
             b == Len(E!Row(typed, e))
             g == Len(E!Row(typed, f))
  <2>1. a + b + 1 = a + g + 1
    BY <1>1, <1>2, <1>5
  <2>2. a \in Nat /\ b \in Nat /\ g \in Nat
    BY <1>1, RowIsSeq DEF IsSeq
  <2> HIDE DEF a, b, g
  <2>3. b = g
    BY <2>1, <2>2
  <2> QED  BY <2>3 DEF b, g
<1>7. E!Row(typed, e) = E!Row(typed, f)
  BY <1>1, <1>2, <1>5, <1>6, SamePart
<1>8. E!Imprint(e) = E!Imprint(f)
  BY <1>1, <1>3, <1>7, RowsBind
<1> QED  BY <1>3, <1>4, <1>8

(* Elements of which a type is that of one kind.                           *)
AllTyped(S) == \A e \in S : E!IsElement(e) /\ \A f \in S : E!OneKind(e, f)

(* What is so of the encoders of a run.                                    *)
RunIsGood(f, c) ==
  /\ Len(f[0].written) = 1
  /\ \A i \in 1..Len(c) : f[i] = E!PushAssoc(f[i - 1], c[i])
  /\ \A i \in 0..Len(c) : f[i].count = i /\ IsSeq(f[i].written)
  /\ \A i \in 1..Len(c) : Len(f[i].written) > 1

(* The count of an encoder is the length of its chain, and only a new one  *)
(* has written one symbol.                                                 *)
LEMMA RunFacts ==
  ASSUME NEW key, NEW S, AllTyped(S), NEW c \in Seq(S), NEW f, RunOf(f, key, c, Len(c))
  PROVE  RunIsGood(f, c)
<1> DEFINE n == Len(c)
           G == {i \in 0..n : f[i].count = i /\ IsSeq(f[i].written)}
<1>1. n \in Nat /\ \A i \in 1..n : c[i] \in S
  OBVIOUS
<1> HIDE DEF n
<1>2. \A i \in 0..n : f[i] = IF i = 0 THEN E!NewEncoder(key) ELSE E!PushAssoc(f[i - 1], c[i])
  BY DEF RunOf, n
<1>3. f[0] = E!NewEncoder(key)
  BY <1>1, <1>2
<1>4. IsSeq(f[0].written) /\ Len(f[0].written) = 1 /\ f[0].count = 0
  <2>1. f[0].written = << <<"key", key>> >> /\ f[0].count = 0
    BY <1>3 DEF E!NewEncoder
  <2> QED  BY <2>1, OneElement
<1>5. \A i \in 1..n : f[i] = E!PushAssoc(f[i - 1], c[i])
  BY <1>1, <1>2
<1>6. ASSUME NEW i \in 1..n, i - 1 \in G
      PROVE  i \in G /\ Len(f[i].written) > 1
  <2> DEFINE before == f[i - 1]
             e == c[i]
             typed == Typed(before, e)
             row == E!Row(typed, e)
             s == E!PushAssoc(before, e).written
  <2>1. IsSeq(before.written) /\ before.count = i - 1
    BY <1>6
  <2>2. E!IsElement(e)
    BY <1>1 DEF AllTyped
  <2>3. f[i] = E!PushAssoc(before, e)
    BY <1>5
  <2> HIDE DEF before, e
  <2>4. /\ E!PushAssoc(before, e).count = before.count + 1
        /\ IsSeq(typed) /\ Len(typed) = Len(before.written) + 2
        /\ IsSeq(s) /\ Len(s) = Len(typed) + Len(row) + 1
    BY <2>1, <2>2, PushFacts
  <2>5. IsSeq(row)
    BY <2>2, <2>4, RowIsSeq
  <2> HIDE DEF typed, row, s
  <2>6. Len(s) > 1
    <3>1. Len(before.written) \in Nat /\ Len(row) \in Nat
      BY <2>1, <2>5 DEF IsSeq
    <3> QED  BY <2>4, <3>1
  <2>7. f[i].count = i /\ f[i].written = s
    BY <1>1, <2>1, <2>3, <2>4 DEF s
  <2> QED  BY <1>1, <2>4, <2>6, <2>7
<1>7. 0 \in G
  BY <1>1, <1>4
<1>8. 0..n \subseteq G
  <2>1. \A i \in 1..n : i - 1 \in G => i \in G
    BY <1>6
  <2> HIDE DEF G
  <2> QED  BY <1>1, <1>7, <2>1, UpTo
<1>9. \A i \in 1..n : Len(f[i].written) > 1
  <2> SUFFICES ASSUME NEW i \in 1..n PROVE Len(f[i].written) > 1
    OBVIOUS
  <2>1. i - 1 \in 0..n
    BY <1>1
  <2> QED  BY <1>6, <1>8, <2>1
<1> QED  BY <1>4, <1>5, <1>8, <1>9 DEF n, RunIsGood

(* Chains of such elements that hash alike have one imprint, however long  *)
(* they are: from what finish() has been fed, it can be read back, from    *)
(* its end.                                                                *)
LEMMA HashTells ==
  ASSUME NEW key, NEW S, AllTyped(S), NEW c \in Seq(S), NEW d \in Seq(S),
         E!Hash(key, c) = E!Hash(key, d)
  PROVE  E!Imprints(c) = E!Imprints(d)
<1>1. PICK f : RunOf(f, key, c, Len(c)) /\ E!Hash(key, c) = f[Len(c)].written
  BY EncodeRuns
<1>2. PICK g : RunOf(g, key, d, Len(d)) /\ E!Hash(key, d) = g[Len(d)].written
  BY EncodeRuns
<1> DEFINE n == Len(c)
           m == Len(d)
<1>3. /\ Len(f[0].written) = 1
      /\ \A i \in 1..n : f[i] = E!PushAssoc(f[i - 1], c[i])
      /\ \A i \in 0..n : f[i].count = i /\ IsSeq(f[i].written)
      /\ \A i \in 1..n : Len(f[i].written) > 1
  <2>1. RunIsGood(f, c)
    BY <1>1, RunFacts
  <2> QED  BY <2>1 DEF RunIsGood
<1>4. /\ Len(g[0].written) = 1
      /\ \A i \in 1..m : g[i] = E!PushAssoc(g[i - 1], d[i])
      /\ \A i \in 0..m : g[i].count = i /\ IsSeq(g[i].written)
      /\ \A i \in 1..m : Len(g[i].written) > 1
  <2>1. RunIsGood(g, d)
    BY <1>2, RunFacts
  <2> QED  BY <2>1 DEF RunIsGood
<1>5. n \in Nat /\ m \in Nat /\ f[n].written = g[m].written
  <2>1. f[n].written = g[m].written
    BY <1>1, <1>2, Zenon
  <2>2. n \in Nat /\ m \in Nat
    OBVIOUS
  <2> QED  BY <2>1, <2>2
<1>6. (\A i \in 1..n : c[i] \in S) /\ (\A i \in 1..m : d[i] \in S)
  OBVIOUS
<1>7. IsSeq(c) /\ IsSeq(d)
  BY DEF IsSeq
<1> HIDE DEF n, m
(* What the last element of two prefixes tells of them.                    *)
<1>8. ASSUME NEW i \in 1..n, NEW j \in 1..m, f[i].written = g[j].written
      PROVE  i = j /\ f[i - 1].written = g[j - 1].written /\ E!Imprint(c[i]) = E!Imprint(d[j])
  <2>1. i - 1 \in 0..n /\ j - 1 \in 0..m
    BY <1>5
  <2>2. f[i] = E!PushAssoc(f[i - 1], c[i]) /\ g[j] = E!PushAssoc(g[j - 1], d[j])
    BY <1>3, <1>4
  <2>3. /\ IsSeq(f[i - 1].written) /\ f[i - 1].count = i - 1
        /\ IsSeq(g[j - 1].written) /\ g[j - 1].count = j - 1
    BY <1>3, <1>4, <2>1
  <2>4. E!IsElement(c[i]) /\ E!IsElement(d[j]) /\ E!OneKind(c[i], d[j])
    BY <1>6 DEF AllTyped
  <2>5. E!PushAssoc(f[i - 1], c[i]).written = E!PushAssoc(g[j - 1], d[j]).written
    BY <1>8, <2>2
  <2>6. /\ f[i - 1].written = g[j - 1].written /\ E!Imprint(c[i]) = E!Imprint(d[j])
        /\ f[i - 1].count + 1 = g[j - 1].count + 1
    BY <2>3, <2>4, <2>5, PushBinds
  <2>7. i = j
    BY <1>5, <2>3, <2>6
  <2> QED  BY <2>6, <2>7
<1>9. n = m
  <2>1. CASE n = 0 /\ m # 0
    <3>1. m \in 1..m
      BY <1>5, <2>1
    <3>2. Len(g[m].written) > 1 /\ Len(g[m].written) = 1
      BY <1>3, <1>4, <1>5, <2>1, <3>1
    <3> QED  BY <3>2
  <2>2. CASE n # 0 /\ m = 0
    <3>1. n \in 1..n
      BY <1>5, <2>2
    <3>2. Len(f[n].written) > 1 /\ Len(f[n].written) = 1
      BY <1>3, <1>4, <1>5, <2>2, <3>1
    <3> QED  BY <3>2
  <2>3. CASE n # 0 /\ m # 0
    <3>1. n \in 1..n /\ m \in 1..m
      BY <1>5, <2>3
    <3> QED  BY <1>5, <1>8, <3>1
  <2> QED  BY <2>1, <2>2, <2>3
<1>10. ASSUME NEW i \in 1..n PROVE f[i].written = g[i].written
  <2> DEFINE G == {k \in 0..n : f[n - k].written = g[n - k].written}
  <2>1. 0 \in G
    <3>1. n - 0 = n /\ 0 \in 0..n
      BY <1>5
    <3> QED  BY <1>5, <1>9, <3>1
  <2>2. ASSUME NEW k \in 1..n, k - 1 \in G PROVE k \in G
    <3> DEFINE l == n - (k - 1)
    <3>1. l \in 1..n /\ l \in 1..m /\ l - 1 = n - k /\ k \in 0..n
      BY <1>5, <1>9
    <3>2. f[l].written = g[l].written
      BY <2>2
    <3> HIDE DEF l
    <3>3. f[l - 1].written = g[l - 1].written
      BY <1>8, <3>1, <3>2
    <3> QED  BY <3>1, <3>3
  <2> HIDE DEF G
  <2>3. n - i \in 0..n /\ n - (n - i) = i
    BY <1>5
  <2>4. n - i \in G
    BY <1>5, <2>1, <2>2, <2>3, UpTo
  <2>5. f[n - (n - i)].written = g[n - (n - i)].written
    BY <2>4 DEF G
  <2> QED  BY <2>3, <2>5
<1>11. \A i \in 1..n : E!Imprint(c[i]) = E!Imprint(d[i])
  BY <1>8, <1>9, <1>10
<1>12. DOMAIN c = 1..n /\ DOMAIN d = 1..n
  BY <1>7, <1>9 DEF IsSeq, n, m
<1> QED  BY <1>11, <1>12 DEF E!Imprints

(* And chains of one imprint hash alike.                                   *)
LEMMA HashesAlike ==
  ASSUME NEW key, NEW S, AllTyped(S), NEW c \in Seq(S), NEW d \in Seq(S),
         E!Imprints(c) = E!Imprints(d)
  PROVE  E!Hash(key, c) = E!Hash(key, d)
<1>1. PICK f : RunOf(f, key, c, Len(c)) /\ E!Hash(key, c) = f[Len(c)].written
  BY EncodeRuns
<1>2. PICK g : RunOf(g, key, d, Len(d)) /\ E!Hash(key, d) = g[Len(d)].written
  BY EncodeRuns
<1>3. RunIsGood(f, c) /\ RunIsGood(g, d)
  BY <1>1, <1>2, RunFacts
<1>4. f[0] = E!NewEncoder(key) /\ g[0] = E!NewEncoder(key)
  <2>1. 0 \in 0..Len(c) /\ 0 \in 0..Len(d)
    OBVIOUS
  <2> QED  BY <1>1, <1>2, <2>1 DEF RunOf
<1>5. DOMAIN c = DOMAIN d /\ \A i \in DOMAIN c : E!Imprint(c[i]) = E!Imprint(d[i])
  <2>1. DOMAIN E!Imprints(c) = DOMAIN c /\ DOMAIN E!Imprints(d) = DOMAIN d
    BY DEF E!Imprints
  <2>2. ASSUME NEW i \in DOMAIN c
        PROVE  E!Imprints(c)[i] = E!Imprint(c[i]) /\ E!Imprints(d)[i] = E!Imprint(d[i])
    BY <2>1 DEF E!Imprints
  <2> QED  BY <2>1, <2>2
<1> DEFINE n == Len(c)
           m == Len(d)
<1>6. n \in Nat /\ m = n /\ DOMAIN c = 1..n /\ DOMAIN d = 1..n
  <2>1. n \in Nat /\ m \in Nat /\ DOMAIN c = 1..n /\ DOMAIN d = 1..m
    OBVIOUS
  <2> HIDE DEF n, m
  <2>2. 1..n = 1..m
    BY <1>5, <2>1
  <2>3. \A i \in Nat : i \in 1..n <=> i \in 1..m
    BY <2>2
  <2>4. n <= m /\ m <= n
    <3>1. n # 0 => n \in 1..n
      BY <2>1
    <3>2. m # 0 => m \in 1..m
      BY <2>1
    <3> QED  BY <2>1, <2>3, <3>1, <3>2
  <2> QED  BY <2>1, <2>2, <2>4
<1>7. \A i \in 1..n : c[i] \in S /\ d[i] \in S
  BY <1>6
<1>8. /\ \A i \in 1..n : f[i] = E!PushAssoc(f[i - 1], c[i]) /\ g[i] = E!PushAssoc(g[i - 1], d[i])
      /\ \A i \in 0..n : IsSeq(f[i].written)
  BY <1>3, <1>6 DEF RunIsGood, n, m
<1> HIDE DEF n, m
<1> DEFINE G == {i \in 0..n : f[i] = g[i]}
<1>9. 0 \in G
  BY <1>4, <1>6
<1>10. ASSUME NEW i \in 1..n, i - 1 \in G PROVE i \in G
  <2> DEFINE before == f[i - 1]
             typed == Typed(before, c[i])
  <2>1. i \in 0..n /\ i - 1 \in 0..n /\ g[i - 1] = before
    BY <1>6, <1>10
  <2>2. IsSeq(before.written)
    BY <1>8, <2>1
  <2>3. /\ E!IsElement(c[i]) /\ E!IsElement(d[i])
        /\ E!OneKind(c[i], d[i]) /\ E!OneKind(d[i], c[i])
    BY <1>7 DEF AllTyped
  <2>4. c[i].type = d[i].type /\ \A w : IsSeq(w) => E!Row(w, c[i]) = E!Row(w, d[i])
    <3>1. E!Imprint(c[i]) = E!Imprint(d[i])
      BY <1>5, <1>6
    <3> QED  BY ONLY <2>3, <3>1, RowsAlike
  <2>5. IsSeq(typed) /\ typed = Typed(before, d[i])
    BY <2>2, <2>3, <2>4, PushFacts DEF Typed
  <2>6. E!Row(typed, c[i]) = E!Row(typed, d[i])
    BY <2>4, <2>5
  <2>7. \A e : E!PushAssoc(before, e) =
                 [count |-> before.count + 1,
                  written |-> Typed(before, e) \o E!Row(Typed(before, e), e)
                                \o <<LastWord(before, e)>>]
    BY DEF E!PushAssoc, Typed, Bound, LastWord
  <2>8. LastWord(before, c[i]) = LastWord(before, d[i])
    BY <2>4 DEF LastWord
  <2> HIDE DEF typed
  <2>9. E!PushAssoc(before, c[i]) = E!PushAssoc(before, d[i])
    BY <2>5, <2>6, <2>7, <2>8, Zenon DEF typed
  <2>10. f[i] = g[i]
    BY <1>8, <2>1, <2>9
  <2> QED  BY <2>1, <2>10
<1>11. n \in G
  <2> HIDE DEF G
  <2>1. n \in 0..n
    BY <1>6
  <2> QED  BY <1>6, <1>9, <1>10, <2>1, UpTo
<1>12. E!Hash(key, c) = f[n].written /\ E!Hash(key, d) = g[n].written
  BY <1>1, <1>2, <1>6, Zenon DEF n, m
<1>13. f[n] = g[n]
  BY <1>11
<1> QED  BY <1>12, <1>13, Zenon

(* Two chains hash alike exactly when they have one imprint.  It is what   *)
(* auth.rs:243 promises, for a hash that is ideal, in so far as the code   *)
(* keeps it, and where it does not: chains without maps hash alike only if *)
(* they are one chain, and maps also when they differ in the bytes of their*)
(* keys, or in entries that cancel.                                        *)
THEOREM EncoderTheorem ==
  ASSUME NEW key, NEW S, AllTyped(S), NEW c \in Seq(S), NEW d \in Seq(S)
  PROVE  E!Hash(key, c) = E!Hash(key, d) <=> E!Imprints(c) = E!Imprints(d)
<1>1. E!Hash(key, c) = E!Hash(key, d) => E!Imprints(c) = E!Imprints(d)
  BY HashTells
<1>2. E!Imprints(c) = E!Imprints(d) => E!Hash(key, c) = E!Hash(key, d)
  BY HashesAlike
<1> QED  BY <1>1, <1>2

(* So it is of the chains of the program.                                  *)
LEMMA AllHashesBind == HashesBind
<1>1. AllTyped(Pushed) /\ \A c \in Contexts : c \in Seq(Pushed)
  BY ContextsAssumption DEF AllTyped
<1>2. ASSUME NEW c \in Contexts, NEW d \in Contexts
      PROVE  BootstrapHash(c) = BootstrapHash(d) <=> E!Imprints(c) = E!Imprints(d)
  BY <1>1, EncoderTheorem DEF BootstrapHash
<1> QED  BY <1>2 DEF HashesBind

(* The chain of the data key has no map, so that no other hashes like it.  *)
LEMMA DekHashBinds ==
  ASSUME NEW c \in Contexts, BootstrapHash(c) = DekHash
  PROVE  c = <<DekScope>>
<1> DEFINE d == <<DekScope>>
<1>1. d \in Contexts /\ c \in Seq(Pushed) /\ d \in Seq(Pushed)
  BY ContextsAssumption
<1>2. E!Imprints(c) = E!Imprints(d)
  BY <1>1, AllHashesBind DEF HashesBind, DekHash
<1>3. DOMAIN d = 1..1 /\ d[1] = DekScope /\ IsSeq(d)
  <2> HIDE DEF DekScope
  <2> QED  BY OneElement DEF IsSeq
<1> HIDE DEF d
<1>4. DOMAIN c = 1..1
  BY <1>2, <1>3 DEF E!Imprints
<1>5. E!Imprint(c[1]) = E!Imprint(DekScope)
  BY <1>2, <1>3, <1>4 DEF E!Imprints
<1>6. DekScope.of = "bytes" /\ E!Imprint(DekScope) = DekScope
  BY DEF DekScope, E!ScopeAssoc, E!Imprint
<1>7. c[1] \in Pushed /\ DekScope \in Pushed
  BY <1>1, <1>3, <1>4
<1>8. c[1].type = DekScope.type
  <2>1. CASE c[1].of = "map"
    <3>1. DekScope = E!MapAssoc(c[1].type, E!MapImprint(c[1].items))
      BY <1>5, <1>6, <2>1 DEF E!Imprint
    <3> QED  BY <3>1 DEF E!MapAssoc
  <2>2. CASE c[1].of # "map"
    BY <1>5, <1>6, <2>2 DEF E!Imprint
  <2> QED  BY <2>1, <2>2
<1>9. c[1].of # "map"
  BY <1>6, <1>7, <1>8, ContextsAssumption DEF E!OneKind
<1>10. c[1] = DekScope
  BY <1>5, <1>6, <1>9 DEF E!Imprint
<1>11. IsSeq(c) /\ Len(c) = 1
  <2>1. IsSeq(c)
    BY <1>1 DEF IsSeq
  <2>2. Len(c) \in Nat /\ 1..Len(c) = 1..1
    BY <1>4, <2>1 DEF IsSeq
  <2>3. 1 \in 1..Len(c) /\ Len(c) \in 1..Len(c)
    BY <2>2
  <2> QED  BY <2>1, <2>2, <2>3
<1>12. Len(d) = 1
  BY <1>3 DEF IsSeq
<1>13. \A i \in 1..1 : c[i] = d[i]
  BY <1>3, <1>10
<1>14. c = d
  BY <1>3, <1>11, <1>12, <1>13, SeqsEqual
<1> QED  BY <1>14 DEF d

(* In the context of the key store, an entry opens to the right pair with  *)
(* its own key and to nothing otherwise, maps or no maps in the chains of  *)
(* the other contexts; and chains hash alike just when their imprints are. *)
THEOREM ContextTheorem == ASSUME OperatorsCareful PROVE Spec => []OpensInItsContext
<1>1. ASSUME NEW c \in Contexts PROVE BootstrapHash(c) = DekHash <=> c = <<DekScope>>
  BY DekHashBinds DEF DekHash
<1>2. ASSUME NEW b \in Blobs, NEW k \in Keks, NEW c \in Contexts
      PROVE  Opened(k, c, BytesOf(b)) =
               (IF Opens(k, b) /\ c = <<DekScope>> THEN {KeyPair(b.dek)} ELSE {})
  <2>1. CASE b = Garbage
    <3> DEFINE old == BytesOf(b)
    <3>1. ~Opens(k, b)
      BY <2>1, KeyStoreAssumption DEF Opens
    <3>2. IsSeq(old) /\ Len(old) = W!Overhead + 2 /\ \A i \in 1..Len(old) : old[i] = <<"random", i>>
      BY <2>1, GarbageEnds
    <3> HIDE DEF old
    <3>3. Len(old) >= W!Overhead /\ Len(old) \in 1..Len(old)
      BY <3>2, SizesAssumption DEF W!Overhead
    <3>4. \A l, n, a, d : old[Len(old)] # <<"tag", TagSize, l, n, a, d>>
      BY <3>2, <3>3
    <3>5. \A a : W!Unwrap(k, a, old).result = "InvalidDecrypt"
      BY <3>2, <3>3, <3>4, NotSealed
    <3>6. Opened(k, c, old) = {}
      BY <3>5 DEF Opened
    <3> QED  BY <3>1, <3>6 DEF old
  <2>2. CASE b \in Wrapped
    <3> SUFFICES ASSUME NEW kek \in Keks, NEW dek \in Deks, b = [kek |-> kek, dek |-> dek]
                 PROVE  Opened(k, c, BytesOf(b)) =
                          (IF Opens(k, b) /\ c = <<DekScope>> THEN {KeyPair(dek)} ELSE {})
      BY <2>2 DEF Wrapped
    <3>1. BytesOf(b) = W!Wrap(kek, DekHash, Nonce("old"), KeyPair(dek))
      BY <2>2, KeyStoreAssumption DEF BytesOf
    <3>2. Opens(k, b) <=> k = kek
      BY <2>2 DEF Opens
    <3>3. Opened(k, c, W!Wrap(kek, DekHash, Nonce("old"), KeyPair(dek))) =
            IF k = kek /\ BootstrapHash(c) = DekHash THEN {KeyPair(dek)} ELSE {}
      BY OpenedFacts
    <3> QED  BY <1>1, <3>1, <3>2, <3>3
  <2> QED  BY <2>1, <2>2 DEF Blobs
<1>3. TypeOK => OpensInItsContext
  <2> SUFFICES ASSUME TypeOK, NEW p \in Procs,
                      Working(p, {"initialize"}, "find"), db[job[p].sel] # NoBlob,
                      NEW c \in Contexts
               PROVE  LET j == job[p] b == db[j.sel]
                      IN  Opened(j.kek, c, BytesOf(b)) =
                            (IF Opens(j.kek, b) /\ c = <<DekScope>> THEN {KeyPair(b.dek)} ELSE {})
    BY AllHashesBind DEF OpensInItsContext
  <2>1. job[p].kek \in Keks /\ job[p].sel \in Selectors /\ db[job[p].sel] \in Blobs
    BY DEF TypeOK, Working, Jobs
  <2> QED  BY <1>2, <2>1
<1> QED  BY <1>3, TypeCorrect, PTL
=============================================================================
