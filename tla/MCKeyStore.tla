----------------------------- MODULE MCKeyStore -----------------------------
(* Instances of KeyStore for TLC.                                          *)
EXTENDS SealedStore, TLC

(* The DEK's own context, and chains that differ from it in the scope, in  *)
(* length, in order, in the type of an element or in where a field's key   *)
(* ends: what a service, derive_secret() and the token service may push;   *)
(* and all maps from three keys, two of which have one length.             *)
Texts == {<<>>, <<0>>, <<1>>, <<0, 1>>}
Keys == {<<>>, <<0>>, <<1>>}
Elements ==
  {E!ScopeAssoc(t) : t \in Texts} \cup {E!AsBytesAssoc("key id", t) : t \in Texts}
    \cup {E!FieldAssoc("field", k, v) : k \in Texts, v \in Texts}
    \cup {E!Int8(0), E!Int8(1), E!Uuid(<<0, 1>>)}
    \cup {E!MapAssoc("map", [k \in ks |-> v]) : ks \in SUBSET Keys, v \in {<<0>>, <<1>>}}
Pairs == {E!ScopeAssoc(<<>>), E!FieldAssoc("field", <<0>>, <<1>>), E!Uuid(<<0, 1>>),
          E!MapAssoc("map", [k \in {<<0>>} |-> <<1>>]),
          E!MapAssoc("map", [k \in {<<1>>} |-> <<1>>])}
MCContexts ==
  {<<e>> : e \in Elements} \cup {<<DekScope, e>> : e \in Pairs \cup {DekScope}}
    \cup {<<e, DekScope>> : e \in Pairs}

(* Or whatever operators please.                                           *)
Unrestricted(i, j) == TRUE

Symmetry == Permutations(Procs) \cup Permutations(Keks) \cup Permutations(Deks)
=============================================================================
