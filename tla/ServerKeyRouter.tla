--------------------------- MODULE ServerKeyRouter ---------------------------
(***************************************************************************)
(* server/tls.rs: which certificate a TLS connection gets.                 *)
(*                                                                         *)
(* A DNS name is the sequence of its labels.  A certificate on disk is a   *)
(* record: whether its files can be read and match ("ok", "bad"), or do    *)
(* but name no subject ("no SAN"), and the alternative names it lists, each*)
(* a wildcard ("*." stripped) or exact.  rustls and x509-parser are        *)
(* external.                                                               *)
(***************************************************************************)
EXTENDS Integers, SequencesExt, Functions

NoName == <<>>   \* a client that sends no server name

-----------------------------------------------------------------------------
(* ServerKeyRouter::new(): the primary certificate, whose own names are    *)
(* never looked at.                                                        *)
NewRouter(primary) ==
  [primary |-> primary, sni |-> <<>>, wildcard |-> <<>>]

(* read_key(), read_cert(), keys_match(), extract_dns_names(); the primary *)
(* goes through all but the last.                                          *)
Loads(cert) == cert.files # "bad"
HasNames(cert) == cert.files # "no SAN"

Listed(cert, wildcard) == {n.name : n \in {m \in cert.names : m.wildcard = wildcard}}

(* Faulty variant: the first certificate for a name is kept.               *)
InsertNew(map, names, cert) ==
  [n \in DOMAIN map \cup names |-> IF n \in DOMAIN map THEN map[n] ELSE cert]

(* HashMap::insert() for each of the names.                                *)
InsertAll(map, names, cert) ==
  [n \in DOMAIN map \cup names |-> IF n \in names THEN cert ELSE map[n]]

(* add_sni()                                                               *)
AddSni(router, cert) ==
  [primary |-> router.primary,
   sni |-> InsertAll(router.sni, Listed(cert, FALSE), cert),
   wildcard |-> InsertAll(router.wildcard, Listed(cert, TRUE), cert)]

(* resolve(): the exact name, the rest of it after the first dot (if it    *)
(* has one), or the primary certificate.                                   *)
Resolve(router, name) ==
  IF name \in DOMAIN router.sni THEN router.sni[name]
  ELSE IF Len(name) > 1 /\ Tail(name) \in DOMAIN router.wildcard
  THEN router.wildcard[Tail(name)]
  ELSE router.primary
=============================================================================
