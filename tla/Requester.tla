------------------------------ MODULE Requester ------------------------------
(***************************************************************************)
(* http/mod.rs, http/header.rs and http/identify.rs: who sent a request,   *)
(* by its address and by the session token it carries.                     *)
(*                                                                         *)
(* An address is a record: "v4" with its number in lo, "v6" with its first *)
(* eight bytes in hi and the others in lo, "mapped" (::ffff:a.b.c.d) or    *)
(* "compatible" (::a.b.c.d) with the IPv4 number in lo.                    *)
(***************************************************************************)
EXTENDS Integers, Sequences, SequencesExt

CONSTANTS
  UserOf,   \* the user verify_token() finds in each token, or Invalid
  Invalid, Nobody, Absent, Malformed

-----------------------------------------------------------------------------
(* RateLimitKey::from_client_addr()                                        *)
FromClientAddr(ip) ==
  IF ip.kind = "v6" THEN <<"Ip6", ip.hi>> ELSE <<"Ip4", ip.lo>>

WithUser(key, user) == IF user = Nobody THEN key ELSE <<"User", user>>

(* XForwardedFor::decode(): the lines of the header, each a sequence of    *)
(* addresses or Malformed entries.                                         *)
Decode(lines) ==
  IF lines = <<>> THEN Absent
  ELSE IF Len(lines) > 1 \/ Malformed \in ToSet(lines[1]) THEN Malformed
  ELSE lines[1]

(* Faulty variant: counted from the client's end.                          *)
NthForward(chain, n) == IF Len(chain) > n THEN chain[n + 1] ELSE Absent

(* into_iter().nth_back(n)                                                 *)
NthBack(chain, n) == IF Len(chain) > n THEN chain[Len(chain) - n] ELSE Absent

(* ClientAddress: effective_addr(), or Malformed.                          *)
EffectiveAddr(socket, lines, maxForwards) ==
  LET chain == Decode(lines)
      forwarded == IF chain \in {Absent, Malformed} THEN chain ELSE NthBack(chain, maxForwards)
  IN  IF forwarded = Absent THEN socket ELSE forwarded

(* A token that can be read off its place, good or bad.                    *)
Readable(token) == token \notin {Absent, Malformed}

(* Faulty variant: a credential that is refused is passed over.            *)
CredentialFallingBack(bearer, cookie, query) ==
  LET good(token) == Readable(token) /\ UserOf[token] # Invalid
  IN  IF good(bearer) THEN bearer ELSE IF good(cookie) THEN cookie
      ELSE IF Readable(query) THEN query ELSE Absent

(* The credential IdentifyRequester looks at: the Authorization header, if *)
(* there is one at all, else the cookie, else the query.  CookieJar skips  *)
(* a cookie it cannot parse, and a query that does not is taken for none.  *)
Credential(bearer, cookie, query) ==
  IF bearer # Absent THEN bearer
  ELSE IF Readable(cookie) THEN cookie
  ELSE IF Readable(query) THEN query ELSE Absent
=============================================================================
