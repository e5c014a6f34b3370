-------------------------------- MODULE Token --------------------------------
(***************************************************************************)
(* service/token.rs: the session tokens the JwtTokenService issues, renews *)
(* and verifies.                                                           *)
(*                                                                         *)
(* The service keeps no record of what it has issued: a token carries its  *)
(* claims and is good wherever it turns up, so `issued` is every token     *)
(* there has ever been.  A session is the part of the claims that renewal  *)
(* copies (jti, sub, sid, iss); its ids are fresh UUIDs, so it starts once.*)
(* Signatures are symbolic: only what the service encoded decodes.  iat is *)
(* read by nobody and left out.  jsonwebtoken (external) reads the same    *)
(* wall clock as the service, and that clock may be set back.              *)
(***************************************************************************)
EXTENDS Integers, FiniteSets

CONSTANTS
  Sessions,
  Lifetimes,    \* the lifetimes asked for, in seconds; may be negative
  MaxLifetime,  \* max_lifetime, or NoLimit
  Leeway,       \* jsonwebtoken's tolerance on nbf
  MaxNow,       \* bound: the clock
  MaxSetBack,   \* bound: how often the clock is set back
  NoLimit, Never

ASSUME TokenAssumption ==
  /\ Lifetimes \subseteq Int
  /\ MaxLifetime \in Nat \cup {NoLimit} /\ NoLimit \notin Nat /\ Never \notin Nat
  /\ Leeway \in Nat /\ MaxNow \in Nat /\ MaxSetBack \in Nat

VARIABLES
  now,      \* the clock
  setBacks, \* how often it has been set back
  issued,   \* the tokens
  born      \* the clock when each session began

vars == <<now, setBacks, issued, born>>

Tokens == [session : Sessions, nbf : Nat, exp : Nat]

TypeOK ==
  /\ now \in Nat
  /\ setBacks \in 0..MaxSetBack
  /\ issued \subseteq Tokens
  /\ born \in [Sessions -> Nat \cup {Never}]

Init ==
  /\ now = 0
  /\ setBacks = 0
  /\ issued = {}
  /\ born = [s \in Sessions |-> Never]

-----------------------------------------------------------------------------
(* jsonwebtoken::decode, with validate_exp off and validate_nbf on.        *)
Decodes(t) == t.nbf <= now + Leeway

(* Faulty variants.                                                        *)
ExpiryUnclamped(l) == now + l

RenewableLate(t) == Decodes(t)

CappedFromNow(t, exp) ==
  IF MaxLifetime # NoLimit /\ exp > MaxLifetime THEN MaxLifetime ELSE exp

(* now.saturating_add(lifetime.num_seconds().max(0))                       *)
Expiry(l) == now + (IF l > 0 THEN l ELSE 0)

(* The absolute end of a session whose token has this nbf.                 *)
Capped(t, exp) ==
  IF MaxLifetime # NoLimit /\ exp > t.nbf + MaxLifetime
  THEN t.nbf + MaxLifetime ELSE exp

(* verify_token() returns Ok.                                              *)
Verifies(t) ==
  /\ Decodes(t)
  /\ now <= t.exp
  /\ MaxLifetime # NoLimit => now <= t.nbf + MaxLifetime

(* renew_token() gets past its checks.                                     *)
Renewable(t) ==
  /\ Decodes(t)
  /\ now <= t.exp
  /\ MaxLifetime # NoLimit => now <= t.nbf + MaxLifetime

(* Faulty variant.                                                         *)
RenewRestarting(t, l) ==
  /\ Renewable(t)
  /\ issued' = issued \cup {[session |-> t.session, nbf |-> now, exp |-> Expiry(l)]}
  /\ UNCHANGED <<now, setBacks, born>>

-----------------------------------------------------------------------------
(* generate_token()                                                        *)
Generate(s, l) ==
  /\ born[s] = Never
  /\ issued' = issued \cup {[session |-> s, nbf |-> now, exp |-> Expiry(l)]}
  /\ born' = [born EXCEPT ![s] = now]
  /\ UNCHANGED <<now, setBacks>>

(* renew_token(): a further token with the same claims; the old one stays  *)
(* good until it expires.                                                  *)
Renew(t, l) ==
  /\ Renewable(t)
  /\ issued' = issued \cup {[t EXCEPT !.exp = Capped(t, Expiry(l))]}
  /\ UNCHANGED <<now, setBacks, born>>

Tick ==
  /\ now < MaxNow
  /\ now' = now + 1
  /\ UNCHANGED <<setBacks, issued, born>>

SetBack ==
  /\ setBacks < MaxSetBack
  /\ setBacks' = setBacks + 1
  /\ now' \in 0..now
  /\ UNCHANGED <<issued, born>>

Next ==
  \/ Tick \/ SetBack
  \/ \E s \in Sessions, l \in Lifetimes : Generate(s, l)
  \/ \E t \in issued, l \in Lifetimes : Renew(t, l)

Spec == Init /\ [][Next]_vars

-----------------------------------------------------------------------------
(* Renewed as often as one likes, from whichever of its tokens, and with   *)
(* the clock set back meanwhile, a session is never accepted later than    *)
(* max_lifetime after its first token was issued.                          *)
SessionBounded ==
  MaxLifetime # NoLimit =>
    \A t \in issued : Verifies(t) => now <= born[t.session] + MaxLifetime

(* A token just issued or renewed is good: what renew_token() computes     *)
(* passes the checks of verify_token() at that moment, however short the   *)
(* lifetime asked for and however close the end of the session.            *)
NewTokenWorks == [][\A t \in issued' \ issued : Verifies(t)']_vars

Dead(s) == born[s] # Never /\ \A t \in issued : t.session = s => ~Verifies(t)

(* A session all of whose tokens have expired cannot be brought back, by   *)
(* renewal or otherwise, as long as the clock is not set back.             *)
DeadStaysDead ==
  [][setBacks' = setBacks /\ setBacks = 0 => \A s \in Sessions : Dead(s) => Dead(s)']_vars
=============================================================================
