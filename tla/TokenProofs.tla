----------------------------- MODULE TokenProofs -----------------------------
(* Proofs about module Token, for every choice of its constants.           *)
EXTENDS Token, TLAPS

(* The strengthening: a token carries the birth of its session as its nbf, *)
(* and before the clock has been set back none is from the future.         *)
NbfIsBirth ==
  \A t \in issued : born[t.session] \in Nat /\ t.nbf = born[t.session]

NoneFromFuture == setBacks = 0 => \A t \in issued : t.nbf <= now

Inv == TypeOK /\ NbfIsBirth /\ NoneFromFuture

-----------------------------------------------------------------------------
(* Expiry() and Capped() compute seconds, never a negative number, and an  *)
(* expiry is not before the present.                                       *)
LEMMA ExpiryFacts ==
  ASSUME now \in Nat, NEW l \in Lifetimes
  PROVE  Expiry(l) \in Nat /\ Expiry(l) >= now
BY TokenAssumption DEF Expiry

(* Capping keeps an expiry a number and, while the session may still live, *)
(* not before the present.                                                 *)
LEMMA CappedFacts ==
  ASSUME now \in Nat, NEW t \in Tokens, NEW e \in Nat, e >= now
  PROVE  /\ Capped(t, e) \in Nat
         /\ (MaxLifetime # NoLimit => now <= t.nbf + MaxLifetime) => Capped(t, e) >= now
<1>1. t.nbf \in Nat
  BY DEF Tokens
<1>2. CASE MaxLifetime = NoLimit
  BY <1>2 DEF Capped
<1>3. CASE MaxLifetime # NoLimit
  <2>1. MaxLifetime \in Nat
    BY <1>3, TokenAssumption
  <2> QED BY <1>1, <1>3, <2>1 DEF Capped
<1> QED BY <1>2, <1>3

(* A renewed token is its old one with another expiry.                     *)
LEMMA RenewedToken ==
  ASSUME NEW t \in Tokens, NEW e \in Nat
  PROVE  /\ [t EXCEPT !.exp = e] \in Tokens
         /\ [t EXCEPT !.exp = e].session = t.session
         /\ [t EXCEPT !.exp = e].nbf = t.nbf
         /\ [t EXCEPT !.exp = e].exp = e
BY DEF Tokens

-----------------------------------------------------------------------------
(* The initial state satisfies the invariant.                              *)
LEMMA InitInv == Init => Inv
BY TokenAssumption DEF Init, Inv, TypeOK, NbfIsBirth, NoneFromFuture, Tokens

(* generate_token() preserves it.                                          *)
LEMMA GenerateInv ==
  ASSUME Inv, NEW s \in Sessions, NEW l \in Lifetimes, Generate(s, l)
  PROVE  Inv'
<1> DEFINE n == [session |-> s, nbf |-> now, exp |-> Expiry(l)]
<1>1. n \in Tokens
  BY ExpiryFacts DEF Inv, TypeOK, Tokens
<1>2. issued' = issued \cup {n} /\ born' = [born EXCEPT ![s] = now]
      /\ born[s] = Never /\ UNCHANGED <<now, setBacks>>
  BY DEF Generate
<1> HIDE DEF n
<1>3. n.session = s /\ n.nbf = now
  BY DEF n
<1>4. TypeOK'
  BY <1>1, <1>2 DEF Inv, TypeOK
<1>5. NbfIsBirth'
  <2> SUFFICES ASSUME NEW t \in issued'
               PROVE  born'[t.session] \in Nat /\ t.nbf = born'[t.session]
    BY DEF NbfIsBirth
  <2>1. CASE t = n
    BY <2>1, <1>2, <1>3 DEF Inv, TypeOK
  <2>2. CASE t \in issued
    <3>1. t.session # s
      BY <2>2, <1>2, TokenAssumption DEF Inv, NbfIsBirth
    <3>2. t.session \in Sessions
      BY <2>2 DEF Inv, TypeOK, Tokens
    <3> QED BY <2>2, <3>1, <3>2, <1>2 DEF Inv, TypeOK, NbfIsBirth
  <2> QED BY <2>1, <2>2, <1>2
<1>6. NoneFromFuture'
  BY <1>2, <1>3 DEF Inv, TypeOK, NoneFromFuture
<1> QED BY <1>4, <1>5, <1>6 DEF Inv

(* renew_token() preserves it.                                             *)
LEMMA RenewInv ==
  ASSUME Inv, NEW t \in issued, NEW l \in Lifetimes, Renew(t, l)
  PROVE  Inv'
<1> DEFINE e == Capped(t, Expiry(l))
           n == [t EXCEPT !.exp = e]
<1>1. t \in Tokens /\ now \in Nat
  BY DEF Inv, TypeOK
<1>2. e \in Nat
  BY <1>1, ExpiryFacts, CappedFacts
<1>3. issued' = issued \cup {n} /\ UNCHANGED <<now, setBacks, born>>
  BY DEF Renew
<1>4. n \in Tokens /\ n.session = t.session /\ n.nbf = t.nbf
  <2> HIDE DEF e
  <2> QED BY <1>1, <1>2, RenewedToken
<1> HIDE DEF n
<1>5. TypeOK'
  BY <1>3, <1>4 DEF Inv, TypeOK
<1>6. NbfIsBirth'
  BY <1>3, <1>4 DEF Inv, NbfIsBirth
<1>7. NoneFromFuture'
  BY <1>3, <1>4 DEF Inv, NoneFromFuture
<1> QED BY <1>5, <1>6, <1>7 DEF Inv

(* So does every step.                                                     *)
LEMMA StepInv == Inv /\ [Next]_vars => Inv'
<1> SUFFICES ASSUME Inv, [Next]_vars PROVE Inv'
  OBVIOUS
<1>1. CASE Tick
  BY <1>1 DEF Tick, Inv, TypeOK, NbfIsBirth, NoneFromFuture, Tokens
<1>2. CASE SetBack
  BY <1>2, TokenAssumption DEF SetBack, Inv, TypeOK, NbfIsBirth, NoneFromFuture
<1>3. CASE \E s \in Sessions, l \in Lifetimes : Generate(s, l)
  BY <1>3, GenerateInv
<1>4. CASE \E t \in issued, l \in Lifetimes : Renew(t, l)
  BY <1>4, RenewInv
<1>5. CASE UNCHANGED vars
  BY <1>5 DEF vars, Inv, TypeOK, NbfIsBirth, NoneFromFuture
<1> QED BY <1>1, <1>2, <1>3, <1>4, <1>5 DEF Next

(* Inv is an invariant of the service.                                     *)
THEOREM Invariance == Spec => []Inv
BY InitInv, StepInv, PTL DEF Spec

(* Every token ever issued has the form the service can read back.         *)
THEOREM TypeCorrect == Spec => []TypeOK
<1>1. Inv => TypeOK
  BY DEF Inv
<1> QED BY Invariance, <1>1, PTL

(* No chain of renewals, and no setting back of the clock between them,    *)
(* has a session accepted past max_lifetime after its birth.               *)
THEOREM SessionBoundedTheorem == Spec => []SessionBounded
<1>1. Inv => SessionBounded
  BY DEF Inv, NbfIsBirth, SessionBounded, Verifies
<1> QED BY Invariance, <1>1, PTL

-----------------------------------------------------------------------------
(* What generate_token() and renew_token() hand out verifies at once.      *)
THEOREM NewTokenWorksTheorem == Spec => NewTokenWorks
<1>1. Inv /\ [Next]_vars => [\A t \in issued' \ issued : Verifies(t)']_vars
  <2> SUFFICES ASSUME Inv, Next, NEW n \in issued' \ issued PROVE Verifies(n)'
    OBVIOUS
  <2>1. CASE \E s \in Sessions, l \in Lifetimes : Generate(s, l)
    <3>1. PICK s \in Sessions, l \in Lifetimes : Generate(s, l)
      BY <2>1
    <3>2. n.nbf = now /\ n.exp = Expiry(l) /\ now' = now
      BY <3>1 DEF Generate
    <3>3. MaxLifetime # NoLimit => now <= now + MaxLifetime
      BY TokenAssumption DEF Inv, TypeOK
    <3>4. now <= now + Leeway /\ now <= Expiry(l)
      BY TokenAssumption, ExpiryFacts DEF Inv, TypeOK
    <3> QED BY <3>2, <3>3, <3>4 DEF Verifies, Decodes
  <2>2. CASE \E t \in issued, l \in Lifetimes : Renew(t, l)
    <3>1. PICK t \in issued, l \in Lifetimes : Renew(t, l)
      BY <2>2
    <3> DEFINE e == Capped(t, Expiry(l))
    <3>2. t \in Tokens /\ now \in Nat
      BY DEF Inv, TypeOK
    <3>3. Renewable(t) /\ n = [t EXCEPT !.exp = e] /\ now' = now
      BY <3>1 DEF Renew
    <3>4. e \in Nat /\ now <= e
      BY <3>2, <3>3, ExpiryFacts, CappedFacts DEF Renewable
    <3>5. n.nbf = t.nbf /\ n.exp = e
      <4> HIDE DEF e
      <4> QED BY <3>2, <3>3, <3>4, RenewedToken
    <3> HIDE DEF e
    <3> QED BY <3>3, <3>4, <3>5 DEF Renewable, Verifies, Decodes
  <2>3. issued' = issued => Verifies(n)'
    OBVIOUS
  <2> QED BY <2>1, <2>2, <2>3 DEF Next, Tick, SetBack
<1> QED BY Invariance, <1>1, PTL DEF Spec, NewTokenWorks

(* verify_token() and renew_token() agree on what is dead, and death is    *)
(* final while the clock is not set back.                                  *)
THEOREM DeadStaysDeadTheorem == Spec => DeadStaysDead
<1> DEFINE A == setBacks' = setBacks /\ setBacks = 0 =>
                  \A s \in Sessions : Dead(s) => Dead(s)'
<1>1. Inv /\ [Next]_vars => [A]_vars
  <2> SUFFICES ASSUME Inv, Next, setBacks' = setBacks, setBacks = 0,
                      NEW s \in Sessions, Dead(s)
               PROVE  Dead(s)'
    OBVIOUS
  <2> USE DEF Dead
  <2>1. CASE Tick
    <3> SUFFICES ASSUME NEW t \in issued, t.session = s, Verifies(t)'
                 PROVE  FALSE
      BY <2>1 DEF Tick
    <3>1. now' = now + 1 /\ now \in Nat /\ t.nbf \in Nat /\ t.exp \in Nat /\ t.nbf <= now
      BY <2>1 DEF Tick, Inv, TypeOK, Tokens, NoneFromFuture
    <3>2. Decodes(t) /\ now <= t.exp
      BY <3>1, TokenAssumption DEF Verifies, Decodes
    <3>3. MaxLifetime # NoLimit => now <= t.nbf + MaxLifetime
      BY <3>1, TokenAssumption DEF Verifies
    <3> QED BY <3>2, <3>3 DEF Verifies
  <2>2. CASE SetBack
    BY <2>2 DEF SetBack
  <2>3. CASE \E r \in Sessions, l \in Lifetimes : Generate(r, l)
    <3>1. PICK r \in Sessions, l \in Lifetimes : Generate(r, l)
      BY <2>3
    <3>2. r # s /\ born'[s] = born[s]
      BY <3>1 DEF Generate, Inv, TypeOK
    <3> QED BY <3>1, <3>2 DEF Generate, Verifies, Decodes
  <2>4. CASE \E t \in issued, l \in Lifetimes : Renew(t, l)
    <3>1. PICK t \in issued, l \in Lifetimes : Renew(t, l)
      BY <2>4
    <3>2. Verifies(t) /\ t.session # s
      BY <3>1 DEF Renew, Renewable, Verifies
    <3> DEFINE n == [t EXCEPT !.exp = Capped(t, Expiry(l))]
    <3>3. n.session = t.session
      BY DEF Inv, TypeOK, Tokens
    <3>4. issued' = issued \cup {n} /\ now' = now /\ born' = born
      BY <3>1 DEF Renew
    <3> HIDE DEF n
    <3> QED BY <3>2, <3>3, <3>4 DEF Verifies, Decodes
  <2> QED BY <2>1, <2>2, <2>3, <2>4 DEF Next
<1> QED BY Invariance, <1>1, PTL DEF Spec, DeadStaysDead
=============================================================================
