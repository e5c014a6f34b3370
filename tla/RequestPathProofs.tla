-------------------------- MODULE RequestPathProofs --------------------------
(***************************************************************************)
(* Proofs about RequestPath.tla and the modules it is made of: which       *)
(* certificate a connection gets, whom a request is counted under, whose   *)
(* credential is believed and what is on every response, for all           *)
(* certificates, names, proxies, requests and configured headers.          *)
(*                                                                         *)
(* The connection, the requester and the response are three arguments with *)
(* an invariant each; the second and third rest on config and req being    *)
(* left alone while a request is in the layers.                            *)
(***************************************************************************)
EXTENDS RequestPath, SequenceTheorems, TLAPS

-----------------------------------------------------------------------------
(* server/tls.rs                                                           *)

(* A map from names to certificates holds, for each name the first k of    *)
(* tls list, the last of those that do.                                    *)
LatestOf(map, tls, k, wildcard) ==
  /\ DOMAIN map = UNION {Listed(tls[i], wildcard) : i \in 1..k}
  /\ \A n \in DOMAIN map : \E i \in 1..k :
       /\ n \in Listed(tls[i], wildcard) /\ map[n] = tls[i]
       /\ \A j \in 1..k : n \in Listed(tls[j], wildcard) => j <= i

(* Only the set of the first k matters.                                    *)
LEMMA LatestSame ==
  ASSUME NEW map, NEW tls, NEW k, NEW l, NEW wildcard, 1..k = 1..l, LatestOf(map, tls, k, wildcard)
  PROVE  LatestOf(map, tls, l, wildcard)
BY DEF LatestOf

(* An empty map is right before any certificate is loaded.                 *)
LEMMA LatestEmpty ==
  ASSUME NEW tls, NEW k \in Int, k <= 0, NEW wildcard PROVE LatestOf(<<>>, tls, k, wildcard)
<1>1. DOMAIN <<>> = {} /\ 1..k = {}
  OBVIOUS
<1>2. UNION {Listed(tls[i], wildcard) : i \in 1..k} = {}
  BY <1>1
<1> QED  BY <1>1, <1>2 DEF LatestOf

(* add_sni(): the next certificate replaces its predecessors under the     *)
(* names it lists, and under no other.                                     *)
LEMMA LatestNext ==
  ASSUME NEW tls, NEW k \in Nat, NEW map, NEW wildcard, LatestOf(map, tls, k, wildcard)
  PROVE  LatestOf(InsertAll(map, Listed(tls[k+1], wildcard), tls[k+1]), tls, k + 1, wildcard)
<1> DEFINE L(i) == Listed(tls[i], wildcard)
           new == InsertAll(map, L(k+1), tls[k+1])
<1>1. /\ DOMAIN new = DOMAIN map \cup L(k+1)
      /\ \A n \in DOMAIN new : new[n] = IF n \in L(k+1) THEN tls[k+1] ELSE map[n]
  BY DEF InsertAll
<1>2. DOMAIN map = UNION {L(i) : i \in 1..k}
  BY DEF LatestOf
<1>3. \A n \in DOMAIN map : \E i \in 1..k :
        n \in L(i) /\ map[n] = tls[i] /\ \A j \in 1..k : n \in L(j) => j <= i
  BY DEF LatestOf
<1> HIDE DEF L, new
<1>4. 1..(k+1) = 1..k \cup {k+1}
  OBVIOUS
<1>5. DOMAIN new = UNION {L(i) : i \in 1..(k+1)}
  BY <1>1, <1>2, <1>4
<1>6. ASSUME NEW n \in DOMAIN new
      PROVE  \E i \in 1..(k+1) :
               n \in L(i) /\ new[n] = tls[i] /\ \A j \in 1..(k+1) : n \in L(j) => j <= i
  <2>1. CASE n \in L(k+1)
    BY <1>1, <1>4, <2>1
  <2>2. CASE n \notin L(k+1)
    <3>1. n \in DOMAIN map /\ new[n] = map[n]
      BY <1>1, <2>2
    <3> QED  BY <1>3, <1>4, <2>2, <3>1
  <2> QED  BY <2>1, <2>2
<1> QED  BY <1>5, <1>6 DEF LatestOf, L, new

-----------------------------------------------------------------------------
(* What ServerInit has loaded, and what the connection was given.          *)

Router ==
  /\ router = [primary |-> config.primary, sni |-> router.sni, wildcard |-> router.wildcard]
  /\ LatestOf(router.sni, config.tls, loaded - 1, FALSE)
  /\ LatestOf(router.wildcard, config.tls, loaded - 1, TRUE)

CertInv ==
  /\ config \in Deployments
  /\ start \in {"loading", "up", "failed"}
  /\ config.tls # Absent =>
       /\ loaded \in 0..(Len(config.tls) + 1)
       /\ start = "up" => loaded = Len(config.tls) + 1
       /\ \A i \in 1..(loaded - 1) : Loads(config.tls[i]) /\ HasNames(config.tls[i])
       /\ Router
  /\ hello # Absent =>
       /\ start = "up" /\ hello.name \in Names
       /\ config.tls # Absent => hello.cert = Resolve(router, hello.name)

(* Nothing is loaded.                                                      *)
LEMMA CertInit == Init => CertInv
<1> SUFFICES ASSUME Init PROVE CertInv
  OBVIOUS
<1>1. /\ config \in Deployments /\ loaded = 0 /\ hello = Absent
      /\ router = [primary |-> config.primary, sni |-> <<>>, wildcard |-> <<>>]
      /\ start = IF config.tls = Absent THEN "up" ELSE "loading"
  BY DEF Init, NewRouter
<1>2. Router
  <2>1. loaded - 1 \in Int /\ loaded - 1 <= 0
    BY <1>1
  <2>2. /\ LatestOf(<<>>, config.tls, loaded - 1, FALSE)
        /\ LatestOf(<<>>, config.tls, loaded - 1, TRUE)
    BY <2>1, LatestEmpty
  <2>3. router.sni = <<>> /\ router.wildcard = <<>>
    BY <1>1
  <2> QED  BY <1>1, <2>2, <2>3 DEF Router
<1>3. config.tls # Absent => loaded \in 0..(Len(config.tls) + 1) /\ 1..(loaded - 1) = {}
  BY <1>1, NamesAssumption
<1> QED  BY <1>1, <1>2, <1>3 DEF CertInv

(* Loading ends with the first bad certificate, or goes on with the next.  *)
LEMMA LoadPrimaryInv == ASSUME CertInv, LoadPrimary PROVE CertInv'
<1>1. UNCHANGED <<config, router, hello>> /\ start = "loading" /\ loaded = 0
  BY DEF LoadPrimary
<1>2. (loaded' = 1 /\ start' = start) \/ (loaded' = 0 /\ start' = "failed")
  BY <1>1 DEF LoadPrimary
<1>3. hello = Absent
  BY <1>1 DEF CertInv
<1>4. config.tls # Absent =>
        /\ loaded' \in 0..(Len(config.tls) + 1)
        /\ 1..(loaded' - 1) = {} /\ 1..(loaded - 1) = {}
  BY <1>1, <1>2, NamesAssumption DEF CertInv
<1>5. config.tls # Absent => Router'
  BY <1>1, <1>4, LatestSame DEF CertInv, Router
<1> QED  BY <1>1, <1>2, <1>3, <1>4, <1>5 DEF CertInv

(* The alternative certificate number loaded is added, or is bad.          *)
LEMMA LoadAlternativeInv == ASSUME CertInv, LoadAlternative PROVE CertInv'
<1> DEFINE cert == config.tls[loaded]
<1>1. /\ UNCHANGED <<config, hello>> /\ start = "loading" /\ hello = Absent
      /\ loaded \in 1..Len(config.tls) /\ start' \in {"loading", "failed"}
  BY DEF LoadAlternative, CertInv
<1>2. CASE UNCHANGED <<router, loaded>>
  BY <1>1, <1>2 DEF CertInv, Router
<1>3. CASE /\ Loads(cert) /\ HasNames(cert)
           /\ loaded' = loaded + 1 /\ router' = AddSni(router, cert)
  <2> SUFFICES ASSUME config.tls # Absent
               PROVE  /\ loaded' \in 0..(Len(config.tls) + 1)
                      /\ \A i \in 1..(loaded' - 1) :
                           Loads(config.tls[i]) /\ HasNames(config.tls[i])
                      /\ Router'
    BY <1>1 DEF CertInv
  <2>1. Len(config.tls) \in Nat /\ loaded \in Nat /\ loaded >= 1
    BY <1>1, NamesAssumption DEF CertInv
  <2>2. loaded' \in 0..(Len(config.tls) + 1)
    BY <1>1, <1>3, <2>1
  <2>3. \A i \in 1..(loaded' - 1) : Loads(config.tls[i]) /\ HasNames(config.tls[i])
    BY <1>3, <2>1 DEF CertInv
  <2>4. Router'
    <3> DEFINE k == loaded - 1
    <3>1. k \in Nat /\ k + 1 = loaded /\ loaded' - 1 = k + 1
      BY <1>3, <2>1
    <3>2. LatestOf(router.sni, config.tls, k, FALSE) /\ LatestOf(router.wildcard, config.tls, k, TRUE)
      BY DEF CertInv, Router
    <3>3. router' = [primary |-> config.primary,
                     sni |-> InsertAll(router.sni, Listed(cert, FALSE), cert),
                     wildcard |-> InsertAll(router.wildcard, Listed(cert, TRUE), cert)]
      <4>1. Router
        BY DEF CertInv
      <4>2. router.primary = config.primary
        BY <4>1 DEF Router
      <4> QED  BY <1>3, <4>2 DEF AddSni
    <3> HIDE DEF k
    <3>4. LatestOf(router'.sni, config.tls, k + 1, FALSE)
      BY <3>1, <3>2, <3>3, LatestNext
    <3>5. LatestOf(router'.wildcard, config.tls, k + 1, TRUE)
      BY <3>1, <3>2, <3>3, LatestNext
    <3> QED  BY <1>1, <3>1, <3>3, <3>4, <3>5 DEF Router
  <2> QED  BY <2>2, <2>3, <2>4
<1> QED  BY <1>1, <1>2, <1>3 DEF LoadAlternative

(* Every step.                                                             *)
LEMMA CertStep == CertInv /\ [Next]_vars => CertInv'
<1> SUFFICES ASSUME CertInv, [Next]_vars PROVE CertInv'
  OBVIOUS
<1>1. CASE UNCHANGED <<startVars, hello>>
  BY <1>1 DEF startVars, CertInv, Router
<1>2. CASE Started
  <2>1. /\ UNCHANGED <<config, router, loaded, hello>> /\ start = "loading"
        /\ start' = "up" /\ loaded = Len(config.tls) + 1
    BY <1>2 DEF Started
  <2> QED  BY <2>1 DEF CertInv, Router
<1>3. ASSUME NEW name \in Names, Connect(name) PROVE CertInv'
  <2>1. /\ UNCHANGED <<config, router, start, loaded>> /\ start = "up"
        /\ hello' = [name |-> name,
                     cert |-> IF config.tls = Absent THEN Absent ELSE Resolve(router, name)]
    BY <1>3 DEF Connect, startVars
  <2> QED  BY <2>1 DEF CertInv, Router
<1>4. CASE Finish
  <2>1. UNCHANGED startVars /\ (hello' = Absent \/ hello' = hello)
    BY <1>4 DEF Finish
  <2> QED  BY <2>1 DEF startVars, CertInv, Router
<1> QED
  BY <1>1, <1>2, <1>3, <1>4, LoadPrimaryInv, LoadAlternativeInv
  DEF Next, Arrive, Dispatch, BodyLimit, MakeSpan, Identify, Permit, Handle, TimeOut,
      Propagate, AddHeaders, Goto, Answer, vars

(* The alternatives that name a server, exactly or by a wildcard for one   *)
(* more label, and the choice among them.                                  *)
Naming(tls, name, exact) ==
  {i \in DOMAIN tls : \E n \in tls[i].names :
     IF exact THEN ~n.wildcard /\ n.name = name
     ELSE n.wildcard /\ Len(name) = Len(n.name) + 1 /\ Tail(name) = n.name}

Best(tls, name) ==
  IF Naming(tls, name, TRUE) # {} THEN Naming(tls, name, TRUE) ELSE Naming(tls, name, FALSE)

Chosen(tls, name, primary, cert) ==
  IF Best(tls, name) = {} THEN cert = primary
  ELSE \E i \in Best(tls, name) : (\A j \in Best(tls, name) : j <= i) /\ cert = tls[i]

(* A name resolves to the last certificate that lists it exactly, else to  *)
(* the last with a wildcard for one more label, else to the primary one.   *)
LEMMA ResolveChooses ==
  ASSUME NEW tls, NEW k \in Nat, NEW r, NEW name \in Seq(STRING),
         DOMAIN tls = 1..k, \A i \in 1..k : tls[i].names \subseteq San,
         LatestOf(r.sni, tls, k, FALSE), LatestOf(r.wildcard, tls, k, TRUE)
  PROVE  Chosen(tls, name, r.primary, Resolve(r, name))
<1> DEFINE E == Naming(tls, name, TRUE)
           W == Naming(tls, name, FALSE)
<1>1. \A i \in 1..k : i \in E <=> name \in Listed(tls[i], FALSE)
  <2> SUFFICES ASSUME NEW i \in 1..k
               PROVE  (\E n \in tls[i].names : ~n.wildcard /\ n.name = name)
                        <=> name \in Listed(tls[i], FALSE)
    BY DEF Naming
  <2>1. \A n \in tls[i].names : n.wildcard \in BOOLEAN
    BY DEF San
  <2> QED  BY <2>1 DEF Listed
<1>2. \A i \in 1..k : i \in W <=> (Len(name) > 1 /\ Tail(name) \in Listed(tls[i], TRUE))
  <2> SUFFICES ASSUME NEW i \in 1..k
               PROVE  (\E n \in tls[i].names :
                         n.wildcard /\ Len(name) = Len(n.name) + 1 /\ Tail(name) = n.name)
                        <=> (Len(name) > 1 /\ Tail(name) \in Listed(tls[i], TRUE))
    BY DEF Naming
  <2>1. \A n \in tls[i].names : n.wildcard \in BOOLEAN /\ n.name \in Seq(STRING) /\ Len(n.name) >= 1
    BY DEF San, NoName
  <2>2. Len(name) > 1 => Len(Tail(name)) + 1 = Len(name)
    OBVIOUS
  <2>3. \A n : n \in {m \in tls[i].names : m.wildcard = TRUE} <=> (n \in tls[i].names /\ n.wildcard)
    BY <2>1
  <2> QED  BY <2>1, <2>2, <2>3 DEF Listed
<1>3. E \subseteq 1..k /\ W \subseteq 1..k
  BY DEF Naming
<1> HIDE DEF E, W
<1>4. name \in DOMAIN r.sni <=> E # {}
  <2>1. DOMAIN r.sni = UNION {Listed(tls[i], FALSE) : i \in 1..k}
    BY DEF LatestOf
  <2>2. name \in DOMAIN r.sni <=> \E i \in 1..k : name \in Listed(tls[i], FALSE)
    BY <2>1
  <2> QED  BY <1>1, <1>3, <2>2
<1>5. (Len(name) > 1 /\ Tail(name) \in DOMAIN r.wildcard) <=> W # {}
  <2>1. DOMAIN r.wildcard = UNION {Listed(tls[i], TRUE) : i \in 1..k}
    BY DEF LatestOf
  <2>2. Tail(name) \in DOMAIN r.wildcard <=> \E i \in 1..k : Tail(name) \in Listed(tls[i], TRUE)
    BY <2>1
  <2> QED  BY <1>2, <1>3, <2>2
<1>6. CASE E # {}
  <2>1. PICK i \in 1..k :
          /\ name \in Listed(tls[i], FALSE) /\ r.sni[name] = tls[i]
          /\ \A j \in 1..k : name \in Listed(tls[j], FALSE) => j <= i
    BY <1>4, <1>6 DEF LatestOf
  <2>2. Resolve(r, name) = tls[i] /\ i \in E /\ \A j \in E : j <= i
    BY <1>1, <1>3, <1>4, <1>6, <2>1 DEF Resolve
  <2> QED  BY <1>6, <2>2 DEF E, Best, Chosen
<1>7. CASE E = {} /\ W # {}
  <2>1. PICK i \in 1..k :
          /\ Tail(name) \in Listed(tls[i], TRUE) /\ r.wildcard[Tail(name)] = tls[i]
          /\ \A j \in 1..k : Tail(name) \in Listed(tls[j], TRUE) => j <= i
    BY <1>5, <1>7 DEF LatestOf
  <2>2. Resolve(r, name) = tls[i] /\ i \in W /\ \A j \in W : j <= i
    BY <1>2, <1>3, <1>4, <1>5, <1>7, <2>1 DEF Resolve
  <2> QED  BY <1>7, <2>2 DEF E, W, Best, Chosen
<1>8. CASE E = {} /\ W = {}
  <2>1. Resolve(r, name) = r.primary
    BY <1>4, <1>5, <1>8 DEF Resolve
  <2> QED  BY <1>8, <2>1 DEF E, W, Best, Chosen
<1> QED  BY <1>6, <1>7, <1>8

(* The inductive invariant of loading and connecting.                      *)
THEOREM CertInvariance == Spec => []CertInv
BY CertInit, CertStep, PTL DEF Spec

(* A connection gets the certificate that names its server, the exact name *)
(* before the wildcard and the later before the earlier, or the primary    *)
(* one; and only if every certificate could be loaded.                     *)
THEOREM CertificateTheorem == Spec => []CertificateChosen
<1>1. ASSUME CertInv, hello # Absent, config.tls # Absent
      PROVE  /\ \A i \in DOMAIN config.tls : Loads(config.tls[i]) /\ HasNames(config.tls[i])
             /\ Chosen(config.tls, hello.name, config.primary, hello.cert)
  <2> DEFINE k == Len(config.tls)
  <2>1. /\ k \in Nat /\ DOMAIN config.tls = 1..k
        /\ \A i \in 1..k : config.tls[i].names \subseteq San
        /\ hello.name \in Seq(STRING)
    BY <1>1, NamesAssumption DEF CertInv
  <2>2. loaded - 1 = k
    BY <1>1, <2>1 DEF CertInv
  <2>3. \A i \in 1..k : Loads(config.tls[i]) /\ HasNames(config.tls[i])
    BY <1>1, <2>2 DEF CertInv
  <2>4. hello.cert = Resolve(router, hello.name) /\ Router
    BY <1>1 DEF CertInv
  <2>5. router.primary = config.primary
    BY <2>4 DEF Router
  <2>6. LatestOf(router.sni, config.tls, k, FALSE) /\ LatestOf(router.wildcard, config.tls, k, TRUE)
    BY <2>2, <2>4 DEF Router
  <2> HIDE DEF k
  <2>7. Chosen(config.tls, hello.name, router.primary, Resolve(router, hello.name))
    BY <2>1, <2>6, ResolveChooses
  <2> QED  BY <2>1, <2>3, <2>4, <2>5, <2>7
<1>2. {i \in DOMAIN config.tls : TRUE} = DOMAIN config.tls
  OBVIOUS
<1>3. CertInv => CertificateChosen
  BY <1>1, <1>2 DEF CertificateChosen, Chosen, Best, Naming
<1> QED  BY <1>3, CertInvariance, PTL

-----------------------------------------------------------------------------
(* http/header.rs and http/identify.rs                                     *)

(* The address the middleware goes by, and the credential.                 *)
Addr(r, c) == EffectiveAddr(SocketAddr(r), ForwardedFor(r), c.maxForwards)
Token(r) == Credential(r.bearer, r.cookie, r.query)

(* What Identify has found out of a request that it lets pass.             *)
Identified ==
  LET user == IF Token(req) = Absent THEN Nobody ELSE UserOf[Token(req)]
  IN  /\ Addr(req, config) # Malformed /\ Token(req) # Malformed /\ user # Invalid
      /\ ext = [user |-> user, key |-> WithUser(FromClientAddr(Addr(req, config)), user),
                addr |-> Addr(req, config)]

IdInv ==
  /\ config \in Deployments
  /\ at # "idle" => req \in Sends(config)
  /\ at \in {"permit", "handler"} => Identified

(* No request has come yet.                                                *)
LEMMA IdInit == Init => IdInv
BY DEF Init, IdInv

(* Every step: config stays, req stays until Finish, and what Identify     *)
(* writes it computes from both.                                           *)
LEMMA IdStep == IdInv /\ [Next]_vars => IdInv'
<1> SUFFICES ASSUME IdInv, [Next]_vars PROVE IdInv'
  OBVIOUS
<1>1. CASE UNCHANGED <<config, req, at, ext>>
  BY <1>1 DEF IdInv, Identified
<1>2. CASE LoadPrimary \/ LoadAlternative \/ Started \/ \E name \in Names : Connect(name)
  BY <1>1, <1>2 DEF LoadPrimary, LoadAlternative, Started, Connect, startVars
<1>3. ASSUME NEW r \in Sends(config), Arrive(r) PROVE IdInv'
  BY <1>3 DEF Arrive, startVars, IdInv
<1>4. ASSUME UNCHANGED <<config, req>>, at # "idle", at' \notin {"permit", "handler"} PROVE IdInv'
  BY <1>4 DEF IdInv
<1>5. CASE Dispatch \/ BodyLimit \/ MakeSpan \/ Handle \/ TimeOut \/ Propagate \/ AddHeaders
  BY <1>4, <1>5
  DEF Dispatch, BodyLimit, MakeSpan, Handle, TimeOut, Propagate, AddHeaders, Goto, Answer,
      startVars
<1>6. CASE Identify
  <2>1. CASE at' = "permit" /\ UNCHANGED <<config, req>>
    BY <1>6, <2>1 DEF Identify, IdInv, Identified, Addr, Token, Answer
  <2> QED  BY <1>4, <1>6, <2>1 DEF Identify, Answer, startVars
<1>7. CASE Permit
  <2>1. CASE at' = "handler" /\ UNCHANGED <<config, req, ext>>
    BY <1>7, <2>1 DEF Permit, IdInv, Identified
  <2> QED  BY <1>4, <1>7, <2>1 DEF Permit, Goto, Answer, startVars
<1>8. CASE Finish
  BY <1>8 DEF Finish, startVars, IdInv
<1> QED
  BY <1>1, <1>2, <1>3, <1>5, <1>6, <1>7, <1>8 DEF Next, vars, startVars

(* The inductive invariant of identifying a requester.                     *)
THEOREM IdInvariance == Spec => []IdInv
BY IdInit, IdStep, PTL DEF Spec

(* The chain a request comes with ends in the addresses of those who       *)
(* passed it on: its client and all proxies but the last.                  *)
LEMMA PathFront ==
  ASSUME NEW c \in Deployments, NEW r \in Sends(c)
  PROVE  /\ Path(r) \in Seq(Addresses) /\ Len(Path(r)) = r.proxies + 1
         /\ Front(Path(r)) \in Seq(Addresses) /\ Len(Front(Path(r))) = r.proxies
         /\ \A i \in 1..r.proxies : Front(Path(r))[i] = Path(r)[i]
         /\ SocketAddr(r) = Path(r)[r.proxies + 1]
<1> DEFINE s == SubSeq(Proxies, 1, r.proxies)
<1>1. /\ r.client \in Addresses /\ r.proxies \in 0..Len(Proxies)
      /\ Proxies \in Seq(Addresses) /\ Len(Proxies) \in Nat
  BY AddressAssumption
<1>2. s \in Seq(Addresses) /\ Len(s) = r.proxies
  BY <1>1, SubSeqProperties
<1>3. Path(r) = <<r.client>> \o s /\ <<r.client>> \in Seq(Addresses) /\ Len(<<r.client>>) = 1
  BY <1>1 DEF Path
<1> HIDE DEF s
<1>4. /\ Path(r) \in Seq(Addresses) /\ Len(Path(r)) = r.proxies + 1
      /\ Path(r)[1] = r.client
  BY <1>1, <1>2, <1>3, ConcatProperties
<1>5. Front(Path(r)) = SubSeq(Path(r), 1, r.proxies)
  BY <1>1, <1>4 DEF Front
<1>6. Front(Path(r)) \in Seq(Addresses) /\ Len(Front(Path(r))) = r.proxies
  BY <1>1, <1>4, <1>5, SubSeqProperties
<1>7. \A i \in 1..r.proxies : Front(Path(r))[i] = Path(r)[i]
  BY <1>1, <1>4, <1>5, SubSeqProperties
<1>8. SocketAddr(r) = Path(r)[r.proxies + 1]
  BY <1>4 DEF SocketAddr, Last
<1> QED  BY <1>4, <1>6, <1>7, <1>8

(* Counted from the end, by fewer than were appended, stands one of those, *)
(* whatever stands before it.                                              *)
LEMMA ChainEnds ==
  ASSUME NEW w \in Forwards, NEW f \in Forwards, NEW n \in Nat, Len(f) > n
  PROVE  /\ w \o f \in Forwards /\ NthBack(w \o f, n) = f[Len(f) - n]
         /\ NthBack(f, n) = f[Len(f) - n]
<1>1. /\ w \o f \in Forwards /\ Len(w \o f) = Len(w) + Len(f)
      /\ \A i \in 1..Len(f) : (w \o f)[Len(w) + i] = f[i]
  <2>1. PICK S : w \in Seq(S) /\ f \in Seq(S) /\ Forwards = Seq(S)
    BY DEF Forwards
  <2>2. /\ w \o f \in Seq(S) /\ Len(w \o f) = Len(w) + Len(f)
        /\ \A i \in 1..(Len(w) + Len(f)) :
             (w \o f)[i] = IF i <= Len(w) THEN w[i] ELSE f[i - Len(w)]
    BY <2>1, ConcatProperties
  <2>3. Len(w) \in Nat /\ Len(f) \in Nat
    BY <2>1
  <2> QED  BY <2>1, <2>2, <2>3
<1>2. Len(w) \in Nat /\ Len(f) \in Nat
  BY DEF Forwards
<1>3. /\ Len(f) - n \in 1..Len(f) /\ Len(w \o f) > n
      /\ Len(w \o f) - n = Len(w) + (Len(f) - n)
  BY <1>1, <1>2
<1>4. NthBack(w \o f, n) = f[Len(f) - n]
  BY <1>1, <1>3 DEF NthBack
<1>5. NthBack(f, n) = f[Len(f) - n]
  BY <1>2 DEF NthBack
<1> QED  BY <1>1, <1>4, <1>5

(* The address of a request that passed more proxies than the configured   *)
(* number, or none and without the header, is one that it came from, or    *)
(* cannot be told, whatever the client wrote into the header.              *)
LEMMA OnThePath ==
  ASSUME NEW c \in Deployments, NEW r \in Sends(c),
         \/ r.proxies > c.maxForwards
         \/ r.proxies = 0 /\ r.wrote = <<>>,
         Addr(r, c) # Malformed
  PROVE  \E i \in DOMAIN Path(r) : Addr(r, c) = Path(r)[i]
<1> DEFINE f == Front(Path(r))
           lines == ForwardedFor(r)
           chain == Decode(lines)
           n == c.maxForwards
           l == r.proxies
<1>1. /\ r.client \in Addresses /\ l \in Nat /\ r.wrote \in Seq(Forwards) /\ n \in Nat
      /\ \A a \in Addresses : a # Absent /\ a # Malformed
      /\ DOMAIN Path(r) = 1..(l + 1) /\ \A i \in 1..(l + 1) : Path(r)[i] \in Addresses
  BY AddressAssumption, PathFront
<1>2. Addr(r, c) = LET forwarded ==
                         IF chain \in {Absent, Malformed} THEN chain ELSE NthBack(chain, n)
                   IN  IF forwarded = Absent THEN SocketAddr(r) ELSE forwarded
  BY DEF Addr, EffectiveAddr
<1>3. CASE r.proxies = 0 /\ r.wrote = <<>>
  <2>1. chain = Absent
    BY <1>3 DEF ForwardedFor, Decode
  <2>2. Addr(r, c) = Path(r)[l + 1] /\ l + 1 \in DOMAIN Path(r)
    BY <1>1, <1>2, <2>1, PathFront
  <2> QED  BY <2>2
<1>4. CASE l > n
  <2> DEFINE a == f[l - n]
  <2>1. f \in Forwards /\ Len(f) = l /\ a = Path(r)[l - n] /\ l - n \in DOMAIN Path(r)
    <3>1. /\ f \in Seq(Addresses) /\ Len(f) = l
          /\ \A i \in 1..l : f[i] = Path(r)[i]
      BY <1>1, <1>4, PathFront
    <3>2. l - n \in 1..l /\ l - n \in 1..(l + 1)
      BY <1>1, <1>4
    <3> QED  BY <1>1, <1>4, <3>1, <3>2 DEF Forwards
  <2>2. lines = IF r.wrote = <<>> THEN <<f>> ELSE Append(Front(r.wrote), Last(r.wrote) \o f)
    BY <1>1, <1>4 DEF ForwardedFor
  <2>3. chain # Malformed
    BY <1>2, AddressAssumption
  <2>4. a \notin {Absent, Malformed}
    BY <1>1, <2>1
  <2>5. \A w \in Forwards :
          w \o f \in Forwards /\ NthBack(w \o f, n) = a /\ NthBack(f, n) = a
    BY <1>1, <1>4, <2>1, ChainEnds
  <2> HIDE DEF f, lines, a
  <2>6. CASE r.wrote = <<>>
    <3>1. lines = <<f>> /\ lines # <<>> /\ lines[1] = f
      BY <2>2, <2>6
    <3>2. chain = f
      BY <2>3, <3>1 DEF Decode
    <3>3. chain \notin {Absent, Malformed} /\ NthBack(chain, n) = a
      BY <2>1, <2>5, <3>2, AddressAssumption
    <3>4. Addr(r, c) = a
      BY <1>2, <2>4, <3>3
    <3> QED  BY <2>1, <3>4
  <2>7. CASE r.wrote # <<>>
    <3> DEFINE k == Len(r.wrote)
               w == r.wrote[k]
    <3>1. k \in Nat /\ k > 0 /\ w \in Forwards /\ Last(r.wrote) = w
      BY <1>1, <2>7 DEF Last
    <3>2. w \o f \in Forwards /\ NthBack(w \o f, n) = a
      BY <2>5, <3>1
    <3>3. Front(r.wrote) \in Seq(Forwards) /\ Len(Front(r.wrote)) = k - 1
      BY <1>1, <3>1, SubSeqProperties DEF Front
    <3>4. lines = Append(Front(r.wrote), w \o f)
      BY <2>2, <2>7, <3>1
    <3> HIDE DEF k, w
    <3>5. Len(lines) = k /\ lines[k] = w \o f
      BY <3>1, <3>2, <3>3, <3>4
    <3>6. lines # <<>>
      BY <3>1, <3>5
    <3>7. k = 1 /\ chain = lines[1]
      BY <2>3, <3>1, <3>5, <3>6 DEF Decode
    <3>8. chain = w \o f
      BY <3>5, <3>7
    <3>9. chain \notin {Absent, Malformed} /\ NthBack(chain, n) = a
      BY <3>2, <3>8, AddressAssumption
    <3>10. Addr(r, c) = a
      BY <1>2, <2>4, <3>9
    <3> QED  BY <2>1, <3>10
  <2> QED  BY <2>6, <2>7
<1> QED  BY <1>3, <1>4

(* Behind more proxies than the configured number, a client has no say in  *)
(* the address it is counted under, and so in no key but that of one that  *)
(* its request really came from.                                           *)
THEOREM KeyTheorem == Spec => []KeyNotForged
<1>1. ASSUME IdInv, at = "handler", ext.user = Nobody,
             req.proxies > config.maxForwards \/ (req.proxies = 0 /\ req.wrote = <<>>)
      PROVE  \E i \in DOMAIN Path(req) : ext.addr = Path(req)[i] /\ ext.key = KeyOf(Path(req)[i])
  <2>1. Identified /\ config \in Deployments /\ req \in Sends(config)
    BY <1>1 DEF IdInv
  <2>2. /\ Addr(req, config) # Malformed /\ ext.addr = Addr(req, config)
        /\ ext.key = WithUser(FromClientAddr(Addr(req, config)), ext.user)
    BY <2>1 DEF Identified
  <2>3. PICK i \in DOMAIN Path(req) : Addr(req, config) = Path(req)[i]
    BY <1>1, <2>1, <2>2, OnThePath
  <2>4. ext.key = KeyOf(Path(req)[i])
    BY <1>1, <2>2, <2>3 DEF WithUser, FromClientAddr, KeyOf
  <2> QED  BY <2>2, <2>3, <2>4
<1>2. IdInv => KeyNotForged
  BY <1>1 DEF KeyNotForged
<1> QED  BY <1>2, IdInvariance, PTL

(* A request comes to a handler as the user of the first credential that   *)
(* can be read off it, and as nobody only when none can, and it has no     *)
(* Authorization header; a malformed cookie or query is passed over.       *)
THEOREM CredentialTheorem == Spec => []FirstCredentialDecides
<1>1. ASSUME IdInv, at = "handler" PROVE FirstCredentialDecides
  <2> DEFINE shown == <<req.bearer, req.cookie, req.query>>
             given == {i \in 1..3 : shown[i] \notin {Absent, Malformed}}
             token == Token(req)
  <2>1. Identified /\ config \in Deployments /\ req \in Sends(config)
    BY <1>1 DEF IdInv
  <2>2. token = IF shown[1] # Absent THEN shown[1]
                ELSE IF shown[2] \notin {Absent, Malformed} THEN shown[2]
                ELSE IF shown[3] \notin {Absent, Malformed} THEN shown[3] ELSE Absent
    BY DEF Token, Credential, Readable
  <2>3. shown[1] = req.bearer /\ shown[2] = req.cookie /\ shown[3] = req.query
    OBVIOUS
  <2>4. token \in DOMAIN UserOf \cup {Absent, Malformed}
    BY <2>1, <2>2, <2>3, CredentialAssumption
  <2>5. token # Malformed /\ shown[1] # Malformed
    <3>1. token # Malformed
      BY <2>1 DEF Identified
    <3> HIDE DEF shown, token
    <3> QED  BY <2>2, <3>1, AddressAssumption
  <2> HIDE DEF shown, token
  <2>6. CASE token = Absent
    <3>1. given = {}
      BY <2>2, <2>6, <2>5
    <3>2. ext.user = Nobody
      BY <2>1, <2>6 DEF Identified, token
    <3> QED  BY <2>3, <2>5, <3>1, <3>2 DEF FirstCredentialDecides, shown
  <2>7. CASE token # Absent
    <3>1. /\ token \in DOMAIN UserOf /\ ext.user = UserOf[token] /\ ext.user # Nobody
      BY <2>1, <2>4, <2>7, CredentialAssumption DEF Identified, token
    <3>2. ext.key = <<"User", ext.user>>
      BY <2>1, <2>7, <3>1 DEF Identified, WithUser, token
    <3>3. \E i \in given : (\A j \in given : i <= j) /\ shown[i] = token
      <4>1. CASE shown[1] # Absent
        BY <2>2, <2>5, <4>1
      <4>2. CASE shown[1] = Absent /\ shown[2] \notin {Absent, Malformed}
        BY <2>2, <4>2
      <4>3. CASE shown[1] = Absent /\ shown[2] \in {Absent, Malformed}
        BY <2>2, <2>7, <4>3
      <4> QED  BY <4>1, <4>2, <4>3
    <3> QED  BY <2>3, <2>5, <3>1, <3>2, <3>3 DEF FirstCredentialDecides, shown
  <2> QED  BY <2>6, <2>7
<1>2. IdInv => FirstCredentialDecides
  BY <1>1 DEF FirstCredentialDecides
<1> QED  BY <1>2, IdInvariance, PTL

-----------------------------------------------------------------------------
(* http/header.rs: what add_common_response_header() makes of a response.  *)

(* Before it, every header has one value.                                  *)
Single(h) == \A n \in DOMAIN h : \E v : h[n] = <<v>>

(* The first of two functions wins.                                        *)
LEMMA UnderFacts ==
  ASSUME NEW h, NEW g
  PROVE  /\ DOMAIN Under(h, g) = DOMAIN h \cup DOMAIN g
         /\ \A n \in DOMAIN h : Under(h, g)[n] = h[n]
         /\ \A n \in DOMAIN g : n \notin DOMAIN h => Under(h, g)[n] = g[n]
BY DEF Under

(* A header made of one value.                                             *)
LEMMA OneFacts ==
  ASSUME NEW name, NEW value
  PROVE  /\ DOMAIN One(name, value) = {name} /\ One(name, value)[name] = <<value>>
         /\ Single(One(name, value))
BY DEF One, Single

(* No header at all.                                                       *)
LEMMA NoneFacts == Single(<<>>) /\ DOMAIN <<>> = {}
BY DEF Single

(* Headers of one value each, under headers of one value each.             *)
LEMMA UnderSingle ==
  ASSUME NEW h, NEW g, Single(h), Single(g) PROVE Single(Under(h, g))
<1> SUFFICES ASSUME NEW n \in DOMAIN Under(h, g) PROVE \E v : Under(h, g)[n] = <<v>>
  BY DEF Single
<1>1. CASE n \in DOMAIN h
  <2>1. Under(h, g)[n] = h[n]
    BY <1>1 DEF Under
  <2>2. \E v : h[n] = <<v>>
    BY <1>1 DEF Single
  <2> QED  BY <2>1, <2>2
<1>2. CASE n \notin DOMAIN h
  <2>1. n \in DOMAIN g
    BY <1>2 DEF Under
  <2>2. Under(h, g)[n] = g[n]
    BY <1>2, <2>1 DEF Under
  <2>3. \E v : g[n] = <<v>>
    BY <2>1 DEF Single
  <2> QED  BY <2>2, <2>3
<1> QED  BY <1>1, <1>2

(* The last of two values is the one that was appended.                    *)
LEMMA LastAppended ==
  ASSUME NEW s, NEW v, s = <<>> \/ \E u : s = <<u>> PROVE Last(Append(s, v)) = v
<1>1. CASE s = <<>>
  BY <1>1 DEF Last
<1>2. CASE \E u : s = <<u>>
  <2>1. PICK u : s = <<u>>
    BY <1>2
  <2> DEFINE S == {u, v}
             t == Append(s, v)
  <2>2. s \in Seq(S) /\ v \in S /\ Len(s) = 1
    BY <2>1
  <2> HIDE DEF S
  <2>3. Len(t) = 2 /\ t[2] = v
    BY <2>2, AppendProperties
  <2> HIDE DEF t
  <2> QED  BY <2>3 DEF Last, t
<1> QED  BY <1>1, <1>2

(* The configured headers override, are appended, or fill in, and nothing  *)
(* else is touched.                                                        *)
LEMMA AddCommonFacts ==
  ASSUME NEW h, NEW extra, Single(h)
  PROVE
    LET r == AddCommon(h, extra)
    IN  /\ \A n \in DOMAIN extra.overriding : r[n] = <<extra.overriding[n]>>
        /\ \A n \in DOMAIN extra.ifNotSet : n \in DOMAIN r
        /\ \A n \in DOMAIN extra.appending \ DOMAIN extra.overriding :
             Last(r[n]) = extra.appending[n]
        /\ \A n \in DOMAIN h \ (DOMAIN extra.overriding \cup DOMAIN extra.appending) : r[n] = h[n]
<1> DEFINE fill == [n \in DOMAIN extra.ifNotSet |-> <<extra.ifNotSet[n]>>]
           set == Under(h, fill)
           old(n) == IF n \in DOMAIN set THEN set[n] ELSE <<>>
           more == [n \in DOMAIN extra.appending |-> Append(old(n), extra.appending[n])]
           appended == Under(more, set)
           over == [n \in DOMAIN extra.overriding |-> <<extra.overriding[n]>>]
           r == Under(over, appended)
<1>1. AddCommon(h, extra) = r
  BY DEF AddCommon
<1>2. DOMAIN fill = DOMAIN extra.ifNotSet /\ Single(fill)
  BY DEF Single
<1>3. /\ DOMAIN over = DOMAIN extra.overriding
      /\ \A n \in DOMAIN over : over[n] = <<extra.overriding[n]>>
  OBVIOUS
<1>4. /\ DOMAIN more = DOMAIN extra.appending
      /\ \A n \in DOMAIN more : more[n] = Append(old(n), extra.appending[n])
  OBVIOUS
<1> HIDE DEF fill, over, more
<1>5. /\ DOMAIN set = DOMAIN h \cup DOMAIN fill /\ Single(set)
      /\ \A n \in DOMAIN h : set[n] = h[n]
  BY <1>2, UnderFacts, UnderSingle
<1>6. \A n : old(n) = <<>> \/ \E u : old(n) = <<u>>
  BY <1>5 DEF Single
<1> HIDE DEF set, old
<1>7. /\ DOMAIN appended = DOMAIN more \cup DOMAIN set
      /\ \A n \in DOMAIN more : appended[n] = more[n]
      /\ \A n \in DOMAIN set : n \notin DOMAIN more => appended[n] = set[n]
  BY UnderFacts
<1> HIDE DEF appended
<1>8. /\ DOMAIN r = DOMAIN over \cup DOMAIN appended
      /\ \A n \in DOMAIN over : r[n] = over[n]
      /\ \A n \in DOMAIN appended : n \notin DOMAIN over => r[n] = appended[n]
  BY UnderFacts
<1> HIDE DEF r
<1>9. \A n \in DOMAIN extra.overriding : r[n] = <<extra.overriding[n]>>
  BY <1>3, <1>8
<1>10. \A n \in DOMAIN extra.ifNotSet : n \in DOMAIN r
  BY <1>2, <1>5, <1>7, <1>8
<1>11. ASSUME NEW n \in DOMAIN extra.appending \ DOMAIN extra.overriding
       PROVE  Last(r[n]) = extra.appending[n]
  <2>1. r[n] = Append(old(n), extra.appending[n])
    BY <1>3, <1>4, <1>7, <1>8
  <2>2. Last(Append(old(n), extra.appending[n])) = extra.appending[n]
    BY <1>6, LastAppended
  <2> QED  BY <2>1, <2>2
<1>12. \A n \in DOMAIN h \ (DOMAIN extra.overriding \cup DOMAIN extra.appending) : r[n] = h[n]
  BY <1>3, <1>4, <1>5, <1>7, <1>8
<1> QED  BY <1>1, <1>9, <1>10, <1>11, <1>12

-----------------------------------------------------------------------------
(* The headers of a response on its way out.                               *)

(* What the makers of responses set: each of these headers, one value; and *)
(* a handler's answer its own.                                             *)
Made(r) ==
  /\ r = [status |-> r.status, headers |-> r.headers]
  /\ Single(r.headers)
  /\ DOMAIN r.headers \subseteq {"content-type", "retry-after", "x-frame-options"}
  /\ r.status = 200 =>
       "x-frame-options" \in DOMAIN r.headers /\ r.headers["x-frame-options"] = <<"handler">>

(* Behind PropagateRequestId, which is on the way of the API alone.        *)
WithId(r) ==
  /\ r = [status |-> r.status, headers |-> r.headers]
  /\ Single(r.headers)
  /\ req.route = "api" =>
       /\ "x-request-id" \in DOMAIN r.headers /\ r.headers["x-request-id"] = <<req.id>>
       /\ r.status = 200 =>
            "x-frame-options" \in DOMAIN r.headers /\ r.headers["x-frame-options"] = <<"handler">>
  /\ req.route = "ui" =>
       \A n \in DOMAIN UiHeaders : n \in DOMAIN r.headers /\ r.headers[n] = <<"ui">>

RespInv ==
  /\ at \in {"limits", "span", "extract", "permit", "handler", "propagate"} => req.route = "api"
  /\ at = "propagate" => Made(resp)
  /\ at = "headers" => WithId(resp)
  /\ ResponseDressed

(* The status of an error is never that of success.                        *)
LEMMA ErrorMade ==
  ASSUME NEW e \in ApiErrors, NEW after PROVE Made(ErrorResponse(e, after))
<1> DEFINE json == One("content-type", "json")
           limited == IF e = "RateLimited" THEN One("retry-after", after) ELSE <<>>
           h == Under(limited, Under(RetryAfter(e), json))
<1>1. ErrorResponse(e, after) = [status |-> HttpStatus(e), headers |-> h]
  BY DEF ErrorResponse
<1>2. /\ Single(json) /\ DOMAIN json = {"content-type"}
  BY OneFacts
<1>3. Single(limited) /\ DOMAIN limited \subseteq {"retry-after"}
  BY OneFacts, NoneFacts
<1>4. Single(RetryAfter(e)) /\ DOMAIN RetryAfter(e) \subseteq {"retry-after"}
  BY OneFacts, NoneFacts DEF RetryAfter
<1> HIDE DEF limited, json
<1>5. Single(h) /\ DOMAIN h \subseteq {"content-type", "retry-after"}
  <2> DEFINE g == Under(RetryAfter(e), json)
  <2>1. Single(g) /\ DOMAIN g = DOMAIN RetryAfter(e) \cup DOMAIN json
    BY <1>2, <1>4, UnderFacts, UnderSingle
  <2> HIDE DEF g
  <2>2. Single(Under(limited, g)) /\ DOMAIN Under(limited, g) = DOMAIN limited \cup DOMAIN g
    BY <1>3, <2>1, UnderFacts, UnderSingle
  <2> QED  BY <1>2, <1>3, <1>4, <2>1, <2>2 DEF g
<1>6. HttpStatus(e) # 200
  BY DEF HttpStatus, ApiErrors
<1> QED  BY <1>1, <1>5, <1>6 DEF Made

(* A file, unchanged file or redirect of the user interface has its six    *)
(* headers, whatever else it has.                                          *)
LEMMA UiMade ==
  ASSUME NEW file, NEW method, NEW etag, NEW gzip, file.redirect \in BOOLEAN
  PROVE  LET r == UiResponse(file, method, etag, gzip)
         IN  /\ r = [status |-> r.status, headers |-> r.headers]
             /\ Single(r.headers)
             /\ \A n \in DOMAIN UiHeaders : n \in DOMAIN r.headers /\ r.headers[n] = <<"ui">>
<1> DEFINE q == UiFile(file, method, etag, gzip)
           content == [n \in {"content-type", "content-length", "etag"} |-> <<file.name>>]
           encoding == IF file.gzipped /\ gzip THEN One("content-encoding", "gzip") ELSE <<>>
<1>1. Single(content) /\ Single(UiHeaders)
  BY DEF Single, UiHeaders
<1>2. Single(encoding)
  BY OneFacts, NoneFacts
<1>3. Single(Under(content, encoding))
  BY <1>1, <1>2, UnderSingle
<1>4. Single(One("location", file.name))
  BY OneFacts
<1> HIDE DEF content, encoding
<1>5. q = [status |-> q.status, headers |-> q.headers] /\ Single(q.headers)
  BY <1>3, <1>4, NoneFacts DEF UiFile, content, encoding
<1> HIDE DEF q
<1>6. \A n \in DOMAIN UiHeaders : UiHeaders[n] = <<"ui">>
  BY DEF UiHeaders
<1> DEFINE r == UiResponse(file, method, etag, gzip)
<1>7. /\ r = [status |-> r.status, headers |-> r.headers]
      /\ r.headers = Under(UiHeaders, q.headers)
  BY <1>5 DEF UiResponse, q
<1> HIDE DEF r
<1>8. Single(Under(UiHeaders, q.headers))
  BY <1>1, <1>5, UnderSingle
<1>9. \A n \in DOMAIN UiHeaders :
        n \in DOMAIN Under(UiHeaders, q.headers) /\ Under(UiHeaders, q.headers)[n] = <<"ui">>
  BY <1>6 DEF Under
<1> QED  BY <1>7, <1>8, <1>9 DEF r

-----------------------------------------------------------------------------
(* Nobody has been answered at first.                                     *)
LEMMA RespInit == Init => RespInv
BY DEF Init, RespInv, ResponseDressed

(* A request answered before its route, by a file or for want of a route.  *)
LEMMA DispatchInv ==
  ASSUME IdInv, RespInv, Dispatch PROVE RespInv'
<1>1. at = "dispatch" /\ config \in Deployments /\ req \in Sends(config) /\ UNCHANGED req
  BY DEF IdInv, Dispatch, Goto, Answer
<1>2. CASE req.route = "api" /\ Goto("limits")
  BY <1>1, <1>2 DEF Goto, RespInv, ResponseDressed
<1>3. CASE req.route = "none" /\ resp' = ErrorResponse("RouteNotFound", 0) /\ at' = "headers"
  <2>1. Made(ErrorResponse("RouteNotFound", 0))
    BY ErrorMade DEF ApiErrors
  <2>2. Made(resp')
    BY <1>3, <2>1
  <2>3. WithId(resp)'
    BY <1>1, <1>3, <2>2 DEF WithId, Made
  <2> QED  BY <1>3, <2>3 DEF RespInv, ResponseDressed
<1>4. CASE /\ req.route = "ui" /\ at' = "headers"
           /\ resp' = UiResponse(req.file, req.method, req.etag, req.gzip)
  <2> DEFINE r == UiResponse(req.file, req.method, req.etag, req.gzip)
  <2>1. req.file.redirect \in BOOLEAN
    BY <1>1, <1>4, FilesAssumption
  <2>2. /\ r = [status |-> r.status, headers |-> r.headers]
        /\ Single(r.headers)
        /\ \A n \in DOMAIN UiHeaders : n \in DOMAIN r.headers /\ r.headers[n] = <<"ui">>
    BY <2>1, UiMade
  <2>3. resp' = r
    BY <1>4
  <2> HIDE DEF r
  <2>4. WithId(resp)'
    BY <1>1, <1>4, <2>2, <2>3 DEF WithId
  <2> QED  BY <1>4, <2>4 DEF RespInv, ResponseDressed
<1>5. \/ req.route = "api" /\ Goto("limits")
      \/ req.route = "none" /\ resp' = ErrorResponse("RouteNotFound", 0) /\ at' = "headers"
      \/ /\ req.route = "ui" /\ at' = "headers"
         /\ resp' = UiResponse(req.file, req.method, req.etag, req.gzip)
  <2>1. CASE req.route = "none" /\ at' = "headers" /\
             Answer(ErrorResponse("RouteNotFound", 0).status, ErrorResponse("RouteNotFound", 0).headers)
    <3>1. Made(ErrorResponse("RouteNotFound", 0))
      BY ErrorMade DEF ApiErrors
    <3> QED  BY <2>1, <3>1 DEF Made, Answer
  <2>2. CASE req.route = "ui" /\ at' = "headers" /\
             Answer(UiResponse(req.file, req.method, req.etag, req.gzip).status,
                    UiResponse(req.file, req.method, req.etag, req.gzip).headers)
    <3>1. req.file.redirect \in BOOLEAN
      BY <1>1, <2>2, FilesAssumption
    <3> DEFINE r == UiResponse(req.file, req.method, req.etag, req.gzip)
    <3>2. r = [status |-> r.status, headers |-> r.headers]
      BY <3>1, UiMade
    <3> QED  BY <2>2, <3>2 DEF Answer
  <2> QED  BY <2>1, <2>2 DEF Dispatch
<1> QED  BY <1>2, <1>3, <1>4, <1>5

(* Answers the layers of the API make of themselves.                       *)
LEMMA RefusalMade ==
  ASSUME NEW status, status # 200 PROVE Made([status |-> status, headers |-> <<>>])
<1> DEFINE r == [status |-> status, headers |-> <<>>]
<1>1. r.status = status /\ r.headers = <<>>
  OBVIOUS
<1>2. r = [status |-> r.status, headers |-> r.headers]
  OBVIOUS
<1> HIDE DEF r
<1>3. Made(r)
  BY <1>1, <1>2, NoneFacts DEF Made
<1> QED  BY <1>3 DEF r

(* The answer of a handler that succeeds.                                  *)
LEMMA HandlerMade == Made([status |-> 200, headers |-> One("x-frame-options", "handler")])
<1> DEFINE g == One("x-frame-options", "handler")
<1>1. Single(g) /\ DOMAIN g = {"x-frame-options"} /\ g["x-frame-options"] = <<"handler">>
  BY OneFacts
<1> HIDE DEF g
<1>2. Made([status |-> 200, headers |-> g])
  BY <1>1 DEF Made
<1> QED  BY <1>2 DEF g

(* Whatever a layer of the API answers goes to PropagateRequestId.         *)
LEMMA AnsweredInv ==
  ASSUME RespInv, at \in {"limits", "span", "extract", "permit", "handler"},
         UNCHANGED req, at' = "propagate", Made(resp')
  PROVE  RespInv'
BY DEF RespInv, ResponseDressed, Made

(* A request that goes on to the next layer.                               *)
LEMMA PassedInv ==
  ASSUME RespInv, at \in {"limits", "span", "extract", "permit", "handler"}, UNCHANGED req,
         at' \in {"span", "extract", "permit", "handler", "panicked"}
  PROVE  RespInv'
BY DEF RespInv, ResponseDressed

(* The layers between the route and the handler, and the handler.          *)
LEMMA LayersInv ==
  ASSUME RespInv, BodyLimit \/ MakeSpan \/ Identify \/ Permit \/ Handle \/ TimeOut PROVE RespInv'
<1>1. CASE BodyLimit
  <2>1. CASE req.large
    BY <1>1, <2>1, RefusalMade, AnsweredInv DEF BodyLimit, Answer
  <2>2. CASE ~req.large
    BY <1>1, <2>2, PassedInv DEF BodyLimit, Goto
  <2> QED  BY <2>1, <2>2
<1>2. CASE MakeSpan
  BY <1>2, PassedInv DEF MakeSpan, Goto
<1>3. CASE Identify
  <2>1. /\ at = "extract" /\ UNCHANGED req
        /\ \/ at' = "permit"
           \/ /\ at' = "propagate"
              /\ \E status \in {401, 500} : resp' = [status |-> status, headers |-> <<>>]
    BY <1>3 DEF Identify, Answer
  <2>2. ASSUME NEW status \in {401, 500}, resp' = [status |-> status, headers |-> <<>>],
               at' = "propagate"
        PROVE  RespInv'
    BY <2>1, <2>2, RefusalMade, AnsweredInv
  <2> QED  BY <2>1, <2>2, PassedInv
<1>4. CASE Permit
  <2>1. CASE Goto("handler")
    BY <1>4, <2>1, PassedInv DEF Permit, Goto
  <2>2. CASE Answer(429, <<>>) /\ at' = "propagate"
    BY <1>4, <2>2, RefusalMade, AnsweredInv DEF Permit, Answer
  <2> QED  BY <1>4, <2>1, <2>2 DEF Permit
<1>5. CASE Handle
  <2>1. at = "handler" /\ at' = "propagate" /\ UNCHANGED req
    BY <1>5 DEF Handle, Answer
  <2>2. CASE Answer(200, One("x-frame-options", "handler"))
    <3>1. Made(resp')
      BY <2>2, HandlerMade DEF Answer
    <3> QED  BY <2>1, <3>1, AnsweredInv
  <2>3. ASSUME NEW e \in ApiErrors, Answer(ErrorResponse(e, 5).status, ErrorResponse(e, 5).headers)
        PROVE  RespInv'
    <3>1. Made(ErrorResponse(e, 5))
      BY ErrorMade
    <3>2. resp' = ErrorResponse(e, 5)
      BY <2>3, <3>1 DEF Made, Answer
    <3> QED  BY <2>1, <3>1, <3>2, AnsweredInv
  <2> QED  BY <1>5, <2>2, <2>3 DEF Handle
<1>6. CASE TimeOut
  <2>1. Made(ErrorResponse("Timeout", 0))
    BY ErrorMade DEF ApiErrors
  <2>2. resp' = ErrorResponse("Timeout", 0)
    BY <1>6, <2>1 DEF TimeOut, Made, Answer
  <2>3. Made(resp')
    BY <2>1, <2>2
  <2> QED  BY <1>6, <2>3, AnsweredInv DEF TimeOut, Answer
<1> QED  BY <1>1, <1>2, <1>3, <1>4, <1>5, <1>6

(* The id is put on what the API made.                                     *)
LEMMA PropagateInv ==
  ASSUME RespInv, Propagate PROVE RespInv'
<1> DEFINE h == resp.headers
           g == One("x-request-id", req.id)
<1>1. /\ at = "propagate" /\ at' = "headers" /\ UNCHANGED req /\ req.route = "api" /\ Made(resp)
      /\ resp' = [resp EXCEPT !.headers = Under(h, g)]
  BY DEF RespInv, Propagate
<1>2. Single(g) /\ DOMAIN g = {"x-request-id"} /\ g["x-request-id"] = <<req.id>>
  BY OneFacts
<1>3. Single(h) /\ "x-request-id" \notin DOMAIN h
  BY <1>1 DEF Made
<1> HIDE DEF g
<1>4. Single(Under(h, g))
  BY <1>2, <1>3, UnderSingle
<1>5. /\ "x-request-id" \in DOMAIN Under(h, g) /\ Under(h, g)["x-request-id"] = <<req.id>>
      /\ \A n \in DOMAIN h : n \in DOMAIN Under(h, g) /\ Under(h, g)[n] = h[n]
  BY <1>2, <1>3 DEF Under
<1>6. /\ resp' = [status |-> resp'.status, headers |-> resp'.headers]
      /\ resp'.status = resp.status /\ resp'.headers = Under(h, g)
  BY <1>1 DEF Made
<1>7. WithId(resp)'
  BY <1>1, <1>4, <1>5, <1>6 DEF WithId, Made
<1> QED  BY <1>1, <1>7 DEF RespInv, ResponseDressed

(* The configured headers come last.                                       *)
LEMMA AddHeadersInv ==
  ASSUME RespInv, AddHeaders PROVE RespInv'
<1> DEFINE h == resp.headers
           x == config.extra
           f == AddCommon(h, x)
           added == DOMAIN x.overriding \cup DOMAIN x.appending
<1>1. /\ at = "headers" /\ at' = "answered" /\ UNCHANGED <<req, config>> /\ WithId(resp)
      /\ resp' = [resp EXCEPT !.headers = f]
  BY DEF RespInv, AddHeaders, startVars
<1>2. resp'.status = resp.status /\ resp'.headers = f
  BY <1>1 DEF WithId
<1>3. /\ \A n \in DOMAIN x.overriding : f[n] = <<x.overriding[n]>>
      /\ \A n \in DOMAIN x.ifNotSet : n \in DOMAIN f
      /\ \A n \in DOMAIN x.appending \ DOMAIN x.overriding : Last(f[n]) = x.appending[n]
      /\ \A n \in DOMAIN h \ added : f[n] = h[n]
  BY <1>1, AddCommonFacts DEF WithId
<1> HIDE DEF f
<1>4. req.route = "api" => "x-request-id" \in added \/ f["x-request-id"] = <<req.id>>
  BY <1>1, <1>3 DEF WithId
<1>5. \A n \in DOMAIN UiHeaders \ added : req.route = "ui" => f[n] = <<"ui">>
  BY <1>1, <1>3 DEF WithId
<1>6. req.route = "api" /\ resp.status = 200 =>
        "x-frame-options" \in added \/ f["x-frame-options"] = <<"handler">>
  BY <1>1, <1>3 DEF WithId
<1>7. ResponseDressed'
  BY <1>1, <1>2, <1>3, <1>4, <1>5, <1>6 DEF ResponseDressed
<1> QED  BY <1>1, <1>7 DEF RespInv

(* Every step keeps the invariant.                                         *)
LEMMA RespStep == IdInv /\ RespInv /\ [Next]_vars => RespInv'
<1> SUFFICES ASSUME IdInv, RespInv, [Next]_vars PROVE RespInv'
  OBVIOUS
<1>1. CASE LoadPrimary \/ LoadAlternative \/ Started
  BY <1>1 DEF LoadPrimary, LoadAlternative, Started, RespInv, ResponseDressed, Made, WithId
<1>2. CASE \E name \in Names : Connect(name)
  BY <1>2 DEF Connect, startVars, RespInv, ResponseDressed, Made, WithId
<1>3. CASE \E r \in Sends(config) : Arrive(r)
  BY <1>3 DEF Arrive, RespInv, ResponseDressed
<1>4. CASE Finish
  BY <1>4 DEF Finish, RespInv, ResponseDressed
<1>5. CASE UNCHANGED vars
  BY <1>5 DEF vars, startVars, RespInv, ResponseDressed, Made, WithId
<1> QED  BY <1>1, <1>2, <1>3, <1>4, <1>5, DispatchInv, LayersInv, PropagateInv, AddHeadersInv DEF Next

(* What a response has to carry it carries when it leaves, whichever layer *)
(* made it and whatever headers are configured.                            *)
THEOREM ResponsesTheorem == Spec => []ResponseDressed
<1>1. Spec => []RespInv
  BY RespInit, RespStep, IdInvariance, PTL DEF Spec
<1>2. RespInv => ResponseDressed
  BY DEF RespInv
<1> QED  BY <1>1, <1>2, PTL
=============================================================================
