----------------------------- MODULE RequestPath -----------------------------
(***************************************************************************)
(* One connection of the server, from the loading of its certificates to   *)
(* the responses: server/mod.rs (ServerInit), server/tls.rs,               *)
(* server/router.rs (the order of the layers), http/identify.rs.           *)
(*                                                                         *)
(* A request for a file of the user interface, or for no route, meets only *)
(* the outermost layer, which sets headers.  One for a route of the API    *)
(* goes through all of them, outermost first, and its response back.  (The *)
(* API has no routes yet, and no handler carries IdentifyRequester: one    *)
(* that does is the environment's.)  tower-http's layers are external.     *)
(*                                                                         *)
(* A request is described together with how it came: its client, the       *)
(* number of proxies it passed, each of which appends the address it got   *)
(* the request from, and what the client itself wrote into the header.     *)
(***************************************************************************)
EXTENDS ServerKeyRouter, Requester, Responses

CONSTANTS
  Deployments,  \* configurations: the certificates, max_forwarded_for, headers
  Sends(_),     \* the requests the clients of a deployment send
  Names,        \* the server names they ask for
  Proxies       \* the proxies' addresses, from the client to the server

(* A name a certificate lists; a wildcard is followed by something.        *)
San == [wildcard : BOOLEAN, name : Seq(STRING) \ {NoName}]

Addresses == [kind : {"v4", "v6", "mapped", "compatible"}, hi : Nat, lo : Nat]
Forwards == Seq(Addresses \cup {Malformed})

ASSUME NamesAssumption ==
  /\ Names \subseteq Seq(STRING)
  /\ \A c \in Deployments : c.tls # Absent =>
       /\ Len(c.tls) \in Nat /\ DOMAIN c.tls = 1..Len(c.tls)
       /\ \A i \in DOMAIN c.tls : c.tls[i].names \subseteq San

ASSUME AddressAssumption ==
  /\ Absent # Malformed
  /\ \A e \in {Absent, Malformed} : e \notin Addresses /\ e \notin Forwards
  /\ Proxies \in Seq(Addresses)
  /\ \A c \in Deployments : c.maxForwards \in Nat
  /\ \A c \in Deployments : \A r \in Sends(c) :
       r.client \in Addresses /\ r.proxies \in 0..Len(Proxies) /\ r.wrote \in Seq(Forwards)

ASSUME CredentialAssumption ==
  /\ \A token \in DOMAIN UserOf : UserOf[token] # Nobody
  /\ \A c \in Deployments : \A r \in Sends(c) :
       {r.bearer, r.cookie, r.query} \subseteq DOMAIN UserOf \cup {Absent, Malformed}

ASSUME FilesAssumption ==
  \A c \in Deployments : \A r \in Sends(c) : r.route = "ui" => r.file.redirect \in BOOLEAN

VARIABLES
  config,
  router,  \* the certificates loaded so far
  start,   \* "loading", "up" or "failed"
  loaded,  \* how many certificates are loaded, the primary one first
  hello,   \* the server name and the certificate of the connection
  req,     \* the request
  at,      \* the layer it has reached
  ext,     \* its extensions: user, key and address
  resp     \* its response

startVars == <<config, router, start, loaded>>
vars == <<startVars, hello, req, at, ext, resp>>

NoExt == [user |-> Nobody, key |-> Absent, addr |-> Absent]

Init ==
  /\ config \in Deployments
  /\ router = NewRouter(config.primary)
  /\ start = IF config.tls = Absent THEN "up" ELSE "loading"
  /\ loaded = 0
  /\ hello = Absent
  /\ req = Absent /\ at = "idle" /\ ext = NoExt /\ resp = Absent

-----------------------------------------------------------------------------
(* ServerInit::new(): the primary certificate, then each alternative; the  *)
(* first that does not load ends the program.                              *)
LoadPrimary ==
  /\ start = "loading" /\ loaded = 0
  /\ IF Loads(config.primary)
     THEN loaded' = 1 /\ UNCHANGED start
     ELSE start' = "failed" /\ UNCHANGED loaded
  /\ UNCHANGED <<config, router, hello, req, at, ext, resp>>

LoadAlternative ==
  /\ start = "loading" /\ loaded \in 1..Len(config.tls)
  /\ LET cert == config.tls[loaded]
     IN  IF Loads(cert) /\ HasNames(cert)
         THEN loaded' = loaded + 1 /\ router' = AddSni(router, cert) /\ UNCHANGED start
         ELSE start' = "failed" /\ UNCHANGED <<router, loaded>>
  /\ UNCHANGED <<config, hello, req, at, ext, resp>>

Started ==
  /\ start = "loading" /\ loaded = Len(config.tls) + 1
  /\ start' = "up"
  /\ UNCHANGED <<config, router, loaded, hello, req, at, ext, resp>>

Connect(name) ==
  /\ start = "up" /\ hello = Absent
  /\ hello' = [name |-> name,
               cert |-> IF config.tls = Absent THEN Absent ELSE Resolve(router, name)]
  /\ UNCHANGED <<startVars, req, at, ext, resp>>

-----------------------------------------------------------------------------
(* The header lines and the socket address a request arrives with.         *)
Path(r) == <<r.client>> \o SubSeq(Proxies, 1, r.proxies)
SocketAddr(r) == Last(Path(r))
ForwardedFor(r) ==
  IF r.proxies = 0 THEN r.wrote
  ELSE IF r.wrote = <<>> THEN <<Front(Path(r))>>
  ELSE Append(Front(r.wrote), Last(r.wrote) \o Front(Path(r)))

Goto(where) == at' = where /\ UNCHANGED <<startVars, hello, req, ext, resp>>
Answer(status, headers) ==
  /\ resp' = [status |-> status, headers |-> headers]
  /\ UNCHANGED <<startVars, hello, req>>

Arrive(r) ==
  /\ hello # Absent /\ at = "idle"
  /\ req' = r /\ at' = "dispatch"
  /\ UNCHANGED <<startVars, hello, ext, resp>>

(* merge(ui_router()), fallback(), and the layers of the API's routes.     *)
Dispatch ==
  /\ at = "dispatch"
  /\ \/ /\ req.route = "api" /\ Goto("limits")
     \/ /\ req.route = "none"
        /\ LET e == ErrorResponse("RouteNotFound", 0) IN Answer(e.status, e.headers)
        /\ at' = "headers" /\ UNCHANGED ext
     \/ /\ req.route = "ui"
        /\ LET r == UiResponse(req.file, req.method, req.etag, req.gzip)
           IN  Answer(r.status, r.headers)
        /\ at' = "headers" /\ UNCHANGED ext

(* SetRequestId keeps an id that the request has, then makes one.  Behind  *)
(* it and PropagateRequestId is the limit of 2 MiB on the body.            *)
BodyLimit ==
  /\ at = "limits"
  /\ IF req.large
     THEN /\ Answer(413, <<>>) /\ at' = "propagate" /\ UNCHANGED ext
     ELSE Goto("span")

(* make_request_span() unwraps the id as text.                             *)
MakeSpan ==
  /\ at = "span"
  /\ Goto(IF req.id = "opaque" THEN "panicked" ELSE "extract")

(* IdentifyRequester, up to the permit.  Only the address header and the   *)
(* Authorization header are errors when they cannot be read.               *)
Identify ==
  /\ at = "extract"
  /\ LET addr == EffectiveAddr(SocketAddr(req), ForwardedFor(req), config.maxForwards)
         token == Credential(req.bearer, req.cookie, req.query)
         user == IF token = Absent THEN Nobody ELSE UserOf[token]
     IN  IF addr = Malformed \/ token = Malformed
         THEN Answer(500, <<>>) /\ at' = "propagate" /\ UNCHANGED ext
         ELSE IF user = Invalid
         THEN Answer(401, <<>>) /\ at' = "propagate" /\ UNCHANGED ext
         ELSE /\ ext' = [user |-> user, key |-> WithUser(FromClientAddr(addr), user),
                         addr |-> addr]
              /\ at' = "permit"
              /\ UNCHANGED <<startVars, hello, req, resp>>

(* ConcurrencyLimitMap::get(): turned away, or a future to wait for.       *)
Permit ==
  /\ at = "permit"
  /\ \/ Goto("handler")
     \/ Answer(429, <<>>) /\ at' = "propagate" /\ ext' = NoExt

Handle ==
  /\ at = "handler"
  /\ \/ Answer(200, One("x-frame-options", "handler"))
     \/ \E e \in ApiErrors \ {"Timeout", "RouteNotFound"} :
          LET r == ErrorResponse(e, 5) IN Answer(r.status, r.headers)
  /\ at' = "propagate" /\ UNCHANGED ext

(* add_resettable_timeout() around the span and the route (its mechanism   *)
(* is module ResettableTimeout).                                           *)
TimeOut ==
  /\ at \in {"extract", "permit", "handler"}
  /\ LET r == ErrorResponse("Timeout", 0) IN Answer(r.status, r.headers)
  /\ at' = "propagate" /\ UNCHANGED ext

(* PropagateRequestId puts the id on a response that has none.             *)
Propagate ==
  /\ at = "propagate"
  /\ resp' = [resp EXCEPT !.headers = Under(@, One("x-request-id", req.id))]
  /\ at' = "headers"
  /\ UNCHANGED <<startVars, hello, req, ext>>

AddHeaders ==
  /\ at = "headers"
  /\ resp' = [resp EXCEPT !.headers = AddCommon(@, config.extra)]
  /\ at' = "answered"
  /\ UNCHANGED <<startVars, hello, req, ext>>

(* The connection is kept for the next request, or closed.                 *)
Finish ==
  /\ at \in {"answered", "panicked"}
  /\ hello' = IF at = "panicked" THEN Absent ELSE hello
  /\ req' = Absent /\ at' = "idle" /\ ext' = NoExt /\ resp' = Absent
  /\ UNCHANGED startVars

Next ==
  \/ LoadPrimary \/ LoadAlternative \/ Started
  \/ \E name \in Names : Connect(name)
  \/ \E r \in Sends(config) : Arrive(r)
  \/ Dispatch \/ BodyLimit \/ MakeSpan \/ Identify \/ Permit \/ Handle \/ TimeOut
  \/ Propagate \/ AddHeaders \/ Finish

Spec == Init /\ [][Next]_vars

-----------------------------------------------------------------------------
(* A connection gets the certificate that names its server exactly, before *)
(* one that names it by a wildcard for one label; of two alternatives that *)
(* do, the later one; and the primary certificate when none does or the    *)
(* client names no server.  There is no connection if any of them is bad.  *)
CertificateChosen ==
  hello # Absent /\ config.tls # Absent =>
    LET alternatives == {i \in DOMAIN config.tls : TRUE}
        naming(exact) ==
          {i \in alternatives : \E n \in config.tls[i].names :
             IF exact THEN ~n.wildcard /\ n.name = hello.name
             ELSE n.wildcard /\ Len(hello.name) = Len(n.name) + 1
                    /\ Tail(hello.name) = n.name}
        best == IF naming(TRUE) # {} THEN naming(TRUE) ELSE naming(FALSE)
        isLatest(i) == \A j \in best : j <= i
    IN  /\ \A i \in alternatives : Loads(config.tls[i]) /\ HasNames(config.tls[i])
        /\ IF best = {} THEN hello.cert = config.primary
           ELSE \E i \in best : isLatest(i) /\ hello.cert = config.tls[i]

(* A request that passed more proxies than max_forwarded_for, or none and  *)
(* without the header, is counted under an address it really came from,    *)
(* its client's or a proxy's, whatever the client wrote into the header.   *)
(* An address has one key as IPv4 and inside IPv6, and an IPv6 client does *)
(* not get another by changing its last eight bytes.                       *)
(*                                                                         *)
(* http/mod.rs:109 calls max_forwarded_for the maximum number of addresses *)
(* to follow; nth_back() skips that many and takes the next.  So behind as *)
(* many proxies, or with 0 and no proxy at all, the address taken is one   *)
(* that the client may have written, and nothing is said of it here.       *)
KeyOf(ip) == IF ip.kind = "v6" THEN <<"Ip6", ip.hi>> ELSE <<"Ip4", ip.lo>>

KeyNotForged ==
  LET told == \/ req.proxies > config.maxForwards
              \/ req.proxies = 0 /\ req.wrote = <<>>
  IN  at = "handler" /\ ext.user = Nobody /\ told =>
        \E i \in DOMAIN Path(req) : ext.addr = Path(req)[i] /\ ext.key = KeyOf(Path(req)[i])

(* Who reaches a handler as a user has shown that user's token in the      *)
(* first place where one can be read, the Authorization header, the cookie *)
(* or the query; who reaches it as nobody has shown none that can be read. *)
(* So a token that is refused is never passed over for a later one or for  *)
(* none, and neither is a malformed Authorization header; a malformed      *)
(* cookie or query is as good as none.                                     *)
FirstCredentialDecides ==
  at = "handler" =>
    LET shown == <<req.bearer, req.cookie, req.query>>
        given == {i \in 1..3 : shown[i] \notin {Absent, Malformed}}
    IN  /\ req.bearer # Malformed
        /\ IF ext.user = Nobody THEN given = {}
           ELSE \E i \in given :
                  /\ \A j \in given : i <= j
                  /\ UserOf[shown[i]] = ext.user /\ ext.key = <<"User", ext.user>>

(* Every response that leaves has the configured headers, once each where  *)
(* they override, and keeps what its maker set where they only fill in;    *)
(* and the responses of the API carry the request's id, whichever layer    *)
(* made them, unless the configuration replaces that header.               *)
ResponseDressed ==
  at = "answered" =>
    LET h == resp.headers extra == config.extra
        added == DOMAIN extra.overriding \cup DOMAIN extra.appending
    IN  /\ \A n \in DOMAIN extra.overriding : h[n] = <<extra.overriding[n]>>
        /\ \A n \in DOMAIN extra.ifNotSet : n \in DOMAIN h
        /\ \A n \in DOMAIN extra.appending \ DOMAIN extra.overriding :
             Last(h[n]) = extra.appending[n]
        /\ req.route = "api" =>
             "x-request-id" \in added \/ h["x-request-id"] = <<req.id>>
        /\ \A n \in DOMAIN UiHeaders \ added : req.route = "ui" => h[n] = <<"ui">>
        /\ req.route = "api" /\ resp.status = 200 =>
             "x-frame-options" \in added \/ h["x-frame-options"] = <<"handler">>
=============================================================================
