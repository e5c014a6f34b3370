---------------------------- MODULE MCRequestPath ----------------------------
(* Instance of RequestPath for TLC: deployments that differ in their       *)
(* certificates, with one request, and one without TLS per configuration   *)
(* of headers and forwarding, with all requests.                           *)
EXTENDS RequestPath, FiniteSets, TLC

CONSTANTS alice, bob, ta, tb, tx

MCUserOf == (ta :> alice) @@ (tb :> bob) @@ (tx :> Invalid)

v4(n) == [kind |-> "v4", hi |-> 0, lo |-> n]
MCProxies == <<v4(11), v4(12)>>
Clients ==
  {v4(1), [kind |-> "mapped", hi |-> 0, lo |-> 1], [kind |-> "compatible", hi |-> 0, lo |-> 1],
   [kind |-> "v6", hi |-> 7, lo |-> 1], [kind |-> "v6", hi |-> 7, lo |-> 2]}
Written ==
  {<<>>, <<<<v4(2)>>>>, <<<<v4(2), v4(3), v4(1)>>>>, <<<<Malformed>>>>, <<<<v4(2)>>, <<v4(3)>>>>}

(* Labels of names: x, a.x, b.a.x.                                         *)
MCNames == {NoName, <<"x">>, <<"a", "x">>, <<"b", "a", "x">>}
Exact(n) == [wildcard |-> FALSE, name |-> n]
Wild(n) == [wildcard |-> TRUE, name |-> n]
Sans == {Exact(<<"a", "x">>), Wild(<<"x">>), Wild(<<"a", "x">>)}
Cert(id, files, names) == [id |-> id, files |-> files, names |-> names]
Alternatives(id) ==
  {Cert(id, "ok", names) : names \in SUBSET Sans}
    \cup {Cert(id, "no SAN", {}), Cert(id, "bad", {})}

DefaultHeaders == DefaultExtraHeaders
OtherHeaders ==
  [overriding |-> "server" :> "config",
   appending |-> "referrer-policy" :> "config" @@ "x-frame-options" :> "config",
   ifNotSet |-> "cache-control" :> "config" @@ "x-frame-options" :> "fallback"]

Primary == Cert(0, "ok", {Exact(<<"x">>)})
WithTls ==
  {[primary |-> p, tls |-> <<a, b>>, maxForwards |-> 0, extra |-> DefaultHeaders] :
     p \in {Primary, Cert(0, "bad", {})}, a \in Alternatives(1), b \in Alternatives(2)}
WithoutTls ==
  {[primary |-> Primary, tls |-> Absent, maxForwards |-> n, extra |-> h] :
     n \in {0, 1}, h \in {DefaultHeaders, OtherHeaders}}
MCDeployments == WithTls \cup WithoutTls

Plain ==
  [route |-> "none", file |-> Absent, method |-> "GET", etag |-> Absent, gzip |-> FALSE,
   client |-> v4(1), proxies |-> 0, wrote |-> <<>>, id |-> "text", large |-> FALSE,
   bearer |-> Absent, cookie |-> Absent, query |-> Absent]
Api == [Plain EXCEPT !.route = "api"]
File(name, gzipped, redirect) == [name |-> name, gzipped |-> gzipped, redirect |-> redirect]

UiRequests ==
  {[Plain EXCEPT !.route = "ui", !.file = f, !.method = m, !.etag = t, !.gzip = g] :
     f \in {File("f", TRUE, FALSE), File("g", FALSE, FALSE), File("f", TRUE, TRUE)},
     m \in {"GET", "POST"}, t \in {"f", "old"}, g \in BOOLEAN}
Addressed ==
  {[Api EXCEPT !.client = c, !.proxies = n, !.wrote = w] : c \in Clients, n \in 0..2, w \in Written}
Credentialed ==
  {[Api EXCEPT !.bearer = b, !.cookie = c, !.query = q] :
     b \in {Absent, Malformed, ta, tx}, c \in {Absent, Malformed, tb, tx},
     q \in {Absent, Malformed, ta, tx}}
Others == {Plain, [Api EXCEPT !.id = "opaque"], [Api EXCEPT !.large = TRUE]}

MCSends(c) ==
  IF c.tls = Absent THEN UiRequests \cup Addressed \cup Credentialed \cup Others ELSE {Plain}
=============================================================================
