------------------------------ MODULE Responses ------------------------------
(***************************************************************************)
(* What the server answers: the files of the user interface (frontend's    *)
(* lib.rs), the errors of the API (api/result.rs), and the headers put on  *)
(* every response (http/header.rs).                                        *)
(*                                                                         *)
(* A response is its status and its headers, a function from header names  *)
(* to the sequence of their values; bodies and wording are left out.       *)
(***************************************************************************)
EXTENDS Integers, Sequences, Functions

One(name, value) == [n \in {name} |-> <<value>>]
Under(h, g) == [n \in DOMAIN h \cup DOMAIN g |-> IF n \in DOMAIN h THEN h[n] ELSE g[n]]

-----------------------------------------------------------------------------
(* The headers the frontend's own middleware inserts, over any there are.  *)
UiHeaders ==
  [n \in {"x-content-type-options", "x-xss-protection", "cache-control",
          "referrer-policy", "permissions-policy", "x-frame-options"} |-> <<"ui">>]

(* ui_router(): a file, or the redirect from its index.html; unchanged, or *)
(* gzipped for those who take it, and only to GET and HEAD.                *)
UiFile(file, method, etag, gzip) ==
  LET content == [n \in {"content-type", "content-length", "etag"} |-> <<file.name>>]
      encoding == IF file.gzipped /\ gzip THEN One("content-encoding", "gzip") ELSE <<>>
  IN  CASE file.redirect ->
             [status |-> 308, headers |-> One("location", file.name)]
        [] ~file.redirect /\ etag = file.name ->
             [status |-> 304, headers |-> <<>>]
        [] ~file.redirect /\ etag # file.name ->
             [status |-> IF method \in {"GET", "HEAD"} THEN 200 ELSE 405,
              headers |-> Under(content, encoding)]

UiResponse(file, method, etag, gzip) ==
  LET r == UiFile(file, method, etag, gzip)
  IN  [r EXCEPT !.headers = Under(UiHeaders, @)]

-----------------------------------------------------------------------------
(* ApiError: the kind and the status of each; Axum stands for a temporary  *)
(* Internal error.                                                         *)
ApiErrors == {"Base64", "Timeout", "Axum", "Decryption", "RateLimited", "NotReady", "RouteNotFound"}

HttpStatus(e) ==
  CASE e = "Base64" -> 400      [] e = "Timeout" -> 504      [] e = "Axum" -> 500
    [] e = "Decryption" -> 500  [] e = "RateLimited" -> 429  [] e = "NotReady" -> 503
    [] e = "RouteNotFound" -> 404

(* ErrorTy::retry_after(0), whose backoff() begins with 30 seconds.        *)
RetryAfter(e) == IF e = "Axum" THEN One("retry-after", 30) ELSE <<>>

(* ApiError::into_response(); RateLimited brings a time of its own.        *)
ErrorResponse(e, after) ==
  [status |-> HttpStatus(e),
   headers |-> Under(IF e = "RateLimited" THEN One("retry-after", after) ELSE <<>>,
                     Under(RetryAfter(e), One("content-type", "json")))]

-----------------------------------------------------------------------------
(* default_extra_headers()                                                 *)
DefaultExtraHeaders ==
  [overriding |-> [n \in {"server", "x-content-type-options", "x-xss-protection",
                          "permissions-policy"} |-> "config"],
   appending |-> <<>>,
   ifNotSet |-> [n \in {"x-frame-options", "permissions-policy", "referrer-policy"} |-> "config"]]

(* Faulty variant: the missing headers are set last.                       *)
AddCommonLate(headers, extra) ==
  LET set == Under(headers, [n \in DOMAIN extra.overriding |-> <<extra.overriding[n]>>])
  IN  Under(set, [n \in DOMAIN extra.ifNotSet |-> <<extra.ifNotSet[n]>>])

(* add_common_response_header(): set what is missing, append, override.    *)
AddCommon(headers, extra) ==
  LET set == Under(headers, [n \in DOMAIN extra.ifNotSet |-> <<extra.ifNotSet[n]>>])
      old(n) == IF n \in DOMAIN set THEN set[n] ELSE <<>>
      appended == Under([n \in DOMAIN extra.appending |-> Append(old(n), extra.appending[n])], set)
  IN  Under([n \in DOMAIN extra.overriding |-> <<extra.overriding[n]>>], appended)
=============================================================================
