---------------------------- MODULE MCHttpServer ----------------------------
(* Instance of HttpServer for TLC.                                         *)
EXTENDS HttpServer

MCNames == {"http_server"}
MCNameOf == [h \in Handlers |-> "http_server"]
=============================================================================
