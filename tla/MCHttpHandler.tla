----------------------------- MODULE MCHttpHandler -----------------------------
(* HttpHandler with room for two headers and messages of three.            *)
EXTENDS HttpHandler
=============================================================================
