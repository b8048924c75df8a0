-------------------------- MODULE MCOpenApiClient ---------------------------
(* Instance of OpenApiClient for TLC: two coroutines share the client, so  *)
(* that one finds the token the other has just refreshed, over two tokens  *)
(* and two hosts, so that a refresh can move the client elsewhere.         *)
EXTENDS OpenApiClient
=============================================================================
