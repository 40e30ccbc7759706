----------------------------- MODULE MCHttpServer -----------------------------
(***************************************************************************)
(* A server whose own proxy is the one for GCP tokens, and that is also    *)
(* given one for AWS tokens.                                               *)
(***************************************************************************)
EXTENDS HttpServer

CONSTANTS r1, r2

MCGcp == [cloud |-> "gcp", class |-> "AuthorizationProxy"]
MCAws == [cloud |-> "aws", class |-> "AuthorizationProxy"]
MCProxies == {MCGcp, MCAws}
MCOwnProxies == {MCGcp}
MCShapes == {[method |-> "POST", length |-> "fits"], [method |-> "PUT", length |-> "none"]}
MCTokens == {[cloud |-> "aws", id |-> 1], [cloud |-> "gcp", id |-> 2]}

===============================================================================
