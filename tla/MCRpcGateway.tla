----------------------------- MODULE MCRpcGateway -----------------------------
(* RpcGateway on small instances.                                           *)
EXTENDS RpcGateway

CONSTANTS e1, e2, k1, k2
===============================================================================
