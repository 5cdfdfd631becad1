------------------------------- MODULE MCStack -------------------------------
(* The instances of Stack that TLC checks.                                 *)
EXTENDS Stack, TLC

(* One of the two servers and the proxy: the third service differs from    *)
(* the first in its port only.                                             *)
TwoServices == <<"MCP-A", "PROXY">>
=============================================================================
