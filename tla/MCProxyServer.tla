---------------------------- MODULE MCProxyServer ----------------------------
(* Two workers and two or three connections: a third one has to wait for a *)
(* worker.                                                                 *)
EXTENDS ProxyServer

CONSTANTS c1, c2, c3
MCConns2 == {c1, c2}
MCConns3 == {c1, c2, c3}
MCAllModels == {"pool", "hybrid", "event", "perconn"}
==============================================================================
