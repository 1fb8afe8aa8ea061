------------------------------ MODULE MCTunnel ------------------------------
(* SOCKS5 with and without authentication and TCP mode, with clients that    *)
(* keep to the protocol and clients that do not.                             *)
EXTENDS Tunnel

MCModes == {[socks |-> TRUE, auth |-> TRUE], [socks |-> TRUE, auth |-> FALSE],
            [socks |-> FALSE, auth |-> FALSE]}
A(p, w, l, o, v, c) ==
    [patient |-> p, whole |-> w, long |-> l, offers |-> o, valid |-> v, wants |-> c]
MCClients ==
    {A(TRUE, TRUE, "none", "both", TRUE, "connect"), A(TRUE, FALSE, "none", "userpass", TRUE, "connect"),
     A(FALSE, FALSE, "none", "both", TRUE, "connect"), A(FALSE, FALSE, "none", "none", FALSE, "connect"),
     A(TRUE, TRUE, "none", "both", FALSE, "unknown"), A(FALSE, TRUE, "none", "both", TRUE, "other"),
     A(TRUE, TRUE, "none", "userpass", FALSE, "connect"),
     A(FALSE, TRUE, "greeting", "both", TRUE, "connect"), A(FALSE, TRUE, "auth", "both", TRUE, "connect")}
=============================================================================
