---------------------------- MODULE MCHttpProxy ----------------------------
(* Two handlers.  The URLs name their hosts, ads is blocked.  Host headers   *)
(* agree with the URLs.                                                      *)
EXTENDS HttpProxy, TLC

CONSTANTS h1, h2, page, ads, site, A, B, alice, mallory

MCHandlers == {h1, h2}
MCSymmetry == Permutations(MCHandlers)
MCUrls == {page, ads, site}
MCHosts == {A, B}
MCUrlHost == [u \in MCUrls |-> IF u = site THEN B ELSE A]
Request(c, m, u, x, ok) == [client |-> c, method |-> m, url |-> u, header |-> x, user |-> ok]
MCRequests ==
    {Request(alice, "GET", page, A, TRUE), Request(alice, "GET", page, NULL, FALSE),
     Request(alice, "GET", ads, A, TRUE), Request(alice, "CONNECT", site, NULL, TRUE),
     Request(mallory, "POST", page, A, TRUE)}
MCConfigs == {[auth |-> TRUE, filtering |-> TRUE, caching |-> TRUE],
              [auth |-> FALSE, filtering |-> TRUE, caching |-> FALSE]}
MCCaching == {[auth |-> FALSE, filtering |-> FALSE, caching |-> TRUE]}
MCBuckets == {0}
MCUrlHash == [u \in MCUrls |-> 0]
MCTimes == {1, 3}
=============================================================================
