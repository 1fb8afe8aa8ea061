-------------------------------- MODULE Tunnel --------------------------------
(***************************************************************************)
(* connection_handle in SOCKS5, TCP and reverse mode: the SOCKS5 handshake  *)
(* and request of src/protocols/socks5.c, or just a connection to the       *)
(* backend, and then the loop of Relay.                                    *)
(*                                                                         *)
(* The handler reads each SOCKS5 message with one recv and takes what it    *)
(* gets for the whole message.  A message is two units of the client's      *)
(* stream here, so that a recv may return half of it, or more than it; the  *)
(* payload follows the messages and is counted as in Relay.                *)
(***************************************************************************)
EXTENDS Relay, Sequences

CONSTANTS Modes,     \* [socks, auth]: g_config.mode and g_config.enable_auth
          Clients    \* [patient, whole, long, offers, valid, wants]: see Script, Arrived

VARIABLES
    mode, client,    \* fixed at start
    phase,           \* what the handler waits for while pc = "setup"
    step,            \* number of messages the client has sent
    msgs,            \* units of these that were not read by the handler
    told,            \* the replies the client was sent
    authenticated    \* conn->authenticated

setupVars == <<phase, step, msgs, told, authenticated>>
vars == <<relayVars, setupVars, mode, client>>

Init ==
    /\ RelayInit
    /\ mode \in Modes /\ client \in Clients
    /\ phase = IF mode.socks THEN "greeting" ELSE "connect"
    /\ step = 0 /\ msgs = <<>> /\ told = <<>>
    /\ authenticated = FALSE

-----------------------------------------------------------------------------
(* The client.                                                             *)

\* What it has to say before its payload.
Script ==
    IF ~mode.socks THEN <<>>
    ELSE IF mode.auth THEN <<"greeting", "auth", "request">>
    ELSE <<"greeting", "request">>

\* A patient client sends a message only after the reply to the one before.
MayGoOn == client.patient => (Len(told) = step)

ClientSends ==
    /\ pc = "setup" /\ end["client"] = "open"
    /\ step < Len(Script) /\ MayGoOn
    /\ step' = step + 1
    /\ msgs' = msgs \o <<<<Script[step + 1], 1>>, <<Script[step + 1], 2>>>>
    /\ UNCHANGED <<relayVars, phase, told, authenticated, mode, client>>

PeerWrites(s) ==
    /\ (s = "client") => (step = Len(Script) /\ MayGoOn)
    /\ Write(s)
    /\ UNCHANGED <<setupVars, mode, client>>

Peer(s) ==
    /\ Finish(s) \/ Vanish(s)
    /\ UNCHANGED <<setupVars, mode, client>>

PeerReads(s) == Read(s) /\ UNCHANGED <<setupVars, mode, client>>

-----------------------------------------------------------------------------
(* The handshake.                                                          *)

Least(a, b) == IF a < b THEN a ELSE b

\* The number of units one recv may return: what was sent and delivered, up to
\* the size of the buffer.  A greeting or credentials longer than that, as this
\* client's message client.long is, are cut; any request fits.
Arrived ==
    LET total == Len(msgs) + rx["client"]
        most == IF phase = client.long THEN Least(total, 1) ELSE total
    IN  {n \in 1..most : client.whole => n >= Least(most, 2)}

\* One recv of n units in phase p; payload that comes with a message is read
\* into the same buffer and ignored.
Take(p, n) ==
    /\ pc = "setup" /\ phase = p
    /\ n \in Arrived
    /\ msgs' = SubSeq(msgs, n + 1, Len(msgs))
    /\ LET over == n - Least(n, Len(msgs))
       IN  /\ rx' = [rx EXCEPT !["client"] = @ - over]
           /\ early' = [early EXCEPT !["client"] = @ + over]

\* The n units are the message p, perhaps with more after it.
IsMessage(p, n) ==
    Len(msgs) >= 2 /\ n >= 2 /\ msgs[1] = <<p, 1>> /\ msgs[2] = <<p, 2>>

\* recv returns 0 or an error.
ClientEnds ==
    /\ pc = "setup" /\ phase \in {"greeting", "auth", "request"}
    /\ msgs = <<>> /\ rx["client"] = 0 /\ end["client"] \in {"half", "gone"}
    /\ Stop("client")
    /\ UNCHANGED <<early, ready, cur, held, rx, tx, sent, got, lost, end, setupVars, mode, client>>

\* The message is short or is not the one that is due: no reply.
NotUnderstood(n) ==
    /\ phase # "connect"
    /\ Take(phase, n) /\ ~IsMessage(phase, n)
    /\ Stop("error")
    /\ UNCHANGED <<ready, cur, held, tx, sent, got, lost, end>>
    /\ UNCHANGED <<phase, step, told, authenticated, mode, client>>

\* Send reply r and go on in phase q, or end after a refusal; a client that is
\* gone does not get it and the handler ends.
Answer(r, q) ==
    /\ told' = IF end["client"] = "gone" THEN told ELSE Append(told, r)
    /\ IF end["client"] = "gone" \/ q = "refused"
       THEN Stop("error") /\ UNCHANGED phase
       ELSE phase' = q /\ UNCHANGED <<pc, reason>>
    /\ UNCHANGED <<ready, cur, held, tx, sent, got, lost>>

\* Faulty variant: the last method the client offers decides.
MethodLast ==
    CASE mode.auth /\ client.offers = "userpass" -> "auth"
      [] ~mode.auth /\ client.offers = "none" -> "request"
      [] OTHER -> "refused"

\* The method selected among those the client offers: "userpass", "none" or
\* "both".
Method ==
    CASE mode.auth /\ client.offers \in {"userpass", "both"} -> "auth"
      [] ~mode.auth /\ client.offers \in {"none", "both"} -> "request"
      [] OTHER -> "refused"

Greeting(n) ==
    /\ Take("greeting", n) /\ IsMessage("greeting", n)
    /\ Answer(IF Method = "refused" THEN "refused" ELSE "method", Method)
    /\ UNCHANGED <<end, step, authenticated, mode, client>>

\* Faulty variant: the verdict is sent and then forgotten.
AuthForgotten(n) ==
    /\ Take("auth", n) /\ IsMessage("auth", n)
    /\ Answer(IF client.valid THEN "welcome" ELSE "refused", "request")
    /\ authenticated' = client.valid
    /\ UNCHANGED <<end, step, mode, client>>

Auth(n) ==
    /\ Take("auth", n) /\ IsMessage("auth", n)
    /\ Answer(IF client.valid THEN "welcome" ELSE "refused",
              IF client.valid THEN "request" ELSE "refused")
    /\ authenticated' = (client.valid /\ end["client"] # "gone")
    /\ UNCHANGED <<end, step, mode, client>>

-----------------------------------------------------------------------------
(* The request and the connection.                                         *)

\* A CONNECT with an IPv4 address or a name.
RequestConnect(n) ==
    /\ Take("request", n) /\ IsMessage("request", n)
    /\ client.wants = "connect"
    /\ phase' = "connect"
    /\ UNCHANGED <<pc, reason, ready, cur, held, tx, sent, got, lost, end>>
    /\ UNCHANGED <<step, told, authenticated, mode, client>>

\* Another address type, BIND or UDP: a reply that says so.
RequestRefused(n) ==
    /\ Take("request", n) /\ IsMessage("request", n)
    /\ client.wants = "other"
    /\ Answer("refused", "refused")
    /\ UNCHANGED <<end, step, authenticated, mode, client>>

\* An unknown command: no reply.
RequestUnknown(n) ==
    /\ Take("request", n) /\ IsMessage("request", n)
    /\ client.wants = "unknown"
    /\ Stop("error")
    /\ UNCHANGED <<ready, cur, held, tx, sent, got, lost, end>>
    /\ UNCHANGED <<phase, step, told, authenticated, mode, client>>

\* Only SOCKS5 replies; in TCP mode the client just sees its connection closed.
ConnectFails ==
    /\ pc = "setup" /\ phase = "connect"
    /\ told' = IF mode.socks /\ end["client"] # "gone" THEN Append(told, "refused") ELSE told
    /\ Stop("error")
    /\ UNCHANGED <<early, ready, cur, held, rx, tx, sent, got, lost, end>>
    /\ UNCHANGED <<phase, step, msgs, authenticated, mode, client>>

Connect ==
    /\ pc = "setup" /\ phase = "connect"
    /\ end' = [end EXCEPT !["remote"] = "open"]
    /\ IF mode.socks /\ end["client"] = "gone"
       THEN Stop("error") /\ UNCHANGED told
       ELSE /\ pc' = "select" /\ UNCHANGED reason
            /\ told' = IF mode.socks THEN Append(told, "success") ELSE told
    /\ UNCHANGED <<early, ready, cur, held, rx, tx, sent, got, lost>>
    /\ UNCHANGED <<phase, step, msgs, authenticated, mode, client>>

-----------------------------------------------------------------------------
Handshake ==
    \/ ClientEnds
    \/ \E n \in Arrived :
         \/ NotUnderstood(n) \/ Greeting(n) \/ Auth(n)
         \/ RequestConnect(n) \/ RequestRefused(n) \/ RequestUnknown(n)
    \/ ConnectFails \/ Connect

RelayStep == Loop /\ UNCHANGED <<setupVars, mode, client>>

\* The connection is over and what can be read was read.
Over ==
    /\ pc = "closed"
    /\ \A s \in Sides : end[s] # "gone" => (tx[s] = 0)
    /\ UNCHANGED vars

Next ==
    \/ ClientSends
    \/ \E s \in Sides : PeerWrites(s) \/ PeerReads(s) \/ Peer(s)
    \/ Handshake \/ RelayStep
    \/ Over

\* The handler's thread is scheduled; a client goes through the protocol, and
\* peers read what they are sent.  No peer need ever write or leave.
Spec ==
    /\ Init /\ [][Next]_vars
    /\ WF_vars(Handshake) /\ WF_vars(RelayStep)
    /\ WF_vars(ClientSends) /\ \A s \in Sides : WF_vars(PeerReads(s))

-----------------------------------------------------------------------------
(* Properties.                                                             *)

Messages == {"greeting", "auth", "request"}

TypeOK ==
    /\ RelayTypeOK
    /\ mode \in Modes /\ client \in Clients
    /\ phase \in Messages \cup {"connect"}
    /\ step \in 0..Len(Script)
    /\ msgs \in Seq(Messages \X {1, 2}) /\ Len(msgs) <= 2 * step
    /\ told \in Seq({"method", "welcome", "success", "refused"})
    /\ authenticated \in BOOLEAN

\* With authentication on, nobody gets a connection to the remote side before
\* their credentials were verified, whatever they offer and however their
\* messages are cut or run together.
NoConnectionUnverified ==
    (mode.socks /\ mode.auth /\ end["remote"] # "none") => (authenticated /\ client.valid)

\* A patient client whose messages arrive whole and fit the buffer, with what the
\* proxy asks for and a CONNECT, is told whether the connection was made, unless it leaves.
HandshakeCompletes ==
    ( /\ mode.socks /\ client.patient /\ client.whole /\ client.long = "none" /\ client.wants = "connect"
      /\ client.offers \in {"both", IF mode.auth THEN "userpass" ELSE "none"}
      /\ mode.auth => client.valid ) ~>
    (Len(told) = Len(Script) \/ end["client"] # "open")
==============================================================================
