---------------------------- MODULE TunnelProofs ----------------------------
(***************************************************************************)
(* For every buffer size, every amount of data and every kind of client:   *)
(* the relay loses nothing without a cause and makes nothing up, and no     *)
(* connection is made for a client that was not verified.                  *)
(***************************************************************************)
EXTENDS Tunnel, TLAPS

Ended == {"closing", "closed"}

\* A handler that has ended has a reason; a side that is the reason has ended
\* its stream, and all of it was read.
EndInv ==
    /\ (pc \in Ended) <=> (reason # "none")
    /\ \A s \in Sides : reason = s => (end[s] \in {"half", "gone"} /\ rx[s] = 0)
    /\ end["client"] # "none"
    /\ pc = "setup" => (end["remote"] = "none" /\ cur = "client" /\ tx["remote"] = 0 /\ rx["remote"] = 0)

RelayInv == RelayTypeOK /\ Conservation /\ EndInv /\ LossHasCause

\* In SOCKS5 mode with authentication the handler gets beyond "auth" only with
\* verified credentials, and before that there is no remote side.
VerifiedInv ==
    (mode.socks /\ mode.auth /\ phase \in {"request", "connect"}) => (authenticated /\ client.valid)

TunnelInv == TypeOK /\ RelayInv /\ VerifiedInv /\ NoConnectionUnverified

-----------------------------------------------------------------------------
(* The relay.                                                              *)

\* The two sides.
LEMMA TwoSides ==
    /\ Sides = {"client", "remote"}
    /\ Other("client") = "remote" /\ Other("remote") = "client"
    /\ \A s \in Sides : Other(s) \in Sides /\ Other(Other(s)) = s /\ Other(s) # s
BY DEF Sides, Other

\* The types, one by one.
LEMMA RelayTypes ==
    ASSUME RelayTypeOK
    PROVE  /\ held \in Nat /\ cur \in Sides
           /\ rx \in [Sides -> Nat] /\ tx \in [Sides -> Nat] /\ sent \in [Sides -> Nat]
           /\ got \in [Sides -> Nat] /\ lost \in [Sides -> Nat] /\ early \in [Sides -> Nat]
           /\ BufferSize \in Nat /\ RecvBuf \in Nat /\ SendBuf \in Nat /\ MaxUnits \in Nat
<1>1. BufferSize \in Nat /\ RecvBuf \in Nat /\ SendBuf \in Nat /\ MaxUnits \in Nat
  BY RelayAssumption
<1>2. QED
  BY <1>1 DEF RelayTypeOK

PeerStep(s) == Write(s) \/ Read(s) \/ Finish(s) \/ Vanish(s)

\* Peers and the loop keep the types: no buffer is overrun or underrun.
LEMMA RelayTypeStep ==
    ASSUME RelayTypeOK, EndInv, (\E s \in Sides : PeerStep(s)) \/ Loop
    PROVE  RelayTypeOK'
<1> USE DEF RelayTypeOK
<1>0. 1 \in 1..BufferSize /\ BufferSize \in Nat /\ RecvBuf \in Nat /\ SendBuf \in Nat /\ MaxUnits \in Nat
  BY RelayAssumption
<1>1. ASSUME NEW s \in Sides, Write(s) PROVE RelayTypeOK'
  BY <1>0, <1>1 DEF Write
<1>2. ASSUME NEW s \in Sides, Read(s) PROVE RelayTypeOK'
  BY <1>0, <1>2 DEF Read
<1>3. ASSUME NEW s \in Sides, Finish(s) PROVE RelayTypeOK'
  BY <1>3 DEF Finish
<1>4. ASSUME NEW s \in Sides, Vanish(s) PROVE RelayTypeOK'
  BY <1>0, <1>4, TwoSides DEF Vanish
<1>5. CASE Select \/ SelectTimeout \/ SelectFails
  <2>1. Readable \subseteq Sides
    BY DEF Readable
  <2>2. CASE Select
    BY <2>1, <2>2, TwoSides DEF Select
  <2>3. CASE SelectTimeout \/ SelectFails
    BY <2>3 DEF SelectTimeout, SelectFails, Stop
  <2>4. QED
    BY <1>5, <2>2, <2>3
<1>6. CASE Recv
  BY <1>0, <1>6 DEF Recv
<1>7. CASE RecvEnds
  BY <1>7 DEF RecvEnds, Stop
<1>8. CASE Send
  BY <1>0, <1>8, TwoSides DEF Send, NextSide
<1>9. CASE SendFails
  BY <1>0, <1>9, TwoSides DEF SendFails, Stop
<1>10. CASE Close
  <2>1. rx' \in [Sides -> 0..RecvBuf]
    BY <1>0, <1>10 DEF Close, Zero
  <2>2. tx' \in [Sides -> 0..SendBuf] /\ lost' \in [Sides -> Nat]
    BY <1>0, <1>10, TwoSides DEF Close
  <2>3. QED
    BY <1>10, <2>1, <2>2 DEF Close
<1>11. QED
  BY <1>1, <1>2, <1>3, <1>4, <1>5, <1>6, <1>7, <1>8, <1>9, <1>10 DEF PeerStep, Loop

\* Peers and the loop move units, one buffer to the next, or to lost.
LEMMA ConservationStep ==
    ASSUME RelayTypeOK, Conservation, (\E s \in Sides : PeerStep(s)) \/ Loop
    PROVE  Conservation'
<1> USE DEF Holding
<1> SUFFICES ASSUME NEW t \in Sides
             PROVE  sent'[t] = rx'[t] + Holding(t)' + tx'[Other(t)] + got'[Other(t)]
                                + lost'[Other(t)] + early'[t]
  BY DEF Conservation
<1>0. sent[t] = rx[t] + Holding(t) + tx[Other(t)] + got[Other(t)] + lost[Other(t)] + early[t]
  BY DEF Conservation
<1> DEFINE Goal == sent'[t] = rx'[t] + Holding(t)' + tx'[Other(t)] + got'[Other(t)]
                                + lost'[Other(t)] + early'[t]
<1>1. ASSUME NEW s \in Sides, Write(s) PROVE Goal
  BY <1>0, <1>1, RelayTypes, TwoSides DEF Write
<1>2. ASSUME NEW s \in Sides, Read(s) PROVE Goal
  BY <1>0, <1>2, RelayTypes, TwoSides DEF Read
<1>3. ASSUME NEW s \in Sides, Finish(s) PROVE Goal
  BY <1>0, <1>3 DEF Finish
<1>4. ASSUME NEW s \in Sides, Vanish(s) PROVE Goal
  BY <1>0, <1>4, RelayTypes, TwoSides DEF Vanish
<1>5. CASE Select \/ SelectTimeout \/ SelectFails \/ RecvEnds
  BY <1>0, <1>5 DEF Select, SelectTimeout, SelectFails, RecvEnds, Stop
<1>6. CASE Recv
  BY <1>0, <1>6, RelayTypes, TwoSides DEF Recv
<1>7. CASE Send
  BY <1>0, <1>7, RelayTypes, TwoSides DEF Send, NextSide, RelayTypeOK
<1>8. CASE SendFails
  BY <1>0, <1>8, RelayTypes, TwoSides DEF SendFails, Stop
<1>9. CASE Close
  BY <1>0, <1>9, RelayTypes, TwoSides DEF Close, Zero
<1>10. QED
  BY <1>1, <1>2, <1>3, <1>4, <1>5, <1>6, <1>7, <1>8, <1>9 DEF PeerStep, Loop

\* A handler that ends has a reason, and the side that is the reason is read out.
LEMMA EndStep ==
    ASSUME RelayTypeOK, EndInv, (\E s \in Sides : PeerStep(s)) \/ Loop
    PROVE  EndInv'
<1> USE DEF EndInv, Ended
<1>0. /\ {"client", "remote"} \cap {"none", "idle", "error"} = {} /\ Sides = {"client", "remote"}
      /\ rx \in [Sides -> Nat] /\ tx \in [Sides -> Nat]
      /\ end \in [Sides -> {"none", "open", "half", "gone"}]
  BY RelayTypes DEF Sides, RelayTypeOK
<1>1. ASSUME NEW s \in Sides, Write(s) PROVE EndInv'
  BY <1>0, <1>1 DEF Write
<1>2. ASSUME NEW s \in Sides, Read(s) PROVE EndInv'
  BY <1>0, <1>2 DEF Read
<1>3. ASSUME NEW s \in Sides, Finish(s) \/ Vanish(s) PROVE EndInv'
  BY <1>0, <1>3, TwoSides DEF Finish, Vanish
<1>4. CASE Select \/ SelectTimeout \/ SelectFails
  BY <1>0, <1>4 DEF Select, SelectTimeout, SelectFails, Stop
<1>5. CASE Recv
  BY <1>0, <1>5, RelayTypes DEF Recv
<1>6. CASE RecvEnds
  BY <1>0, <1>6, RelayTypes DEF RecvEnds, Stop
<1>7. CASE Send \/ SendFails
  BY <1>0, <1>7 DEF Send, NextSide, SendFails, Stop
<1>8. CASE Close
  BY <1>0, <1>8 DEF Close, Zero
<1>9. QED
  BY <1>1, <1>2, <1>3, <1>4, <1>5, <1>6, <1>7, <1>8 DEF PeerStep, Loop

\* Units are lost only when a peer is gone or the handler has ended, and the end
\* of one peer's stream loses units of that peer only together with units of the
\* other one.
LEMMA LossStep ==
    ASSUME RelayTypeOK, EndInv, LossHasCause, (\E s \in Sides : PeerStep(s)) \/ Loop
    PROVE  LossHasCause'
<1> USE DEF EndInv, Ended, LossHasCause
<1>0. /\ {"client", "remote"} \cap {"none", "idle", "error"} = {} /\ Sides = {"client", "remote"}
      /\ rx \in [Sides -> Nat] /\ tx \in [Sides -> Nat] /\ lost \in [Sides -> Nat]
      /\ end \in [Sides -> {"none", "open", "half", "gone"}]
  BY RelayTypes DEF Sides, RelayTypeOK
<1>1. ASSUME NEW s \in Sides, Write(s) \/ Read(s) PROVE LossHasCause'
  BY <1>1 DEF Write, Read
<1>2. ASSUME NEW s \in Sides, Finish(s) PROVE LossHasCause'
  BY <1>0, <1>2, TwoSides DEF Finish
<1>3. ASSUME NEW s \in Sides, Vanish(s) PROVE LossHasCause'
  BY <1>0, <1>3, TwoSides DEF Vanish
<1>4. CASE Select \/ SelectTimeout \/ SelectFails \/ Recv
  BY <1>0, <1>4 DEF Select, SelectTimeout, SelectFails, Recv, Stop
<1>5. CASE RecvEnds
  BY <1>0, <1>5, TwoSides DEF RecvEnds, Stop, Zero
<1>6. CASE Send \/ SendFails
  BY <1>0, <1>6 DEF Send, NextSide, SendFails, Stop
<1>7. CASE Close
  BY <1>0, <1>7, TwoSides DEF Close, Zero
<1>8. QED
  BY <1>1, <1>2, <1>3, <1>4, <1>5, <1>6, <1>7 DEF PeerStep, Loop

\* Peers and the loop keep the invariant of the relay.
LEMMA RelayInvStep ==
    ASSUME RelayInv, (\E s \in Sides : PeerStep(s)) \/ Loop
    PROVE  RelayInv'
BY RelayTypeStep, ConservationStep, EndStep, LossStep DEF RelayInv

-----------------------------------------------------------------------------
(* The handshake.                                                          *)

\* What a step before the loop does to the relay: payload that came with a
\* message goes to early, and the handler goes on, connects or ends.
SetupStep ==
    /\ pc = "setup"
    /\ \E over \in 0..rx["client"] :
         /\ rx' = [rx EXCEPT !["client"] = @ - over]
         /\ early' = [early EXCEPT !["client"] = @ + over]
    /\ \/ pc' \in {"setup", "select"} /\ reason' = "none"
       \/ pc' = "closing" /\ reason' = "error"
       \/ /\ pc' = "closing" /\ reason' = "client" /\ UNCHANGED rx
          /\ rx["client"] = 0 /\ end["client"] \in {"half", "gone"}
    /\ end' = end \/ (pc' # "setup" /\ end' = [end EXCEPT !["remote"] = "open"])
    /\ UNCHANGED <<ready, cur, held, tx, sent, got, lost>>

\* Such a step keeps the invariant of the relay.
LEMMA SetupRelayInv ==
    ASSUME RelayInv, SetupStep
    PROVE  RelayInv'
<1> USE DEF RelayInv
<1>0. /\ Sides = {"client", "remote"} /\ RelayTypeOK /\ EndInv
      /\ {"client", "remote"} \cap {"none", "idle", "error"} = {}
  BY DEF Sides
<1>1. RelayTypeOK'
  BY <1>0, RelayTypes DEF RelayTypeOK, SetupStep
<1>2. Conservation'
  <2> SUFFICES ASSUME NEW t \in Sides
               PROVE  sent'[t] = rx'[t] + Holding(t)' + tx'[Other(t)] + got'[Other(t)]
                                  + lost'[Other(t)] + early'[t]
    BY DEF Conservation
  <2>1. sent[t] = rx[t] + Holding(t) + tx[Other(t)] + got[Other(t)] + lost[Other(t)] + early[t]
    BY DEF Conservation
  <2>2. Holding(t) = 0 /\ Holding(t)' = 0
    BY DEF Holding, SetupStep
  <2>3. QED
    BY <2>1, <2>2, <1>0, RelayTypes, TwoSides DEF SetupStep
<1>3. EndInv'
  BY <1>0, RelayTypes DEF EndInv, Ended, SetupStep, RelayTypeOK
<1>4. LossHasCause'
  BY <1>0, TwoSides DEF LossHasCause, EndInv, Ended, SetupStep, RelayTypeOK, Zero
<1>5. QED
  BY <1>1, <1>2, <1>3, <1>4

\* One recv of n units, as SetupStep sees it.
LEMMA TakeMoves ==
    ASSUME TypeOK, NEW p, NEW n, Take(p, n)
    PROVE  /\ n \in Nat /\ n > 0
           /\ \E over \in 0..rx["client"] :
                /\ rx' = [rx EXCEPT !["client"] = @ - over]
                /\ early' = [early EXCEPT !["client"] = @ + over]
           /\ msgs' \in Seq(Messages \X {1, 2}) /\ Len(msgs') <= Len(msgs)
<1>0. /\ rx["client"] \in Nat /\ msgs \in Seq(Messages \X {1, 2}) /\ Len(msgs) \in Nat
  BY RelayTypes DEF TypeOK, Sides
<1>1. n \in 1..(Len(msgs) + rx["client"])
  <2> DEFINE total == Len(msgs) + rx["client"]
             most == IF phase = client.long THEN Least(total, 1) ELSE total
  <2>1. total \in Nat /\ most \in Nat /\ most <= total
    BY <1>0 DEF Least
  <2>2. n \in 1..most
    BY DEF Take, Arrived
  <2> HIDE DEF total, most
  <2>3. n \in 1..total
    BY <2>1, <2>2
  <2>4. QED
    BY <2>3 DEF total
<1> DEFINE over == n - Least(n, Len(msgs))
<1>2. over \in 0..rx["client"]
  BY <1>0, <1>1 DEF Least
<1>3. msgs' = SubSeq(msgs, n + 1, Len(msgs))
  BY DEF Take
<1>4. msgs' \in Seq(Messages \X {1, 2}) /\ Len(msgs') <= Len(msgs)
  BY <1>0, <1>1, <1>3
<1>5. /\ rx' = [rx EXCEPT !["client"] = @ - over]
      /\ early' = [early EXCEPT !["client"] = @ + over]
  BY DEF Take
<1>6. n \in Nat /\ n > 0
  BY <1>0, <1>1
<1>7. QED
  <2> HIDE DEF over
  <2>1. QED
    BY <1>2, <1>4, <1>5, <1>6

\* Every step of the handshake is such a step.
LEMMA HandshakeIsSetup ==
    ASSUME TypeOK, EndInv, Handshake
    PROVE  SetupStep
<1>0. pc = "setup" => reason = "none"
  BY DEF EndInv, Ended
<1>a. rx \in [Sides -> Nat] /\ early \in [Sides -> Nat]
  BY RelayTypes DEF TypeOK
<1>b. /\ rx = [rx EXCEPT !["client"] = @ - 0] /\ early = [early EXCEPT !["client"] = @ + 0]
      /\ 0 \in 0..rx["client"]
  BY <1>a DEF Sides
<1>1. CASE ClientEnds
  BY <1>1, <1>b DEF ClientEnds, SetupStep, Stop
<1>2. CASE ConnectFails \/ Connect
  BY <1>0, <1>2, <1>b DEF ConnectFails, Connect, SetupStep, Stop
<1>3. ASSUME NEW n \in Arrived, NotUnderstood(n) PROVE SetupStep
  <2>1. Take(phase, n) /\ pc = "setup"
    BY <1>3 DEF NotUnderstood, Take
  <2>2. QED
    BY <1>3, <2>1, TakeMoves DEF NotUnderstood, SetupStep, Stop
<1>4. ASSUME NEW n \in Arrived, Greeting(n) PROVE SetupStep
  <2>1. Take("greeting", n) /\ pc = "setup"
    BY <1>4 DEF Greeting, Take
  <2>2. QED
    BY <1>0, <1>4, <2>1, TakeMoves DEF Greeting, SetupStep, Answer, Stop
<1>5. ASSUME NEW n \in Arrived, Auth(n) PROVE SetupStep
  <2>1. Take("auth", n) /\ pc = "setup"
    BY <1>5 DEF Auth, Take
  <2>2. QED
    BY <1>0, <1>5, <2>1, TakeMoves DEF Auth, SetupStep, Answer, Stop
<1>6. ASSUME NEW n \in Arrived, RequestConnect(n) \/ RequestRefused(n) \/ RequestUnknown(n) PROVE SetupStep
  <2>1. Take("request", n) /\ pc = "setup"
    BY <1>6 DEF RequestConnect, RequestRefused, RequestUnknown, Take
  <2>2. QED
    BY <1>0, <1>6, <2>1, TakeMoves DEF RequestConnect, RequestRefused, RequestUnknown, SetupStep, Answer, Stop
<1>7. QED
  BY <1>1, <1>2, <1>3, <1>4, <1>5, <1>6 DEF Handshake

\* Concatenation of sequences.
LEMMA ConcatType ==
    ASSUME NEW S, NEW a \in Seq(S), NEW b \in Seq(S)
    PROVE  a \o b \in Seq(S) /\ Len(a \o b) = Len(a) + Len(b)
OBVIOUS

\* The script names messages.
LEMMA ScriptType ==
    Len(Script) \in Nat /\ \A k \in 1..Len(Script) : Script[k] \in Messages
<1>1. CASE ~mode.socks
  BY <1>1 DEF Script, Messages
<1>2. CASE mode.socks /\ mode.auth
  BY <1>2 DEF Script, Messages
<1>3. CASE mode.socks /\ ~mode.auth
  BY <1>3 DEF Script, Messages
<1>4. QED
  BY <1>1, <1>2, <1>3

\* The variables of the handshake keep their types.
LEMMA SetupTypeStep ==
    ASSUME TypeOK, RelayTypeOK', [Next]_vars
    PROVE  TypeOK'
<1> USE DEF TypeOK, setupVars
<1>0. /\ Len(Script) \in Nat /\ step \in Nat /\ step <= Len(Script)
      /\ msgs \in Seq(Messages \X {1, 2}) /\ Len(msgs) \in Nat /\ Len(msgs) <= 2 * step
      /\ told \in Seq({"method", "welcome", "success", "refused"})
  BY ScriptType
<1>1. ASSUME UNCHANGED <<setupVars, mode, client>> PROVE TypeOK'
  <2>1. Script' = Script
    BY <1>1 DEF Script
  <2>2. QED
    BY <1>1, <2>1
<1>2. CASE ClientSends
  <2>1. Script' = Script
    BY <1>2 DEF Script, ClientSends
  <2>2. Script[step + 1] \in Messages /\ step + 1 \in 0..Len(Script)
    BY <1>0, <1>2, ScriptType DEF ClientSends
  <2> DEFINE m == <<<<Script[step + 1], 1>>, <<Script[step + 1], 2>>>>
  <2>3. m \in Seq(Messages \X {1, 2}) /\ Len(m) = 2
    BY <2>2
  <2>4. msgs' \in Seq(Messages \X {1, 2}) /\ Len(msgs') = Len(msgs) + 2
    <3>1. msgs' = msgs \o m
      BY <1>2 DEF ClientSends
    <3> HIDE DEF m
    <3>2. QED
      BY <1>0, <2>3, <3>1, ConcatType
  <2>5. QED
    BY <1>0, <1>2, <2>1, <2>2, <2>4 DEF ClientSends
<1>3. CASE Handshake
  <2>1. mode' = mode /\ client' = client /\ step' = step
    BY <1>3 DEF Handshake, ClientEnds, NotUnderstood, Greeting, Auth, RequestConnect, RequestRefused,
                RequestUnknown, ConnectFails, Connect
  <2>2. Script' = Script
    BY <2>1 DEF Script
  <2>3. msgs' \in Seq(Messages \X {1, 2}) /\ Len(msgs') <= Len(msgs)
    <3>1. CASE \E n, p : Take(p, n)
      BY <3>1, TakeMoves
    <3>2. CASE ClientEnds \/ ConnectFails \/ Connect
      BY <1>0, <3>2 DEF ClientEnds, ConnectFails, Connect
    <3>3. QED
      BY <1>3, <3>1, <3>2 DEF Handshake, NotUnderstood, Greeting, Auth, RequestConnect, RequestRefused,
                              RequestUnknown
  <2>4. Len(msgs') <= 2 * step'
    BY <1>0, <2>1, <2>3
  <2>5. told' \in Seq({"method", "welcome", "success", "refused"})
    <3>1. \E r \in {"method", "welcome", "success", "refused"} : told' = told \/ told' = Append(told, r)
      BY <1>3 DEF Handshake, ClientEnds, NotUnderstood, Greeting, Auth, RequestConnect,
                  RequestRefused, RequestUnknown, ConnectFails, Connect, Answer
    <3>2. QED
      BY <1>0, <3>1
  <2>6. phase' \in Messages \cup {"connect"}
    BY <1>3 DEF Handshake, ClientEnds, NotUnderstood, Greeting, Auth, RequestConnect, RequestRefused,
                RequestUnknown, ConnectFails, Connect, Answer, Method, Messages
  <2>7. authenticated' \in BOOLEAN
    BY <1>3 DEF Handshake, ClientEnds, NotUnderstood, Greeting, Auth, RequestConnect, RequestRefused,
                RequestUnknown, ConnectFails, Connect
  <2>8. QED
    BY <2>1, <2>2, <2>3, <2>4, <2>5, <2>6, <2>7
<1>4. QED
  BY <1>1, <1>2, <1>3 DEF Next, PeerWrites, PeerReads, Peer, RelayStep, Over, vars

\* Only a verified client gets beyond "auth", and a connection needs that.
LEMMA VerifiedStep ==
    ASSUME TypeOK, EndInv, VerifiedInv, NoConnectionUnverified, [Next]_vars
    PROVE  VerifiedInv' /\ NoConnectionUnverified'
<1> USE DEF VerifiedInv, NoConnectionUnverified, setupVars
<1>0. end \in [Sides -> {"none", "open", "half", "gone"}] /\ Sides = {"client", "remote"}
  BY DEF TypeOK, RelayTypeOK, Sides
<1>1. CASE ClientSends
  BY <1>1 DEF ClientSends, relayVars
<1>2. ASSUME NEW s \in Sides, PeerWrites(s) \/ PeerReads(s) \/ Peer(s)
      PROVE  VerifiedInv' /\ NoConnectionUnverified'
  BY <1>0, <1>2 DEF PeerWrites, PeerReads, Peer, Write, Read, Finish, Vanish
<1>3. CASE ClientEnds \/ ConnectFails
  BY <1>3 DEF ClientEnds, ConnectFails, Stop
<1>4. CASE Connect
  BY <1>4 DEF Connect, Stop
<1>5. ASSUME NEW n \in Arrived, NotUnderstood(n) \/ RequestUnknown(n) \/ RequestRefused(n)
      PROVE  VerifiedInv' /\ NoConnectionUnverified'
  BY <1>5 DEF NotUnderstood, RequestUnknown, RequestRefused, Answer, Stop
<1>6. ASSUME NEW n \in Arrived, RequestConnect(n)
      PROVE  VerifiedInv' /\ NoConnectionUnverified'
  BY <1>6 DEF RequestConnect, Take
<1>7. ASSUME NEW n \in Arrived, Greeting(n)
      PROVE  VerifiedInv' /\ NoConnectionUnverified'
  <2>1. phase = "greeting" /\ (mode.auth => Method \in {"auth", "refused"})
    BY <1>7 DEF Greeting, Take, Method
  <2>2. QED
    BY <1>7, <2>1 DEF Greeting, Answer, Stop
<1>8. ASSUME NEW n \in Arrived, Auth(n)
      PROVE  VerifiedInv' /\ NoConnectionUnverified'
  <2>1. pc = "setup" /\ phase = "auth" /\ end["remote"] = "none" /\ UNCHANGED <<end, mode, client>>
    BY <1>8 DEF Auth, Take, EndInv
  <2>2. phase' = "request" => (client.valid /\ end["client"] # "gone")
    BY <1>8, <2>1 DEF Auth, Answer
  <2>3. phase' # "request" => phase' = "auth"
    BY <1>8, <2>1 DEF Auth, Answer
  <2>4. authenticated' = (client.valid /\ end["client"] # "gone")
    BY <1>8 DEF Auth
  <2>5. QED
    BY <2>1, <2>2, <2>3, <2>4
<1>9. CASE RelayStep
  BY <1>9 DEF RelayStep, Loop, Select, SelectTimeout, SelectFails, Recv, RecvEnds, Send, SendFails, Close
<1>10. CASE UNCHANGED vars
  BY <1>10 DEF vars, relayVars
<1>11. QED
  BY <1>1, <1>2, <1>3, <1>4, <1>5, <1>6, <1>7, <1>8, <1>9, <1>10 DEF Next, Handshake, Over

-----------------------------------------------------------------------------
(* Theorems.                                                               *)

\* The invariant holds when the connection is accepted.
LEMMA TunnelInvInit ==
    ASSUME Init
    PROVE  TunnelInv
<1>1. RelayTypeOK
  BY RelayAssumption DEF Init, RelayInit, RelayTypeOK, Sides, Zero
<1>2. Conservation /\ EndInv /\ LossHasCause
  BY DEF Init, RelayInit, Conservation, EndInv, LossHasCause, Holding, Ended, Sides, Other, Zero
<1>3. Len(Script) \in Nat
  BY ScriptType
<1>4. TypeOK
  <2>1. step \in 0..Len(Script) /\ msgs = <<>> /\ Len(msgs) <= 2 * step /\ told = <<>>
    BY <1>3 DEF Init
  <2>2. phase \in Messages \cup {"connect"} /\ authenticated \in BOOLEAN
    BY DEF Init, Messages
  <2>3. QED
    BY <1>1, <2>1, <2>2 DEF Init, TypeOK
<1>5. VerifiedInv /\ NoConnectionUnverified
  BY DEF Init, RelayInit, VerifiedInv, NoConnectionUnverified
<1>6. QED
  BY <1>1, <1>2, <1>4, <1>5 DEF TunnelInv, RelayInv

\* The invariant holds in every state of a connection.
THEOREM TunnelInvariant == Spec => []TunnelInv
<1>1. ASSUME TunnelInv, [Next]_vars PROVE TunnelInv'
  <2>1. RelayInv'
    <3>1. CASE Handshake
      BY <1>1, <3>1, HandshakeIsSetup, SetupRelayInv DEF TunnelInv, RelayInv
    <3>2. CASE (\E s \in Sides : PeerStep(s)) \/ Loop
      BY <1>1, <3>2, RelayInvStep DEF TunnelInv
    <3>3. CASE UNCHANGED relayVars
      BY <1>1, <3>3
      DEF TunnelInv, RelayInv, RelayTypeOK, Conservation, EndInv, LossHasCause, Holding, relayVars
    <3>4. QED
      BY <1>1, <3>1, <3>2, <3>3
      DEF Next, ClientSends, PeerWrites, PeerReads, Peer, PeerStep, RelayStep, Over, vars
  <2>2. TypeOK'
    BY <1>1, <2>1, SetupTypeStep DEF TunnelInv, RelayInv
  <2>3. QED
    BY <1>1, <2>1, <2>2, VerifiedStep DEF TunnelInv, RelayInv
<1>2. QED
  BY <1>1, TunnelInvInit, PTL DEF Spec

\* Type correctness: no buffer is overrun, whatever the handler and peers do.
THEOREM TunnelTypeCorrect == Spec => []TypeOK
BY TunnelInvariant, PTL DEF TunnelInv

\* No unit is dropped, made up or sent twice by the relay loop or by the
\* handshake before it.
THEOREM ConservationTheorem == Spec => []Conservation
BY TunnelInvariant, PTL DEF TunnelInv, RelayInv

\* Units are lost only for the causes the loop's early ends give.
THEOREM LossTheorem == Spec => []LossHasCause
BY TunnelInvariant, PTL DEF TunnelInv, RelayInv

\* socks5_handle connects only for clients whose credentials were verified.
THEOREM VerifiedTheorem == Spec => []NoConnectionUnverified
BY TunnelInvariant, PTL DEF TunnelInv
=============================================================================
