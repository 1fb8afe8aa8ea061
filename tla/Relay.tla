-------------------------------- MODULE Relay --------------------------------
(***************************************************************************)
(* The bidirectional relay loop.  src/core/connection.c (TCP and reverse   *)
(* mode), src/protocols/http.c (CONNECT) and src/protocols/socks5.c hold    *)
(* the same loop: select on both sockets, then one recv and one send_all   *)
(* per readable socket, the client's first; it ends at the first select,   *)
(* recv or send that fails or returns nothing, and both sockets are closed.*)
(*                                                                         *)
(* Data are units of a byte stream.  A socket holds at most RecvBuf units   *)
(* that arrived and SendBuf units on their way to the peer; send blocks    *)
(* while these are full.  A peer may end its stream and go on reading      *)
(* ("half") or leave ("gone"), and then what it was sent is lost.          *)
(***************************************************************************)
EXTENDS Naturals, FiniteSets

CONSTANTS BufferSize,   \* BUFFER_SIZE: the most one recv takes
          RecvBuf,      \* the kernel's buffers of a socket
          SendBuf,
          MaxUnits      \* bound on what a peer writes

ASSUME RelayAssumption == {BufferSize, RecvBuf, SendBuf, MaxUnits} \subseteq Nat \ {0}

VARIABLES
    pc,        \* where the handler is in the loop
    ready,     \* readfds
    cur,       \* the side it reads from
    held,      \* units received and not yet sent
    rx,        \* units received from each side, not read by the handler
    tx,        \* units accepted by send, not read by each side
    sent, got, \* units each side has written, has read
    lost,      \* units for each side that it will not get
    early,     \* units of each side that were read before the loop started
    end,       \* how each side's stream stands
    reason     \* why the handler ended: a side's end, or "none", "idle", "error"

relayVars == <<pc, ready, cur, held, rx, tx, sent, got, lost, early, end, reason>>

Sides == {"client", "remote"}
Other(s) == IF s = "client" THEN "remote" ELSE "client"
Zero == [s \in Sides |-> 0]

RelayInit ==
    /\ pc = "setup"
    /\ ready = {} /\ cur = "client" /\ held = 0
    /\ rx = Zero /\ tx = Zero /\ sent = Zero /\ got = Zero /\ lost = Zero
    /\ early = Zero
    /\ end = [client |-> "open", remote |-> "none"]
    /\ reason = "none"

-----------------------------------------------------------------------------
(* The peers.                                                              *)

Write(s) ==
    /\ pc # "closed" /\ end[s] = "open"
    /\ sent[s] < MaxUnits /\ rx[s] < RecvBuf
    /\ sent' = [sent EXCEPT ![s] = @ + 1]
    /\ rx' = [rx EXCEPT ![s] = @ + 1]
    /\ UNCHANGED <<early, pc, ready, cur, held, tx, got, lost, end, reason>>

Read(s) ==
    /\ end[s] \in {"open", "half"} /\ tx[s] > 0
    /\ tx' = [tx EXCEPT ![s] = @ - 1]
    /\ got' = [got EXCEPT ![s] = @ + 1]
    /\ UNCHANGED <<early, pc, ready, cur, held, rx, sent, lost, end, reason>>

Finish(s) ==
    /\ end[s] = "open"
    /\ end' = [end EXCEPT ![s] = "half"]
    /\ UNCHANGED <<early, pc, ready, cur, held, rx, tx, sent, got, lost, reason>>

\* The peer closes its socket; when it resets the connection, what the handler
\* has not read yet is dropped too.
Vanish(s) ==
    /\ end[s] \in {"open", "half"} /\ pc # "closed"
    /\ end' = [end EXCEPT ![s] = "gone"]
    /\ tx' = [tx EXCEPT ![s] = 0]
    /\ \/ /\ lost' = [lost EXCEPT ![s] = @ + tx[s]]
          /\ UNCHANGED rx
       \/ /\ rx[s] > 0
          /\ lost' = [lost EXCEPT ![s] = @ + tx[s], ![Other(s)] = @ + rx[s]]
          /\ rx' = [rx EXCEPT ![s] = 0]
    /\ UNCHANGED <<early, pc, ready, cur, held, sent, got, reason>>

-----------------------------------------------------------------------------
(* The handler.                                                            *)

\* Stop for reason why; connection_destroy follows.
Stop(why) == pc' = "closing" /\ reason' = why

Readable == {s \in Sides : rx[s] > 0 \/ end[s] \in {"half", "gone"}}

\* Faulty variant: the client's socket is read whether it is ready or not.
SelectClient ==
    /\ pc = "select" /\ Readable # {}
    /\ ready' = Readable \cup {"client"}
    /\ cur' = "client"
    /\ pc' = "recv"
    /\ UNCHANGED <<early, held, rx, tx, sent, got, lost, end, reason>>

Select ==
    /\ pc = "select" /\ Readable # {}
    /\ ready' = Readable
    /\ cur' = IF "client" \in Readable THEN "client" ELSE "remote"
    /\ pc' = "recv"
    /\ UNCHANGED <<early, held, rx, tx, sent, got, lost, end, reason>>

\* 30 or 300 seconds without a readable socket.
SelectTimeout ==
    /\ pc = "select" /\ Readable = {}
    /\ Stop("idle")
    /\ UNCHANGED <<early, ready, cur, held, rx, tx, sent, got, lost, end>>

\* select fails: a signal arrived.
SelectFails ==
    /\ pc = "select"
    /\ Stop("error")
    /\ UNCHANGED <<early, ready, cur, held, rx, tx, sent, got, lost, end>>

Recv ==
    /\ pc = "recv"
    /\ \E n \in 1..BufferSize :
         /\ n <= rx[cur]
         /\ rx' = [rx EXCEPT ![cur] = @ - n]
         /\ held' = n
    /\ pc' = "send"
    /\ UNCHANGED <<early, ready, cur, tx, sent, got, lost, end, reason>>

\* Faulty variant: the end of a stream is noticed before its data are read.
RecvEndsEarly ==
    /\ pc = "recv" /\ end[cur] \in {"half", "gone"}
    /\ Stop(cur)
    /\ UNCHANGED <<early, ready, cur, held, rx, tx, sent, got, lost, end>>

\* Faulty variant: recv returning 0 is not taken for the end.
RecvGoesOn ==
    /\ pc = "recv" /\ rx[cur] = 0 /\ end[cur] \in {"half", "gone"}
    /\ pc' = "select"
    /\ UNCHANGED <<early, ready, cur, held, rx, tx, sent, got, lost, end, reason>>

\* recv returns 0 or an error.
RecvEnds ==
    /\ pc = "recv" /\ rx[cur] = 0 /\ end[cur] \in {"half", "gone"}
    /\ Stop(cur)
    /\ UNCHANGED <<early, ready, cur, held, rx, tx, sent, got, lost, end>>

\* After the client's data those of the remote, if select found any.
NextSide ==
    IF cur = "client" /\ "remote" \in ready
    THEN cur' = "remote" /\ pc' = "recv"
    ELSE cur' = cur /\ pc' = "select"

\* Faulty variant: what send did not take is forgotten.
SendOnce ==
    /\ pc = "send" /\ end[Other(cur)] # "gone" /\ tx[Other(cur)] < SendBuf
    /\ tx' = [tx EXCEPT ![Other(cur)] = @ + 1]
    /\ held' = 0
    /\ NextSide
    /\ UNCHANGED <<early, ready, rx, sent, got, lost, end, reason>>

\* send takes a unit, and send_all goes on until it has taken all of them.
Send ==
    /\ pc = "send" /\ end[Other(cur)] # "gone" /\ tx[Other(cur)] < SendBuf
    /\ tx' = [tx EXCEPT ![Other(cur)] = @ + 1]
    /\ held' = held - 1
    /\ IF held > 1 THEN UNCHANGED <<pc, cur>> ELSE NextSide
    /\ UNCHANGED <<early, ready, rx, sent, got, lost, end, reason>>

SendFails ==
    /\ pc = "send" /\ end[Other(cur)] = "gone"
    /\ lost' = [lost EXCEPT ![Other(cur)] = @ + held]
    /\ held' = 0
    /\ Stop("error")
    /\ UNCHANGED <<early, ready, cur, rx, tx, sent, got, end>>

\* connection_destroy.  What was not read is lost; closing a socket with unread
\* data resets the connection, and its peer may not get what it was sent.
Close ==
    /\ pc = "closing"
    /\ pc' = "closed"
    /\ \E reset \in SUBSET {s \in Sides : rx[s] > 0} :
         /\ lost' = [s \in Sides |-> lost[s] + rx[Other(s)] + (IF s \in reset THEN tx[s] ELSE 0)]
         /\ tx' = [s \in Sides |-> IF s \in reset THEN 0 ELSE tx[s]]
    /\ rx' = Zero
    /\ UNCHANGED <<early, ready, cur, held, sent, got, end, reason>>

Loop ==
    \/ Select \/ SelectTimeout \/ SelectFails
    \/ Recv \/ RecvEnds
    \/ Send \/ SendFails
    \/ Close

-----------------------------------------------------------------------------
(* Properties.                                                             *)

RelayTypeOK ==
    /\ pc \in {"setup", "select", "recv", "send", "closing", "closed"}
    /\ ready \subseteq Sides /\ cur \in Sides
    /\ held \in 0..BufferSize /\ (held > 0 <=> pc = "send")
    /\ rx \in [Sides -> 0..RecvBuf] /\ tx \in [Sides -> 0..SendBuf]
    /\ sent \in [Sides -> 0..MaxUnits]
    /\ {got, lost, early} \subseteq [Sides -> Nat]
    /\ end \in [Sides -> {"none", "open", "half", "gone"}]
    /\ reason \in Sides \cup {"none", "idle", "error"}

Holding(s) == IF pc = "send" /\ cur = s THEN held ELSE 0

\* No unit is dropped, made up or sent twice, through short receives, partial
\* sends, blocked sends and failures: what a side wrote is with the other side,
\* or in one of the buffers between them, or accounted for as lost.
Conservation ==
    \A s \in Sides :
        sent[s] = rx[s] + Holding(s) + tx[Other(s)] + got[Other(s)]
                    + lost[Other(s)] + early[s]

\* Nothing is lost while the relay goes on and both peers are there; and when
\* a peer's own end of stream ends the relay, all that it wrote was sent on,
\* even if it was written long before: the data of its last write are lost
\* only if the connection is reset because the other side was still writing.
LossHasCause ==
    /\ (reason = "none" /\ \A s \in Sides : end[s] # "gone") =>
          lost = Zero
    /\ \A s \in Sides :
          (reason = s /\ end[s] = "half" /\ end[Other(s)] # "gone" /\ lost[s] = 0) =>
             lost[Other(s)] = 0

\* Nothing stays in the buffers: with peers that go on reading, neither
\* direction starves or blocks the other for ever, and of what a peer writes
\* every unit is read by the other side, unless it is lost.
Delivered ==
    \A s \in Sides, k \in 1..MaxUnits :
        (sent[s] >= k) ~> (got[Other(s)] + lost[Other(s)] + early[s] >= k)

\* Once one peer ends its stream or leaves, the handler ends, also if it was
\* blocked in a send at that time.
RelayEnds == \A s \in Sides : (end[s] \in {"half", "gone"}) ~> (pc = "closed")
==============================================================================
