----------------------------- MODULE UdpSessions -----------------------------
(***************************************************************************)
(* UDP clients of iperf2 and a server, over a network that loses and       *)
(* reorders datagrams: the accept that the listener simulates for UDP      *)
(* (Listener.cpp, active_hosts.cpp), the traffic thread it starts for each *)
(* flow (Server.cpp), and the exchange at the end of a flow (Client.cpp,   *)
(* write_UDP_AckFIN of Reports.c).                                         *)
(*                                                                         *)
(* A datagram is <<client, packetID>>; a negative packetID ends the flow.  *)
(* An answer of the server is <<session, content>>: Statistics stands for  *)
(* what the session has counted, any other content is a datagram of the    *)
(* client.  A socket is the set of datagrams in its queue, which are read  *)
(* in any order.                                                           *)
(***************************************************************************)
EXTENDS Integers, Sequences, FiniteSets

CONSTANTS Clients,     \* a client is one address and port
          Traffics,    \* what each of them may send before it ends the flow,
                       \* 0 for a client that is not run
          RetryCount,  \* RETRYCOUNT, 200
          TryCount,    \* TRYCOUNT - 1, 9
          Counts,      \* values of -P for the server, -1 without it
          MaxSessions  \* bound on the accepts

ASSUME SessionsAssumption ==
  /\ Traffics \subseteq [Clients -> Nat] /\ RetryCount \in Nat
  /\ TryCount \in Nat \ {0} /\ Counts \subseteq (Nat \ {0}) \cup {-1}
  /\ MaxSessions \in Nat

VARIABLES datagrams,  \* what each client sends
          client,     \* where each client is
          packetID,   \* its reportstruct->packetID
          left,       \* how often it tries to read the server's answer yet
          report,     \* the answer that it has read, <<>> for none
          net,        \* datagrams on their way to the server
          acks,       \* answers on their way to the clients
          listener,   \* where the listener is
          listening,  \* ListenSocket is bound
          queue,      \* of ListenSocket
          drain,      \* drainstalepkts
          accepted,   \* the datagram that udp_accept has taken, <<>> for none
          mCount,     \* accepts left, -1 for no limit
          flows,      \* active_table.flow_root
          sessions,   \* the sockets and traffic threads, in order of accept
          lost,       \* history: the data that nobody has counted
          late        \* history: data was under way when its flow was ended

peers  == <<datagrams, client, packetID, left, report>>
wire   == <<net, acks>>
accept == <<listener, listening, queue, drain, accepted, mCount>>
vars == <<peers, wire, accept, flows, sessions, lost, late>>

\* What is in the answer when nothing has been read over it.
Statistics == <<>>

IsData(x) == x[2] > 0
DataOf(xs) == {x \in xs : IsData(x)}

Init ==
  /\ datagrams \in Traffics
  /\ client = [c \in Clients |-> IF datagrams[c] = 0 THEN "done" ELSE "send"]
  /\ packetID = [c \in Clients |-> 1]
  /\ left = [c \in Clients |-> RetryCount]
  /\ report = [c \in Clients |-> <<>>]
  /\ net = {} /\ acks = {}
  /\ listener = "receive" /\ listening = TRUE /\ queue = {}
  /\ drain = TRUE /\ accepted = <<>>
  /\ mCount \in Counts
  /\ flows = {} /\ sessions = <<>>
  /\ lost = {} /\ late = FALSE
-----------------------------------------------------------------------------
(* The client.                                                             *)

Send(c) ==
  /\ client[c] = "send" /\ packetID[c] <= datagrams[c]
  /\ net' = net \cup {<<c, packetID[c]>>}
  /\ packetID' = [packetID EXCEPT ![c] = @ + 1]
  /\ UNCHANGED <<datagrams, client, left, report, acks, accept, flows,
                 sessions, lost, late>>

Finish(c) ==
  /\ client[c] = "send" /\ packetID[c] > datagrams[c]
  /\ net' = net \cup {<<c, -packetID[c]>>}
  /\ client' = [client EXCEPT ![c] = "await"]
  /\ UNCHANGED <<datagrams, packetID, left, report, acks, accept, flows,
                 sessions, lost, late>>

\* select has timed out.  That it returns for an error of the socket, and
\* nothing is written, is as if the datagram were lost.
Retry(c) ==
  /\ client[c] = "await" /\ left[c] > 0
  /\ left' = [left EXCEPT ![c] = @ - 1]
  /\ packetID' = [packetID EXCEPT ![c] = @ + 1]
  /\ net' = net \cup {<<c, -packetID'[c]>>}
  /\ UNCHANGED <<datagrams, client, report, acks, accept, flows, sessions, lost,
                 late>>

ReadAnswer(c) ==
  /\ client[c] = "await" /\ left[c] > 0
  /\ \E a \in acks :
       /\ sessions[a[1]].peer = c
       /\ report' = [report EXCEPT ![c] = a]
       /\ acks' = acks \ {a}
  /\ client' = [client EXCEPT ![c] = "done"]
  /\ UNCHANGED <<datagrams, packetID, left, net, accept, flows, sessions, lost,
                 late>>

GiveUp(c) ==
  /\ client[c] = "await" /\ left[c] = 0
  /\ client' = [client EXCEPT ![c] = "done"]
  /\ UNCHANGED <<datagrams, packetID, left, report, wire, accept, flows,
                 sessions, lost, late>>

Client(c) == Send(c) \/ Finish(c) \/ Retry(c) \/ ReadAnswer(c) \/ GiveUp(c)
-----------------------------------------------------------------------------
(* The network and the sockets.                                            *)

Open(s) ==
  sessions[s].pc \in {"accepted", "receive", "ack", "silence", "close"}

\* A socket that is connected to the sender is preferred to the one that
\* listens; a datagram for which there is none is refused.
Deliver(x) ==
  /\ x \in net
  /\ net' = net \ {x}
  /\ LET open == {s \in DOMAIN sessions : sessions[s].peer = x[1] /\ Open(s)}
     IN \/ /\ open # {}
           /\ \E s \in open :
                sessions' = [sessions EXCEPT ![s].queue = @ \cup {x}]
           /\ UNCHANGED <<queue, lost>>
        \/ /\ open = {} /\ listening
           /\ queue' = queue \cup {x}
           /\ UNCHANGED <<sessions, lost>>
        \/ /\ open = {} /\ ~listening
           /\ lost' = lost \cup DataOf({x})
           /\ UNCHANGED <<sessions, queue>>
  /\ UNCHANGED <<peers, acks, listener, listening, drain, accepted, mCount,
                 flows, late>>

Lose ==
  /\ \/ /\ \E x \in net : net' = net \ {x} /\ lost' = lost \cup DataOf({x})
        /\ UNCHANGED acks
     \/ /\ \E a \in acks : acks' = acks \ {a}
        /\ UNCHANGED <<net, lost>>
  /\ UNCHANGED <<peers, accept, flows, sessions, late>>

\* The client has closed its socket: the server reads an error that ends its
\* wait.
Refuse ==
  /\ \E a \in acks :
       /\ client[sessions[a[1]].peer] = "done"
       /\ sessions[a[1]].pc = "silence"
       /\ acks' = acks \ {a}
       /\ sessions' = [sessions EXCEPT ![a[1]].pc = "close"]
  /\ UNCHANGED <<peers, net, accept, flows, lost, late>>
-----------------------------------------------------------------------------
(* udp_accept and the loop of the listener.                                *)

\* A datagram with a negative packetID is drained, unless one with a positive
\* packetID has been dropped before it in the same udp_accept.
Drain(x) ==
  /\ listener = "receive" /\ x \in queue
  /\ ~IsData(x) /\ drain
  /\ queue' = queue \ {x}
  /\ UNCHANGED <<peers, wire, listener, listening, drain, accepted, mCount,
                 flows, sessions, lost, late>>

Received(x) == listener = "receive" /\ x \in queue /\ (IsData(x) \/ ~drain)

\* The peer is in the table of flows.
Iperf_flow_present(peer) == peer \in flows

\* Iperf_push_host refuses a flow that is active.
DropDuplicate(x) ==
  /\ Received(x) /\ Iperf_flow_present(x[1])
  /\ queue' = queue \ {x}
  /\ drain' = FALSE
  /\ lost' = lost \cup DataOf({x})
  /\ UNCHANGED <<peers, wire, listener, listening, accepted, mCount, flows,
                 sessions, late>>

\* Mutant: the answer of Iperf_push_host is ignored.
NewFlowAlways(x) ==
  /\ Received(x)
  /\ Len(sessions) < MaxSessions
  /\ queue' = queue \ {x}
  /\ drain' = FALSE
  /\ flows' = flows \cup {x[1]}
  /\ accepted' = x
  /\ listener' = "connect"
  /\ UNCHANGED <<peers, wire, listening, mCount, sessions, lost, late>>

NewFlow(x) ==
  /\ Received(x) /\ ~Iperf_flow_present(x[1])
  /\ Len(sessions) < MaxSessions
  /\ queue' = queue \ {x}
  /\ drain' = FALSE
  /\ flows' = flows \cup {x[1]}
  /\ accepted' = x
  /\ listener' = "connect"
  /\ UNCHANGED <<peers, wire, listening, mCount, sessions, lost, late>>

\* Mutant: the datagram that the listener has read is not accounted.
ConnectUncounted ==
  /\ listener = "connect"
  /\ sessions' = Append(sessions,
       [peer |-> accepted[1], pc |-> "accepted", queue |-> queue,
        got |-> {}, tries |-> TryCount, answer |-> Statistics])
  /\ listening' = FALSE /\ queue' = {}
  /\ listener' = "listen"
  /\ UNCHANGED <<peers, wire, drain, accepted, mCount, flows, lost, late>>

\* ListenSocket becomes the socket of the session, with all that is queued in
\* it, whoever has sent it.
Connect ==
  /\ listener = "connect"
  /\ sessions' = Append(sessions,
       [peer |-> accepted[1], pc |-> "accepted", queue |-> queue,
        got |-> {accepted}, tries |-> TryCount, answer |-> Statistics])
  /\ listening' = FALSE /\ queue' = {}
  /\ listener' = "listen"
  /\ UNCHANGED <<peers, wire, drain, accepted, mCount, flows, lost, late>>

\* A thread whose first datagram is a negative one does not receive any more.
Begun(session) == IF \A x \in session.got : IsData(x) THEN "receive" ELSE "ack"

\* The next ListenSocket is bound, unless this was the last accept, and the
\* traffic thread is started.
Spawn ==
  /\ listener = "listen"
  /\ LET s == Len(sessions)
     IN sessions' = [sessions EXCEPT ![s].pc = Begun(sessions[s])]
  /\ listening' = (mCount # 1)
  /\ mCount' = IF mCount > 0 THEN mCount - 1 ELSE mCount
  /\ listener' = IF mCount' = 0 THEN "done" ELSE "receive"
  /\ drain' = TRUE /\ accepted' = <<>>
  /\ UNCHANGED <<peers, wire, queue, flows, lost, late>>

Listener(x) == Drain(x) \/ DropDuplicate(x) \/ NewFlow(x)
-----------------------------------------------------------------------------
(* The traffic thread.                                                     *)

\* Data of a client that has not been read yet.
Pending(c) ==
  {x \in net \cup queue \cup UNION {sessions[s].queue : s \in DOMAIN sessions} :
     x[1] = c /\ IsData(x)}

Read(s, x) ==
  /\ sessions[s].pc = "receive" /\ x \in sessions[s].queue
  /\ sessions' = [sessions EXCEPT
       ![s].queue = @ \ {x},
       ![s].got = @ \cup {x},
       ![s].pc = IF IsData(x) THEN "receive" ELSE "ack"]
  /\ late' = (late \/ (~IsData(x) /\ Pending(x[1]) # {}))
  /\ UNCHANGED <<peers, wire, accept, flows, lost>>

Answer(s) ==
  /\ sessions[s].pc = "ack"
  /\ acks' = acks \cup {<<s, sessions[s].answer>>}
  /\ sessions' = [sessions EXCEPT ![s].pc = "silence"]
  /\ UNCHANGED <<peers, net, accept, flows, lost, late>>

Silence(s) ==
  /\ sessions[s].pc = "silence" /\ sessions[s].queue = {}
  /\ sessions' = [sessions EXCEPT ![s].pc = "close"]
  /\ UNCHANGED <<peers, wire, accept, flows, lost, late>>

\* A datagram that breaks the silence is not counted.  It is read into
\* ackPacket, which is sent again.
Repeat(s, x) ==
  /\ sessions[s].pc = "silence" /\ x \in sessions[s].queue
  /\ sessions' = [sessions EXCEPT
       ![s].queue = @ \ {x},
       ![s].answer = x,
       ![s].tries = @ - 1,
       ![s].pc = IF sessions[s].tries > 1 THEN "ack" ELSE "close"]
  /\ lost' = lost \cup DataOf({x})
  /\ UNCHANGED <<peers, wire, accept, flows, late>>

Close(s) ==
  /\ sessions[s].pc = "close"
  /\ sessions' = [sessions EXCEPT ![s].pc = "remove", ![s].queue = {}]
  /\ lost' = lost \cup DataOf(sessions[s].queue)
  /\ UNCHANGED <<peers, wire, accept, flows, late>>

Remove(s) ==
  /\ sessions[s].pc = "remove"
  /\ flows' = flows \ {sessions[s].peer}
  /\ sessions' = [sessions EXCEPT ![s].pc = "gone"]
  /\ UNCHANGED <<peers, wire, accept, lost, late>>

Server(s) ==
  \/ \E x \in sessions[s].queue : Read(s, x) \/ Repeat(s, x)
  \/ Answer(s) \/ Silence(s) \/ Close(s) \/ Remove(s)
-----------------------------------------------------------------------------
Next ==
  \/ \E c \in Clients : Client(c)
  \/ \E x \in net : Deliver(x)
  \/ Lose \/ Refuse
  \/ \E x \in queue : Listener(x)
  \/ Connect \/ Spawn
  \/ \E s \in DOMAIN sessions : Server(s)

Spec == Init /\ [][Next]_vars
-----------------------------------------------------------------------------
\* The types of the variables.
TypeOK ==
  /\ client \in [Clients -> {"send", "await", "done"}]
  /\ \A c \in Clients : packetID[c] \in 1 .. datagrams[c] + RetryCount + 1
  /\ left \in [Clients -> 0 .. RetryCount]
  /\ \A a \in acks : a[1] \in DOMAIN sessions
  /\ \A c \in Clients :
       report[c] = <<>> \/ report[c][1] \in DOMAIN sessions
  /\ listener \in {"receive", "connect", "listen", "done"}
  /\ {listening, drain, late} \subseteq BOOLEAN
  /\ mCount \in Nat \cup {-1}
  /\ flows \subseteq Clients
  /\ \A s \in DOMAIN sessions :
       /\ sessions[s].peer \in Clients
       /\ sessions[s].pc \in {"accepted", "receive", "ack", "silence", "close",
                              "remove", "gone"}
       /\ sessions[s].tries \in 0 .. TryCount

Alive(s) == sessions[s].pc # "gone"

\* A flow has one traffic thread at a time, even when its datagrams come to
\* the listener after the thread has closed its socket.
AliveOnce ==
  \A s, t \in DOMAIN sessions :
    Alive(s) /\ Alive(t) /\ sessions[s].peer = sessions[t].peer => s = t

\* A session has read datagrams of another client, which were in the queue of
\* the socket when it was connected.
Mixed ==
  \E s \in DOMAIN sessions :
    \E x \in sessions[s].got : x[1] # sessions[s].peer

\* As long as no data is overtaken by the end of its flow, and none read by
\* the thread of another flow, a flow is accepted once: what the client sends
\* again after the server has gone is drained.
AcceptedOnce ==
  ~late /\ ~Mixed =>
    \A s, t \in DOMAIN sessions : sessions[s].peer = sessions[t].peer => s = t

\* Under the same conditions, the statistics that the client prints as the
\* server's account for each datagram that it has sent: counted or lost, not
\* both.
ReportAccounts ==
  ~late /\ ~Mixed =>
    \A c \in Clients : report[c] # <<>> /\ report[c][2] = Statistics =>
      DataOf(sessions[report[c][1]].got)
        = {<<c, n>> : n \in 1 .. datagrams[c]} \ lost

\* A flow is accepted once, and what its client prints accounts for each of its
\* datagrams, as long as nothing is overtaken by an end or read by another.
FlowAccounted == AcceptedOnce /\ ReportAccounts
=============================================================================
