-------------------------- MODULE UdpSessionsProofs --------------------------
(***************************************************************************)
(* Proofs about UdpSessions, for any clients, traffics and losses: a flow  *)
(* never has two traffic threads, and is accepted and accounted for once.  *)
(* A thread that is alive has its flow in the table (InTable), and the     *)
(* listener starts none for a flow that is there (Accepting).  Each        *)
(* datagram with data is in one place (Places), and a thread that has come *)
(* to the end of its flow has all of it that is not lost (Orderly).        *)
(***************************************************************************)
EXTENDS UdpSessions, SequenceTheorems, TLAPS

Datagram == Clients \X Int

Pcs == {"accepted", "receive", "ack", "silence", "close", "remove", "gone"}

Session == [peer : Clients, pc : Pcs, queue : SUBSET Datagram,
            got : SUBSET Datagram, tries : 0 .. TryCount,
            answer : {Statistics} \cup Datagram]

PeerTypes ==
  /\ datagrams \in [Clients -> Nat]
  /\ client \in [Clients -> {"send", "await", "done"}]
  /\ packetID \in [Clients -> Nat \ {0}]
  /\ left \in [Clients -> 0 .. RetryCount]
  /\ \A c \in Clients :
       packetID[c] + left[c] <= datagrams[c] + RetryCount + 1

SocketTypes ==
  /\ net \subseteq Datagram /\ queue \subseteq Datagram
  /\ listener \in {"receive", "connect", "listen", "done"}
  /\ listening \in BOOLEAN /\ drain \in BOOLEAN /\ late \in BOOLEAN
  /\ mCount \in Nat \cup {-1}
  /\ flows \subseteq Clients
  /\ sessions \in Seq(Session)

Answers ==
  /\ \A a \in acks : a[1] \in DOMAIN sessions
  /\ \A c \in Clients :
       report[c] = <<>> \/ report[c][1] \in DOMAIN sessions

\* The server can send one more answer.
Tries ==
  \A s \in DOMAIN sessions :
    sessions[s].pc \in {"accepted", "receive", "ack", "silence"}
      => sessions[s].tries > 0

\* What the listener is about to do with the flow that it has accepted.
Accepting ==
  /\ listener = "connect" =>
       /\ accepted \in Datagram /\ accepted[1] \in flows
       /\ \A s \in DOMAIN sessions :
            Alive(s) => sessions[s].peer # accepted[1]
  /\ listener = "listen" =>
       Len(sessions) > 0 /\ sessions[Len(sessions)].pc = "accepted"

\* A thread that is alive has its flow in the table.
InTable == \A s \in DOMAIN sessions : Alive(s) => sessions[s].peer \in flows

\* The inductive invariant.
IInv ==
  /\ PeerTypes /\ SocketTypes /\ Answers /\ Tries
  /\ Accepting /\ InTable /\ AliveOnce
-----------------------------------------------------------------------------
\* One session is changed, the others stay.
LEMMA Update ==
  ASSUME sessions \in Seq(Session), NEW s \in DOMAIN sessions,
         NEW r \in Session, sessions' = [sessions EXCEPT ![s] = r]
  PROVE  /\ sessions' \in Seq(Session)
         /\ DOMAIN sessions' = DOMAIN sessions
         /\ Len(sessions') = Len(sessions)
         /\ sessions'[s] = r
         /\ \A t \in DOMAIN sessions : t # s => sessions'[t] = sessions[t]
  <1>1. DOMAIN sessions = 1 .. Len(sessions)
    BY LenProperties
  <1>2. /\ sessions' \in Seq(Session)
        /\ Len(sessions') = Len(sessions)
        /\ \A t \in 1 .. Len(sessions) :
             sessions'[t] = IF t = s THEN r ELSE sessions[t]
    BY <1>1, ExceptSeq
  <1>3. DOMAIN sessions' = 1 .. Len(sessions')
    BY <1>2, LenProperties
  <1>4. QED
    BY <1>1, <1>2, <1>3

\* A session that is alive goes on, or ends, and nothing else is changed but
\* what is on its way.
LEMMA Moves ==
  ASSUME IInv, NEW s \in DOMAIN sessions, NEW r \in Session,
         sessions' = [sessions EXCEPT ![s] = r],
         r.peer = sessions[s].peer,
         sessions[s].pc # "gone",
         sessions[s].pc = "accepted" => r.pc = "accepted",
         r.pc \in {"accepted", "receive", "ack", "silence"} => r.tries > 0,
         UNCHANGED <<peers, accept, flows>>,
         net' \subseteq net, late' \in BOOLEAN,
         \A a \in acks' : a \in acks \/ a[1] = s
  PROVE  IInv'
  <1>1. /\ sessions' \in Seq(Session)
        /\ DOMAIN sessions' = DOMAIN sessions
        /\ Len(sessions') = Len(sessions)
        /\ sessions'[s] = r
        /\ \A t \in DOMAIN sessions : t # s => sessions'[t] = sessions[t]
    BY Update DEF IInv, SocketTypes
  <1>2. /\ \A t \in DOMAIN sessions : sessions'[t].peer = sessions[t].peer
        /\ \A t \in DOMAIN sessions : Alive(t)' => Alive(t)
    BY <1>1 DEF Alive
  <1>3. PeerTypes'
    BY DEF IInv, PeerTypes, peers
  <1>4. SocketTypes'
    BY <1>1 DEF IInv, SocketTypes, accept
  <1>5. Answers'
    BY <1>1 DEF IInv, Answers, peers
  <1>6. Tries'
    BY <1>1 DEF IInv, Tries
  <1>7. Accepting'
    <2>1. ASSUME listener = "listen"
          PROVE  sessions'[Len(sessions)].pc = "accepted"
      BY <1>1, <2>1, LenProperties DEF IInv, Accepting, SocketTypes
    <2>2. QED
      BY <1>1, <1>2, <2>1 DEF IInv, Accepting, accept
  <1>8. InTable'
    BY <1>1, <1>2 DEF IInv, InTable
  <1>9. AliveOnce'
    BY <1>1, <1>2 DEF IInv, AliveOnce
  <1>10. QED
    BY <1>3, <1>4, <1>5, <1>6, <1>7, <1>8, <1>9 DEF IInv
-----------------------------------------------------------------------------
LEMMA Initially ==
  Init => IInv
  <1> SUFFICES ASSUME Init PROVE IInv
    OBVIOUS
  <1> USE DEF Init
  <1>1. PeerTypes
    BY SessionsAssumption DEF PeerTypes
  <1>2. SocketTypes
    <2>1. sessions \in Seq(Session)
      BY EmptySeq
    <2>2. mCount \in Nat \cup {-1}
      BY SessionsAssumption
    <2>3. QED
      BY <2>1, <2>2 DEF SocketTypes
  <1>3. Answers /\ Tries /\ Accepting /\ InTable /\ AliveOnce
    BY DEF Answers, Tries, Accepting, InTable, AliveOnce
  <1>4. QED
    BY <1>1, <1>2, <1>3 DEF IInv

\* A step of a client leaves the server alone.
LEMMA ClientSteps ==
  ASSUME IInv, NEW c \in Clients, Client(c)
  PROVE  IInv'
  <1>1. /\ UNCHANGED <<accept, flows, sessions, late>>
        /\ datagrams' = datagrams
        /\ PeerTypes'
        /\ net' \subseteq Datagram
    <2> USE SessionsAssumption DEF IInv, PeerTypes, SocketTypes, Datagram
    <2>1. CASE Send(c)
      BY <2>1 DEF Send
    <2>2. CASE Finish(c)
      <3>1. <<c, -packetID[c]>> \in Datagram
        OBVIOUS
      <3>2. net' \subseteq Datagram
        BY <2>2, <3>1 DEF Finish
      <3>3. PeerTypes'
        BY <2>2 DEF Finish
      <3>4. QED
        BY <2>2, <3>2, <3>3 DEF Finish
    <2>3. CASE Retry(c)
      <3>1. /\ packetID' = [packetID EXCEPT ![c] = packetID[c] + 1]
            /\ left' = [left EXCEPT ![c] = left[c] - 1]
            /\ left[c] > 0
            /\ net' = net \cup {<<c, -packetID'[c]>>}
            /\ UNCHANGED <<datagrams, client>>
        BY <2>3 DEF Retry
      <3>2. packetID'[c] = packetID[c] + 1 /\ left'[c] = left[c] - 1
        BY <3>1
      <3>3. <<c, -packetID'[c]>> \in Datagram
        BY <3>2
      <3>4. net' \subseteq Datagram
        BY <3>1, <3>3
      <3>5. /\ packetID' \in [Clients -> Nat \ {0}]
            /\ left' \in [Clients -> 0 .. RetryCount]
        BY <3>1
      <3>6. \A d \in Clients :
              packetID'[d] + left'[d] <= datagrams'[d] + RetryCount + 1
        <4>1. ASSUME NEW d \in Clients, d # c
              PROVE  packetID'[d] = packetID[d] /\ left'[d] = left[d]
          BY <3>1, <4>1
        <4>2. QED
          BY <3>1, <3>2, <4>1
      <3>7. QED
        BY <2>3, <3>1, <3>4, <3>5, <3>6 DEF Retry
    <2>4. CASE ReadAnswer(c)
      BY <2>4 DEF ReadAnswer
    <2>5. CASE GiveUp(c)
      BY <2>5 DEF GiveUp, wire
    <2>6. QED
      BY <2>1, <2>2, <2>3, <2>4, <2>5 DEF Client
  <1>2. Answers'
    <2>1. CASE Send(c) \/ Finish(c) \/ Retry(c) \/ GiveUp(c)
      BY <2>1 DEF IInv, Answers, Send, Finish, Retry, GiveUp, wire
    <2>2. CASE ReadAnswer(c)
      <3>1. PICK a \in acks : /\ report' = [report EXCEPT ![c] = a]
                              /\ acks' = acks \ {a}
        BY <2>2 DEF ReadAnswer
      <3>2. \A d \in Clients : report'[d] \in {a, report[d]}
        BY <3>1
      <3>3. sessions' = sessions
        BY <2>2 DEF ReadAnswer
      <3>4. QED
        BY <3>1, <3>2, <3>3 DEF IInv, Answers
    <2>3. QED
      BY <2>1, <2>2 DEF Client
  <1>3. QED
    BY <1>1, <1>2
    DEF IInv, SocketTypes, Tries, Accepting, InTable, AliveOnce, Alive, accept

\* A step that changes neither the sessions nor the table.
LEMMA Others ==
  ASSUME IInv, UNCHANGED <<peers, listener, accepted, flows, sessions, mCount>>,
         net' \subseteq Datagram, queue' \subseteq Datagram,
         acks' \subseteq acks,
         listening' \in BOOLEAN, drain' \in BOOLEAN, late' \in BOOLEAN
  PROVE  IInv'
  BY DEF IInv, PeerTypes, SocketTypes, Answers, Tries, Accepting, InTable,
         AliveOnce, Alive, peers

LEMMA DeliverStep ==
  ASSUME IInv, NEW x \in net, Deliver(x)
  PROVE  IInv'
  <1>1. x \in Datagram /\ net' \subseteq net
    BY DEF IInv, SocketTypes, Deliver
  <1>2. CASE sessions' = sessions
    <2>1. queue' \subseteq Datagram
      BY <1>1 DEF Deliver, IInv, SocketTypes
    <2>2. QED
      BY <1>1, <1>2, <2>1, Others DEF Deliver, IInv, SocketTypes
  <1>3. CASE sessions' # sessions
    <2>1. PICK s \in DOMAIN sessions :
            /\ Open(s)
            /\ sessions' = [sessions EXCEPT ![s].queue = @ \cup {x}]
            /\ queue' = queue
      BY <1>3 DEF Deliver
    <2> DEFINE r == [sessions[s] EXCEPT !.queue = @ \cup {x}]
    <2>2. sessions[s] \in Session
      BY LenProperties DEF IInv, SocketTypes
    <2>3. /\ r \in Session
          /\ r.peer = sessions[s].peer /\ r.pc = sessions[s].pc
          /\ r.tries = sessions[s].tries
      BY <1>1, <2>2 DEF Session
    <2>4. sessions' = [sessions EXCEPT ![s] = r]
      BY <2>1
    <2>5. r.pc \in {"accepted", "receive", "ack", "silence"} => r.tries > 0
      BY <2>3 DEF IInv, Tries
    <2>6. /\ UNCHANGED <<peers, accept, flows>>
          /\ late' \in BOOLEAN /\ acks' = acks /\ sessions[s].pc # "gone"
      BY <2>1 DEF Deliver, Open, accept, IInv, SocketTypes
    <2> HIDE DEF r
    <2>7. QED
      BY <1>1, <2>3, <2>4, <2>5, <2>6, Moves
  <1>4. QED
    BY <1>2, <1>3

LEMMA RefuseStep ==
  ASSUME IInv, Refuse
  PROVE  IInv'
  <1>1. PICK a \in acks :
          /\ sessions[a[1]].pc = "silence"
          /\ acks' = acks \ {a}
          /\ sessions' = [sessions EXCEPT ![a[1]].pc = "close"]
    BY DEF Refuse
  <1> DEFINE s == a[1]
             r == [sessions[s] EXCEPT !.pc = "close"]
  <1>2. s \in DOMAIN sessions /\ sessions[s] \in Session
    BY LenProperties DEF IInv, Answers, SocketTypes
  <1>3. r \in Session /\ r.peer = sessions[s].peer /\ r.pc = "close"
    BY <1>2 DEF Session, Pcs
  <1>4. sessions' = [sessions EXCEPT ![s] = r]
    BY <1>1
  <1>5. /\ UNCHANGED <<peers, accept, flows>>
        /\ late' \in BOOLEAN /\ net' = net /\ sessions[s].pc = "silence"
    BY <1>1 DEF Refuse, IInv, SocketTypes
  <1> HIDE DEF s, r
  <1>6. acks' \subseteq acks
    BY <1>1
  <1>7. QED
    BY <1>2, <1>3, <1>4, <1>5, <1>6, Moves

\* Session s is changed in the way that Moves is about.
Going(s) ==
  \E r \in Session :
    /\ sessions' = [sessions EXCEPT ![s] = r]
    /\ r.peer = sessions[s].peer
    /\ sessions[s].pc \notin {"gone", "accepted"}
    /\ r.pc \in {"accepted", "receive", "ack", "silence"} => r.tries > 0

\* The traffic thread up to the end of its socket.
LEMMA ServerMoves ==
  ASSUME IInv, NEW s \in DOMAIN sessions,
         \/ \E x \in sessions[s].queue : Read(s, x) \/ Repeat(s, x)
         \/ Answer(s) \/ Silence(s) \/ Close(s)
  PROVE  IInv'
  <1>1. sessions[s] \in Session
    BY LenProperties DEF IInv, SocketTypes
  <1>2. /\ UNCHANGED <<peers, accept, flows, net>>
        /\ late' \in BOOLEAN
        /\ \A a \in acks' : a \in acks \/ a[1] = s
    <2>1. late \in BOOLEAN
      BY DEF IInv, SocketTypes
    <2>2. ASSUME NEW x \in sessions[s].queue, Read(s, x)
          PROVE  /\ UNCHANGED <<peers, accept, flows, net, acks>>
                 /\ late' \in BOOLEAN
      <3>1. late' = (late \/ (~IsData(x) /\ Pending(x[1]) # {}))
        BY <2>2 DEF Read
      <3>2. late' \in BOOLEAN
        BY <3>1, Zenon
      <3>3. QED
        BY <2>2, <3>2 DEF Read, wire
    <2>3. CASE \E x \in sessions[s].queue : Repeat(s, x)
      BY <2>1, <2>3 DEF Repeat, wire
    <2>4. CASE Answer(s)
      BY <2>1, <2>4 DEF Answer
    <2>5. CASE Silence(s) \/ Close(s)
      BY <2>1, <2>5 DEF Silence, Close, wire
    <2>6. QED
      BY <2>2, <2>3, <2>4, <2>5
  <1>3. Going(s)
    <2>1. ASSUME NEW x \in sessions[s].queue, Read(s, x)
          PROVE  Going(s)
      <3> DEFINE pc == IF IsData(x) THEN "receive" ELSE "ack"
                 r == [sessions[s] EXCEPT !.queue = @ \ {x}, !.got = @ \cup {x},
                                          !.pc = pc]
      <3>1. /\ r \in Session /\ r.peer = sessions[s].peer
            /\ r.tries = sessions[s].tries
        BY <1>1 DEF Session, Pcs
      <3>2. sessions' = [sessions EXCEPT ![s] = r]
        BY <2>1 DEF Read
      <3>3. sessions[s].pc = "receive" /\ sessions[s].tries > 0
        BY <2>1 DEF Read, IInv, Tries
      <3> HIDE DEF r
      <3>4. QED
        BY <3>1, <3>2, <3>3 DEF Going
    <2>2. ASSUME NEW x \in sessions[s].queue, Repeat(s, x)
          PROVE  Going(s)
      <3> DEFINE pc == IF sessions[s].tries > 1 THEN "ack" ELSE "close"
                 r == [sessions[s] EXCEPT !.queue = @ \ {x}, !.answer = x,
                                          !.tries = @ - 1, !.pc = pc]
      <3>1. sessions[s].pc = "silence" /\ sessions[s].tries > 0
        BY <2>2 DEF Repeat, IInv, Tries
      <3>2. sessions[s].tries \in Nat /\ x \in Datagram
        BY <1>1, SessionsAssumption DEF Session
      <3>3. /\ r \in Session /\ r.peer = sessions[s].peer
            /\ r.tries = sessions[s].tries - 1 /\ r.pc = pc
        <4>1. sessions[s].tries - 1 \in 0 .. TryCount /\ pc \in Pcs
          BY <1>1, <3>1, <3>2, SessionsAssumption DEF Session, Pcs
        <4> HIDE DEF pc
        <4>2. QED
          BY <1>1, <3>2, <4>1 DEF Session
      <3>4. sessions' = [sessions EXCEPT ![s] = r]
        BY <2>2 DEF Repeat
      <3>5. r.pc \in {"accepted", "receive", "ack", "silence"} => r.tries > 0
        BY <3>2, <3>3
      <3> HIDE DEF r
      <3>6. QED
        BY <3>1, <3>3, <3>4, <3>5 DEF Going
    <2>3. CASE Answer(s)
      <3> DEFINE r == [sessions[s] EXCEPT !.pc = "silence"]
      <3>1. /\ r \in Session /\ r.peer = sessions[s].peer
            /\ r.tries = sessions[s].tries
        BY <1>1 DEF Session, Pcs
      <3>2. sessions' = [sessions EXCEPT ![s] = r]
        BY <2>3 DEF Answer
      <3>3. sessions[s].pc = "ack" /\ sessions[s].tries > 0
        BY <2>3 DEF Answer, IInv, Tries
      <3> HIDE DEF r
      <3>4. QED
        BY <3>1, <3>2, <3>3 DEF Going
    <2>4. CASE Silence(s)
      <3> DEFINE r == [sessions[s] EXCEPT !.pc = "close"]
      <3>1. r \in Session /\ r.peer = sessions[s].peer /\ r.pc = "close"
        BY <1>1 DEF Session, Pcs
      <3>2. sessions' = [sessions EXCEPT ![s] = r] /\ sessions[s].pc = "silence"
        BY <2>4 DEF Silence
      <3> HIDE DEF r
      <3>3. QED
        BY <3>1, <3>2 DEF Going
    <2>5. CASE Close(s)
      <3> DEFINE r == [sessions[s] EXCEPT !.pc = "remove", !.queue = {}]
      <3>1. r \in Session /\ r.peer = sessions[s].peer /\ r.pc = "remove"
        BY <1>1 DEF Session, Pcs
      <3>2. sessions' = [sessions EXCEPT ![s] = r] /\ sessions[s].pc = "close"
        BY <2>5 DEF Close
      <3> HIDE DEF r
      <3>3. QED
        BY <3>1, <3>2 DEF Going
    <2>6. QED
      BY <2>1, <2>2, <2>3, <2>4, <2>5
  <1>4. QED
    BY <1>2, <1>3, Moves DEF Going

\* The flow leaves the table with the only thread it has.
LEMMA RemoveStep ==
  ASSUME IInv, NEW s \in DOMAIN sessions, Remove(s)
  PROVE  IInv'
  <1> DEFINE r == [sessions[s] EXCEPT !.pc = "gone"]
  <1>1. sessions[s] \in Session
    BY LenProperties DEF IInv, SocketTypes
  <1>2. r \in Session /\ r.peer = sessions[s].peer /\ r.pc = "gone"
    BY <1>1 DEF Session, Pcs
  <1>3. /\ sessions' = [sessions EXCEPT ![s] = r]
        /\ sessions[s].pc = "remove"
        /\ flows' = flows \ {sessions[s].peer}
        /\ UNCHANGED <<peers, wire, accept, late>>
    BY DEF Remove
  <1> HIDE DEF r
  <1>4. /\ sessions' \in Seq(Session)
        /\ DOMAIN sessions' = DOMAIN sessions
        /\ Len(sessions') = Len(sessions)
        /\ sessions'[s] = r
        /\ \A t \in DOMAIN sessions : t # s => sessions'[t] = sessions[t]
    BY <1>2, <1>3, Update DEF IInv, SocketTypes
  <1>5. /\ \A t \in DOMAIN sessions : sessions'[t].peer = sessions[t].peer
        /\ \A t \in DOMAIN sessions : Alive(t)' => Alive(t) /\ t # s
        /\ Alive(s)
    BY <1>2, <1>3, <1>4 DEF Alive
  <1>6. PeerTypes' /\ Answers'
    BY <1>3, <1>4 DEF IInv, PeerTypes, Answers, peers, wire
  <1>7. SocketTypes'
    BY <1>3, <1>4 DEF IInv, SocketTypes, accept, wire
  <1>8. Tries'
    BY <1>2, <1>4 DEF IInv, Tries
  <1>9. Accepting'
    <2>1. ASSUME listener = "listen"
          PROVE  sessions'[Len(sessions)].pc = "accepted"
      BY <1>3, <1>4, <2>1, LenProperties DEF IInv, Accepting, SocketTypes
    <2>2. ASSUME listener = "connect" PROVE sessions[s].peer # accepted[1]
      BY <1>5, <2>2 DEF IInv, Accepting
    <2>3. QED
      BY <1>3, <1>4, <1>5, <2>1, <2>2 DEF IInv, Accepting, accept
  <1>10. InTable'
    BY <1>3, <1>4, <1>5 DEF IInv, InTable, AliveOnce
  <1>11. AliveOnce'
    BY <1>4, <1>5 DEF IInv, AliveOnce
  <1>12. QED
    BY <1>6, <1>7, <1>8, <1>9, <1>10, <1>11 DEF IInv

\* udp_accept reads a datagram.
LEMMA ListenerSteps ==
  ASSUME IInv, NEW x \in queue, Listener(x)
  PROVE  IInv'
  <1>1. x \in Datagram
    BY DEF IInv, SocketTypes
  <1>2. CASE Drain(x)
    BY <1>2, Others DEF Drain, IInv, SocketTypes, wire
  <1>3. CASE DropDuplicate(x)
    BY <1>3, Others DEF DropDuplicate, IInv, SocketTypes, wire
  <1>4. CASE NewFlow(x)
    <2>1. /\ x[1] \in Clients /\ x[1] \notin flows
          /\ flows' = flows \cup {x[1]} /\ accepted' = x
          /\ queue' = queue \ {x} /\ drain' = FALSE /\ listener' = "connect"
          /\ UNCHANGED <<peers, wire, listening, mCount, sessions, late>>
      BY <1>1, <1>4 DEF NewFlow, Iperf_flow_present, Datagram
    <2>2. PeerTypes' /\ Answers' /\ Tries'
      BY <2>1 DEF IInv, PeerTypes, Answers, Tries, peers, wire
    <2>3. SocketTypes'
      BY <2>1 DEF IInv, SocketTypes, wire
    <2>4. Accepting' /\ InTable' /\ AliveOnce'
      BY <1>1, <2>1 DEF IInv, Accepting, InTable, AliveOnce, Alive
    <2>5. QED
      BY <2>2, <2>3, <2>4 DEF IInv
  <1>5. QED
    BY <1>2, <1>3, <1>4 DEF Listener

\* A session begins.
LEMMA ConnectStep ==
  ASSUME IInv, Connect
  PROVE  IInv'
  <1> DEFINE r == [peer |-> accepted[1], pc |-> "accepted", queue |-> queue,
                   got |-> {accepted}, tries |-> TryCount,
                   answer |-> Statistics]
             n == Len(sessions) + 1
  <1>1. accepted \in Datagram /\ accepted[1] \in Clients
    BY DEF Connect, IInv, Accepting, Datagram
  <1>2. /\ r \in Session /\ r.peer = accepted[1] /\ r.pc = "accepted"
        /\ r.tries > 0
    BY <1>1, SessionsAssumption DEF Session, Pcs, IInv, SocketTypes
  <1>3. /\ sessions' = Append(sessions, r)
        /\ listener = "connect" /\ listener' = "listen"
        /\ listening' = FALSE /\ queue' = {}
        /\ UNCHANGED <<peers, wire, drain, mCount, flows, late>>
    BY DEF Connect
  <1>4. sessions \in Seq(Session)
    BY DEF IInv, SocketTypes
  <1> HIDE DEF r
  <1>5. /\ sessions' \in Seq(Session) /\ Len(sessions') = n
        /\ \A t \in 1 .. Len(sessions) : sessions'[t] = sessions[t]
        /\ sessions'[n] = r
    BY <1>2, <1>3, <1>4, AppendProperties
  <1>6. /\ Len(sessions) \in Nat
        /\ DOMAIN sessions = 1 .. Len(sessions) /\ DOMAIN sessions' = 1 .. n
    BY <1>4, <1>5, LenProperties
  <1>7. \A t \in DOMAIN sessions' :
          \/ t \in DOMAIN sessions /\ sessions'[t] = sessions[t]
          \/ t = n
    BY <1>5, <1>6
  <1>8. PeerTypes' /\ Answers'
    BY <1>3, <1>6 DEF IInv, PeerTypes, Answers, peers, wire
  <1>9. SocketTypes'
    BY <1>3, <1>5 DEF IInv, SocketTypes, wire
  <1>10. Tries'
    BY <1>2, <1>5, <1>7 DEF IInv, Tries
  <1>11. Accepting'
    BY <1>2, <1>3, <1>5, <1>6 DEF Accepting
  <1>12. InTable'
    BY <1>2, <1>3, <1>5, <1>7 DEF IInv, InTable, Accepting, Alive
  <1>13. AliveOnce'
    <2>1. \A t \in DOMAIN sessions : Alive(t) => sessions[t].peer # accepted[1]
      BY <1>3 DEF IInv, Accepting
    <2>2. QED
      BY <1>2, <1>5, <1>7, <2>1 DEF IInv, AliveOnce, Alive
  <1>14. QED
    BY <1>8, <1>9, <1>10, <1>11, <1>12, <1>13 DEF IInv

\* The session that has been accepted is started.
LEMMA SpawnStep ==
  ASSUME IInv, Spawn
  PROVE  IInv'
  <1> DEFINE s == Len(sessions)
             r == [sessions[s] EXCEPT !.pc = Begun(sessions[s])]
  <1>1. /\ s \in DOMAIN sessions /\ sessions[s].pc = "accepted"
        /\ sessions[s] \in Session
    BY LenProperties DEF Spawn, IInv, Accepting, SocketTypes
  <1>2. /\ r \in Session /\ r.peer = sessions[s].peer /\ r.pc # "gone"
        /\ r.tries > 0
    <2>1. Begun(sessions[s]) \in {"receive", "ack"}
      BY DEF Begun
    <2>2. sessions[s].tries > 0
      BY <1>1 DEF IInv, Tries
    <2>3. QED
      BY <1>1, <2>1, <2>2 DEF Session, Pcs
  <1>3. sessions' = [sessions EXCEPT ![s] = r]
    BY DEF Spawn
  <1>4. /\ UNCHANGED <<peers, wire, queue, flows, late>>
        /\ listening' \in BOOLEAN /\ drain' \in BOOLEAN
        /\ listener' \in {"receive", "done"}
        /\ mCount' \in Nat \cup {-1}
    BY DEF Spawn, IInv, SocketTypes
  <1> HIDE DEF s, r
  <1>5. /\ sessions' \in Seq(Session)
        /\ DOMAIN sessions' = DOMAIN sessions
        /\ sessions'[s] = r
        /\ \A t \in DOMAIN sessions : t # s => sessions'[t] = sessions[t]
    BY <1>1, <1>2, <1>3, Update DEF IInv, SocketTypes
  <1>6. /\ \A t \in DOMAIN sessions : sessions'[t].peer = sessions[t].peer
        /\ \A t \in DOMAIN sessions : Alive(t)' => Alive(t)
    BY <1>1, <1>2, <1>5 DEF Alive
  <1>7. PeerTypes' /\ Answers'
    BY <1>4, <1>5 DEF IInv, PeerTypes, Answers, peers, wire
  <1>8. SocketTypes'
    BY <1>4, <1>5 DEF IInv, SocketTypes, wire
  <1>9. Tries' /\ Accepting' /\ InTable' /\ AliveOnce'
    BY <1>2, <1>4, <1>5, <1>6 DEF IInv, Tries, Accepting, InTable, AliveOnce
  <1>10. QED
    BY <1>7, <1>8, <1>9 DEF IInv

\* Every step, and a stutter, keeps the invariant.
LEMMA Inductive ==
  IInv /\ [Next]_vars => IInv'
  <1> SUFFICES ASSUME IInv, [Next]_vars
               PROVE  IInv'
    OBVIOUS
  <1>1. CASE \E c \in Clients : Client(c)
    BY <1>1, ClientSteps
  <1>2. CASE \E x \in net : Deliver(x)
    BY <1>2, DeliverStep
  <1>3. CASE Lose
    BY <1>3, Others DEF Lose, IInv, SocketTypes, accept
  <1>4. CASE Refuse
    BY <1>4, RefuseStep
  <1>5. CASE \E x \in queue : Listener(x)
    BY <1>5, ListenerSteps
  <1>6. CASE Connect
    BY <1>6, ConnectStep
  <1>7. CASE Spawn
    BY <1>7, SpawnStep
  <1>8. CASE \E s \in DOMAIN sessions : Server(s)
    BY <1>8, ServerMoves, RemoveStep DEF Server
  <1>9. CASE UNCHANGED vars
    BY <1>9, Others DEF vars, wire, accept, IInv, SocketTypes
  <1>10. QED
    BY <1>1, <1>2, <1>3, <1>4, <1>5, <1>6, <1>7, <1>8, <1>9 DEF Next
-----------------------------------------------------------------------------
\* The variables keep their types; the numbers of the datagrams and of the
\* answers stay within what the retries allow.
THEOREM TypeCorrect == Spec => []TypeOK
  <1>1. IInv => TypeOK
    <2> SUFFICES ASSUME IInv PROVE TypeOK
      OBVIOUS
    <2>1. DOMAIN sessions = 1 .. Len(sessions)
      BY LenProperties DEF IInv, SocketTypes
    <2>2. \A s \in DOMAIN sessions : sessions[s] \in Session
      BY LenProperties DEF IInv, SocketTypes
    <2>3. \A c \in Clients :
            packetID[c] \in 1 .. datagrams[c] + RetryCount + 1
      BY SessionsAssumption DEF IInv, PeerTypes
    <2>4. {listening, drain, late} \subseteq BOOLEAN
      BY DEF IInv, SocketTypes
    <2>5. QED
      BY <2>1, <2>2, <2>3, <2>4
      DEF TypeOK, IInv, PeerTypes, SocketTypes, Answers, Session, Pcs
  <1>2. QED
    BY <1>1, Initially, Inductive, PTL DEF Spec

\* A flow has one traffic thread at a time, whatever is lost and however late
\* its datagrams come to the listener: the table of udp_accept is enough.
THEOREM OneThreadPerFlow == Spec => []AliveOnce
  <1>1. IInv => AliveOnce
    BY DEF IInv
  <1>2. QED
    BY <1>1, Initially, Inductive, PTL DEF Spec
-----------------------------------------------------------------------------
(* What becomes of each datagram with data.                                *)

\* Datagram x is in a place of kind k: those that are in a session have its
\* number s, the others 0.
InPlace(x, k, s) ==
  \/ k = "net" /\ s = 0 /\ x \in net
  \/ k = "queue" /\ s = 0 /\ x \in queue
  \/ k = "accepted" /\ s = 0 /\ listener = "connect" /\ x = accepted
  \/ k = "lost" /\ s = 0 /\ x \in lost
  \/ k = "socket" /\ s \in DOMAIN sessions /\ x \in sessions[s].queue
  \/ k = "got" /\ s \in DOMAIN sessions /\ x \in sessions[s].got

\* What has been sent is somewhere, in one place, and nothing else is.
Sent ==
  \A c \in Clients : \A n \in 1 .. datagrams[c] :
    n < packetID[c] => \E k, s : InPlace(<<c, n>>, k, s)

AtMostOnce ==
  \A x, k, l, s, t :
    IsData(x) /\ InPlace(x, k, s) /\ InPlace(x, l, t) => k = l /\ s = t

Known ==
  \A x, k, s : IsData(x) /\ InPlace(x, k, s) =>
    /\ x \in Datagram /\ x[2] < packetID[x[1]] /\ x[2] <= datagrams[x[1]]

\* A flow is ended after all of its data has been sent.
Waits(x) ==
  x \in net \/ x \in queue \/ \E s \in DOMAIN sessions : x \in sessions[s].queue
EndOf(x) == ~IsData(x) => packetID[x[1]] > datagrams[x[1]]
Ends ==
  /\ \A c \in Clients : client[c] = "await" => packetID[c] > datagrams[c]
  /\ \A x : Waits(x) => EndOf(x)

Places == Sent /\ AtMostOnce /\ Known /\ Ends

\* A flow in the table has a thread, or is about to get one.
Backed ==
  \A c \in flows : \/ \E s \in DOMAIN sessions : Alive(s) /\ sessions[s].peer = c
                   \/ listener = "connect" /\ accepted[1] = c

\* What the listener has in its queue is not of a flow with an open socket.
Unqueued ==
  \A s \in DOMAIN sessions : Open(s) =>
    \A x \in queue : x[1] # sessions[s].peer

\* A session has come to the end of its flow.
Over(s) == sessions[s].pc \notin {"accepted", "receive"}

\* Only such a session answers, and the client reads the answer of its own.
Answered ==
  /\ \A a \in acks : Over(a[1])
  /\ \A c \in Clients : report[c] # <<>> =>
       sessions[report[c][1]].peer = c /\ Over(report[c][1])

\* All data of the flow of session s has been counted by it, or is lost.
Settled(s) ==
  \A n \in 1 .. datagrams[sessions[s].peer] :
    <<sessions[s].peer, n>> \in sessions[s].got \cup lost

\* Nothing is overtaken by the end of its flow or read by another thread: the
\* listener accepts flows with their data, and a thread ends with all of it.
Orderly ==
  /\ listener = "receive" => drain
  /\ listener = "connect" => IsData(accepted)
  /\ \A s \in DOMAIN sessions :
       sessions[s].pc = "accepted" => \A x \in sessions[s].got : IsData(x)
  /\ \A s \in DOMAIN sessions : Over(s) => Settled(s)
  /\ \A s, t \in DOMAIN sessions : sessions[s].peer = sessions[t].peer => s = t

\* The inductive invariant of FlowAccounted.
FInv ==
  /\ Places /\ Backed /\ Unqueued /\ Answered
  /\ ~late /\ ~Mixed => Orderly

\* A datagram goes from one place to another.
MovesTo(y, l, t) ==
  /\ IsData(y) => \E k, s : InPlace(y, k, s)
  /\ \A x, k, s : IsData(x) =>
       (InPlace(x, k, s)' <=> IF x = y THEN k = l /\ s = t ELSE InPlace(x, k, s))

LEMMA MoveOne ==
  ASSUME Sent, AtMostOnce, Known, UNCHANGED <<datagrams, packetID>>,
         NEW y, NEW l, NEW t, MovesTo(y, l, t)
  PROVE  Sent' /\ AtMostOnce' /\ Known'
  <1> USE DEF MovesTo
  <1>1. Sent'
    BY DEF Sent, IsData
  <1>2. AtMostOnce'
    BY DEF AtMostOnce
  <1>3. Known'
    BY DEF Known
  <1>4. QED
    BY <1>1, <1>2, <1>3

\* No datagram with data goes anywhere.
LEMMA MoveNone ==
  ASSUME Sent, AtMostOnce, Known, UNCHANGED <<datagrams, packetID>>,
         \A x, k, s : IsData(x) => (InPlace(x, k, s)' <=> InPlace(x, k, s))
  PROVE  Sent' /\ AtMostOnce' /\ Known'
  <1>1. Sent'
    BY DEF Sent, IsData
  <1>2. AtMostOnce' /\ Known'
    BY DEF AtMostOnce, Known
  <1>3. QED
    BY <1>1, <1>2

LEMMA SessionTypes ==
  ASSUME IInv
  PROVE  /\ \A s \in DOMAIN sessions : sessions[s] \in Session
         /\ \A x : Waits(x) => x \in Datagram
  <1>1. \A s \in DOMAIN sessions : sessions[s] \in Session
    BY LenProperties DEF IInv, SocketTypes
  <1>2. QED
    BY <1>1 DEF IInv, SocketTypes, Session, Waits

LEMMA NetPlace ==
  \A x, s : InPlace(x, "net", s) <=> s = 0 /\ x \in net
  BY DEF InPlace

LEMMA InitPlaces == Init => FInv
  <1> SUFFICES ASSUME Init PROVE FInv
    OBVIOUS
  <1> USE DEF Init
  <1>1. ~ \E x, k, s : InPlace(x, k, s)
    BY DEF InPlace
  <1>2. Sent
    BY SessionsAssumption DEF Sent
  <1>3. AtMostOnce /\ Known
    BY <1>1 DEF AtMostOnce, Known
  <1>4. Ends /\ Backed /\ Unqueued /\ Answered /\ Orderly
    BY DEF Ends, Waits, Backed, Unqueued, Answered, Orderly
  <1>5. QED
    BY <1>2, <1>3, <1>4 DEF FInv, Places

\* What a client sends is new, and with data only before its end.
LEMMA ClientPlaces ==
  ASSUME IInv, Places, NEW c \in Clients, Client(c)
  PROVE  Places'
  <1>1. PeerTypes /\ PeerTypes'
    BY ClientSteps DEF IInv
  <1> USE <1>1 DEF PeerTypes
  <1>2. \A x, k, s : InPlace(x, k, s)' <=>
          \/ InPlace(x, k, s) /\ k # "net"
          \/ k = "net" /\ s = 0 /\ x \in net'
    BY DEF Client, Send, Finish, Retry, ReadAnswer, GiveUp, InPlace, accept, wire
  <1>3. /\ UNCHANGED <<queue, sessions, datagrams>>
        /\ \A d \in Clients : packetID'[d] >= packetID[d]
    BY DEF Client, Send, Finish, Retry, ReadAnswer, GiveUp, accept, wire
  <1>4. \A x \in Datagram : EndOf(x) => EndOf(x)' /\ packetID'[x[1]] >= packetID[x[1]]
    <2> SUFFICES ASSUME NEW x \in Datagram, EndOf(x) PROVE EndOf(x)' /\ packetID'[x[1]] >= packetID[x[1]]
      OBVIOUS
    <2>1. x[1] \in Clients
      BY DEF Datagram
    <2>2. packetID[x[1]] \in Nat /\ packetID'[x[1]] \in Nat /\ datagrams[x[1]] \in Nat
      BY <1>1, <2>1
    <2>3. QED
      BY <1>3, <2>1, <2>2 DEF EndOf, IsData
  <1>5. CASE Send(c)
    <2> PICK y : y = <<c, packetID[c]>>
      OBVIOUS
    <2>1. /\ packetID' = [packetID EXCEPT ![c] = @ + 1] /\ net' = net \cup {y}
          /\ packetID[c] \in Nat \ {0} /\ packetID[c] <= datagrams[c]
          /\ client' = client
      BY <1>5 DEF Send
    <2>2. IsData(y) /\ y \in Datagram /\ y[1] = c /\ y[2] = packetID[c]
      BY <2>1 DEF IsData, Datagram
    <2>3. \A k, s : ~InPlace(y, k, s)
      BY <2>1, <2>2 DEF Places, Known
    <2>4. \A x, k, s : InPlace(x, k, s)' <=>
            InPlace(x, k, s) \/ (x = y /\ k = "net" /\ s = 0)
      BY <1>2, <2>1, NetPlace
    <2>5. Sent'
      <3> SUFFICES ASSUME NEW d \in Clients, NEW n \in 1 .. datagrams[d],
                          n < packetID'[d]
                   PROVE  \E k, s : InPlace(<<d, n>>, k, s)'
        BY <1>3 DEF Sent
      <3>1. n < packetID[d] \/ <<d, n>> = y
        BY <2>1, <1>3
      <3>2. QED
        BY <2>4, <3>1 DEF Places, Sent
    <2>6. AtMostOnce'
      BY <2>3, <2>4 DEF Places, AtMostOnce
    <2>7. Known'
      <3> SUFFICES ASSUME NEW x, NEW k, NEW s, IsData(x), InPlace(x, k, s)'
                   PROVE  /\ x \in Datagram /\ x[2] < packetID'[x[1]]
                          /\ x[2] <= datagrams[x[1]]
        BY <1>3 DEF Known
      <3>1. CASE InPlace(x, k, s)
        <4>1. /\ x \in Datagram /\ x[2] < packetID[x[1]]
              /\ x[2] <= datagrams[x[1]]
          BY <3>1 DEF Places, Known
        <4>2. x[1] \in Clients /\ x[2] \in Int
          BY <4>1 DEF Datagram
        <4>3. packetID[x[1]] \in Nat /\ packetID'[x[1]] \in Nat
          BY <2>1, <4>2
        <4>4. QED
          BY <1>3, <4>1, <4>2, <4>3
      <3>2. CASE x = y
        BY <2>1, <2>2, <3>2
      <3>3. QED
        BY <2>4, <3>1, <3>2
    <2>8. Ends'
      <3>2. EndOf(y)'
        BY <2>2 DEF EndOf, IsData
      <3>3. \A x : Waits(x)' => Waits(x) \/ x = y
        BY <1>3, <2>1 DEF Waits
      <3>4. \A d \in Clients : client'[d] = "await" => packetID'[d] > datagrams'[d]
        BY <1>3, <2>1 DEF Places, Ends
      <3>5. QED
        BY <1>4, <3>2, <3>3, <3>4, SessionTypes DEF Places, Ends
    <2>9. QED
      BY <2>5, <2>6, <2>7, <2>8 DEF Places
  <1>6. CASE ~Send(c)
    <2>1. /\ \A x \in net' : x \in net \/ (x[1] = c /\ ~IsData(x))
          /\ \A x \in net : x \in net'
          /\ \A d \in Clients : d # c => packetID'[d] = packetID[d]
          /\ packetID'[c] = packetID[c] \/ packetID[c] > datagrams[c]
          /\ net' # net => packetID'[c] > datagrams[c]
          /\ client'[c] = "await" => packetID'[c] > datagrams[c]
          /\ \A d \in Clients : d # c => client'[d] = client[d]
      <3>1. CASE Finish(c)
        BY <3>1 DEF Finish, IsData
      <3>2. CASE Retry(c)
        BY <3>2 DEF Retry, IsData, Places, Ends
      <3>3. CASE ReadAnswer(c)
        BY <3>3 DEF ReadAnswer
      <3>4. CASE GiveUp(c)
        BY <3>4 DEF GiveUp, wire
      <3>5. QED
        BY <1>6, <3>1, <3>2, <3>3, <3>4 DEF Client
    <2>2. \A x, k, s : IsData(x) => (InPlace(x, k, s)' <=> InPlace(x, k, s))
      <3>1. \A x : IsData(x) => (x \in net' <=> x \in net)
        BY <2>1
      <3>2. QED
        BY <1>2, <3>1, NetPlace
    <2>3. Sent'
      <3> SUFFICES ASSUME NEW d \in Clients, NEW n \in 1 .. datagrams[d],
                          n < packetID'[d]
                   PROVE  \E k, s : InPlace(<<d, n>>, k, s)'
        BY <1>3 DEF Sent
      <3>1. n < packetID[d]
        BY <2>1
      <3>2. IsData(<<d, n>>)
        BY DEF IsData
      <3>3. QED
        BY <2>2, <3>1, <3>2 DEF Places, Sent
    <2>4. AtMostOnce'
      BY <2>2 DEF Places, AtMostOnce
    <2>5. Known'
      <3> SUFFICES ASSUME NEW x, NEW k, NEW s, IsData(x), InPlace(x, k, s)
                   PROVE  /\ x \in Datagram /\ x[2] < packetID'[x[1]]
                          /\ x[2] <= datagrams[x[1]]
        BY <1>3, <2>2 DEF Known
      <3>1. /\ x \in Datagram /\ x[2] < packetID[x[1]]
            /\ x[2] <= datagrams[x[1]]
        BY DEF Places, Known
      <3>2. x[1] \in Clients /\ x[2] \in Int
        BY <3>1 DEF Datagram
      <3>3. datagrams[x[1]] \in Nat /\ packetID[x[1]] \in Nat
        BY <3>2
      <3>4. packetID'[x[1]] \in Nat /\ packetID'[x[1]] >= packetID[x[1]]
        BY <1>1, <1>3, <3>2
      <3>5. QED
        BY <3>1, <3>2, <3>3, <3>4
    <2>6. Ends'
      <3>1. \A x : Waits(x)' => EndOf(x)'
        <4> SUFFICES ASSUME NEW x, Waits(x)', ~IsData(x)
                     PROVE  packetID'[x[1]] > datagrams[x[1]]
          BY <1>3 DEF EndOf, IsData
        <4>1. Waits(x) \/ (x \in net' /\ x \notin net)
          BY <1>3 DEF Waits
        <4>2. CASE Waits(x)
          <5>1. x \in Datagram /\ EndOf(x)
            BY <4>2, SessionTypes DEF Places, Ends
          <5>2. EndOf(x)'
            BY <1>4, <5>1
          <5>3. QED
            BY <1>3, <5>2 DEF EndOf, IsData
        <4>3. CASE x \in net' /\ x \notin net
          BY <2>1, <4>3
        <4>4. QED
          BY <4>1, <4>2, <4>3
      <3>2. \A d \in Clients : client'[d] = "await" => packetID'[d] > datagrams'[d]
        <4> SUFFICES ASSUME NEW d \in Clients, d # c, client'[d] = "await"
                     PROVE  packetID'[d] > datagrams[d]
          BY <1>3, <2>1
        <4>1. QED
          BY <2>1 DEF Places, Ends
      <3>3. QED
        BY <3>1, <3>2 DEF Ends
    <2>7. QED
      BY <2>3, <2>4, <2>5, <2>6 DEF Places
  <1>7. QED
    BY <1>5, <1>6

\* A step that moves datagram y, or none with data, and sends nothing.
LEMMA Move ==
  ASSUME Places, UNCHANGED peers, NEW y, NEW l, NEW t,
         MovesTo(y, l, t), \A x : Waits(x)' => Waits(x)
  PROVE  Places'
  <1>1. Ends'
    BY DEF Places, Ends, EndOf, IsData, peers
  <1>2. UNCHANGED <<datagrams, packetID>>
    BY DEF peers
  <1>3. Sent' /\ AtMostOnce' /\ Known'
    <2> HIDE DEF IsData
    <2>1. Sent /\ AtMostOnce /\ Known
      BY DEF Places
    <2>2. QED
      BY <1>2, <2>1, MoveOne
  <1>4. QED
    BY <1>1, <1>3 DEF Places

LEMMA Rest ==
  ASSUME Places, UNCHANGED peers,
         \A x, k, s : IsData(x) => (InPlace(x, k, s)' <=> InPlace(x, k, s)),
         \A x : Waits(x)' => Waits(x)
  PROVE  Places'
  <1>1. Ends'
    BY DEF Places, Ends, EndOf, IsData, peers
  <1>2. QED
    BY <1>1, MoveNone DEF Places, peers

LEMMA DeliverPlaces ==
  ASSUME IInv, Places, NEW y \in net, Deliver(y)
  PROVE  Places'
  <1>1. /\ net' = net \ {y} /\ UNCHANGED <<peers, listener, accepted>>
        /\ InPlace(y, "net", 0)
    BY NetPlace DEF Deliver
  <1>2. IsData(y) => \A k, s : InPlace(y, k, s) <=> k = "net" /\ s = 0
    BY <1>1 DEF Places, AtMostOnce
  <1>3. ASSUME NEW t \in DOMAIN sessions,
               sessions' = [sessions EXCEPT ![t].queue = @ \cup {y}],
               UNCHANGED <<queue, lost>>
        PROVE  Places'
    <2> DEFINE r == [sessions[t] EXCEPT !.queue = @ \cup {y}]
    <2>2. sessions[t] \in Session /\ y \in Datagram
      BY SessionTypes DEF Waits
    <2>3. /\ r \in Session
          /\ r.queue = sessions[t].queue \cup {y} /\ r.got = sessions[t].got
          /\ sessions' = [sessions EXCEPT ![t] = r]
      BY <1>3, <2>2 DEF Session
    <2> HIDE DEF r
    <2>4. /\ DOMAIN sessions' = DOMAIN sessions /\ sessions'[t] = r
          /\ \A s \in DOMAIN sessions : s # t => sessions'[s] = sessions[s]
      BY <2>3, Update DEF IInv, SocketTypes
    <2>5. MovesTo(y, "socket", t)
      BY <1>1, <1>2, <1>3, <2>3, <2>4 DEF InPlace, MovesTo
    <2>6. \A x : Waits(x)' => Waits(x)
      BY <1>1, <1>3, <2>3, <2>4 DEF Waits
    <2>7. QED
      BY <1>1, <2>5, <2>6, Move
  <1>4. ASSUME UNCHANGED <<sessions, lost>>, queue' = queue \cup {y}
        PROVE  Places'
    <2>1. \A x : Waits(x)' => Waits(x)
      BY <1>1, <1>4 DEF Waits
    <2>2. MovesTo(y, "queue", 0)
      BY <1>1, <1>2, <1>4 DEF InPlace, MovesTo
    <2>3. QED
      BY <1>1, <2>1, <2>2, Move
  <1>5. ASSUME UNCHANGED <<sessions, queue>>, lost' = lost \cup DataOf({y})
        PROVE  Places'
    <2>1. \A x : Waits(x)' => Waits(x)
      BY <1>1, <1>5 DEF Waits
    <2>2. MovesTo(y, "lost", 0)
      BY <1>1, <1>2, <1>5 DEF InPlace, DataOf, MovesTo
    <2>3. QED
      BY <1>1, <2>1, <2>2, Move
  <1>6. QED
    BY <1>3, <1>4, <1>5 DEF Deliver

LEMMA LosePlaces ==
  ASSUME IInv, Places, Lose
  PROVE  Places'
  <1>1. UNCHANGED <<peers, queue, listener, accepted, sessions>>
    BY DEF Lose, accept
  <1>2. CASE \E y \in net : net' = net \ {y} /\ lost' = lost \cup DataOf({y})
    <2>1. PICK y \in net : net' = net \ {y} /\ lost' = lost \cup DataOf({y})
      BY <1>2
    <2>2. InPlace(y, "net", 0)
      BY NetPlace
    <2>3. IsData(y) => \A k, s : InPlace(y, k, s) <=> k = "net" /\ s = 0
      BY <2>2 DEF Places, AtMostOnce
    <2>4. MovesTo(y, "lost", 0)
      BY <1>1, <2>1, <2>3 DEF InPlace, DataOf, MovesTo
    <2>5. \A x : Waits(x)' => Waits(x)
      BY <1>1, <2>1 DEF Waits
    <2>6. QED
      BY <1>1, <2>4, <2>5, Move
  <1>3. CASE UNCHANGED <<net, lost>>
    <2>1. \A x : Waits(x)' => Waits(x)
      BY <1>1, <1>3 DEF Waits
    <2>2. \A x, k, s : InPlace(x, k, s)' <=> InPlace(x, k, s)
      BY <1>1, <1>3 DEF InPlace
    <2>3. QED
      BY <1>1, <2>1, <2>2, Rest
  <1>4. QED
    BY <1>2, <1>3 DEF Lose

\* A step that touches no datagram of the sockets and sessions.
LEMMA QuietPlaces ==
  ASSUME Places, UNCHANGED <<peers, net, queue, lost>>,
         listener = "connect" <=> listener' = "connect",
         listener = "connect" => accepted' = accepted,
         DOMAIN sessions' = DOMAIN sessions,
         \A s \in DOMAIN sessions : /\ sessions'[s].queue = sessions[s].queue
                                    /\ sessions'[s].got = sessions[s].got
  PROVE  Places'
  <1>1. \A x, k, s : InPlace(x, k, s)' <=> InPlace(x, k, s)
    BY DEF InPlace
  <1>2. \A x : Waits(x)' => Waits(x)
    BY DEF Waits
  <1>3. QED
    BY <1>1, <1>2, Rest

LEMMA ListenerPlaces ==
  ASSUME IInv, Places, NEW y \in queue, Listener(y)
  PROVE  Places'
  <1>1. /\ listener = "receive" /\ queue' = queue \ {y}
        /\ UNCHANGED <<peers, net, sessions>>
    BY DEF Listener, Drain, DropDuplicate, NewFlow, Received, wire
  <1>2. InPlace(y, "queue", 0)
    BY DEF InPlace
  <1>3. IsData(y) => \A k, s : InPlace(y, k, s) <=> k = "queue" /\ s = 0
    BY <1>2 DEF Places, AtMostOnce
  <1>4. \A x : Waits(x)' => Waits(x)
    BY <1>1 DEF Waits
  <1>5. CASE Drain(y) \/ DropDuplicate(y)
    <2>1. MovesTo(y, "lost", 0)
      <3>1. UNCHANGED listener /\ lost' = lost \cup DataOf({y})
        BY <1>5 DEF Drain, DropDuplicate, DataOf
      <3>2. QED
        BY <1>1, <1>3, <3>1 DEF InPlace, DataOf, MovesTo
    <2>2. QED
      BY <1>1, <1>4, <2>1, Move
  <1>6. CASE NewFlow(y)
    <2>1. listener' = "connect" /\ accepted' = y /\ lost' = lost
      BY <1>6 DEF NewFlow
    <2>2. MovesTo(y, "accepted", 0)
      BY <1>1, <1>3, <2>1 DEF InPlace, MovesTo
    <2>3. QED
      BY <1>1, <1>4, <2>2, Move
  <1>7. QED
    BY <1>5, <1>6 DEF Listener

\* The session gets what the listener has read and what is in its queue.
LEMMA ConnectPlaces ==
  ASSUME IInv, Places, Connect
  PROVE  Places'
  <1> DEFINE n == Len(sessions) + 1
             r == [peer |-> accepted[1], pc |-> "accepted", queue |-> queue,
                   got |-> {accepted}, tries |-> TryCount,
                   answer |-> Statistics]
  <1>1. /\ sessions' = Append(sessions, r)
        /\ listener = "connect" /\ listener' = "listen" /\ queue' = {}
        /\ UNCHANGED <<peers, net, lost>>
    BY DEF Connect, wire
  <1>2. sessions \in Seq(Session) /\ r \in Session
    <2>1. accepted \in Datagram /\ accepted[1] \in Clients
      BY <1>1 DEF IInv, Accepting, Datagram
    <2>2. QED
      BY <2>1, SessionsAssumption DEF Session, Pcs, IInv, SocketTypes
  <1>3. r.queue = queue /\ r.got = {accepted}
    OBVIOUS
  <1> HIDE DEF r
  <1>4. /\ \A t \in 1 .. Len(sessions) : sessions'[t] = sessions[t]
        /\ sessions'[n] = r
        /\ Len(sessions) \in Nat
        /\ DOMAIN sessions = 1 .. Len(sessions) /\ DOMAIN sessions' = 1 .. n
    <2>1. sessions' \in Seq(Session) /\ Len(sessions') = n
      BY <1>1, <1>2, AppendProperties
    <2>2. QED
      BY <1>1, <1>2, <2>1, AppendProperties, LenProperties
  <1>5. /\ n \in DOMAIN sessions' /\ n \notin DOMAIN sessions /\ n # 0
        /\ \A t : t \in DOMAIN sessions' <=> t \in DOMAIN sessions \/ t = n
        /\ \A t \in DOMAIN sessions : t # n /\ sessions'[t] = sessions[t]
    BY <1>4
  <1> HIDE DEF n
  <1>6. \A x, k, s :
          InPlace(x, k, s)' <=>
            \/ k \notin {"queue", "accepted"} /\ s # n /\ InPlace(x, k, s)
            \/ k = "socket" /\ s = n /\ InPlace(x, "queue", 0)
            \/ k = "got" /\ s = n /\ InPlace(x, "accepted", 0)
    BY <1>1, <1>3, <1>4, <1>5 DEF InPlace
  <1>7. \A x, s : /\ InPlace(x, "queue", s) => s = 0
                  /\ InPlace(x, "accepted", s) => s = 0
                  /\ \A k : ~InPlace(x, k, n)
    BY <1>5 DEF InPlace
  <1>8. Sent'
    <2> SUFFICES ASSUME NEW c \in Clients, NEW m \in 1 .. datagrams[c], m < packetID[c]
                 PROVE  \E k, s : InPlace(<<c, m>>, k, s)'
      BY <1>1 DEF Sent, peers
    <2>1. PICK k, s : InPlace(<<c, m>>, k, s)
      BY DEF Places, Sent
    <2>2. QED
      BY <1>6, <1>7, <2>1
  <1>9. AtMostOnce'
    <2> SUFFICES ASSUME NEW x, NEW k, NEW l, NEW s, NEW t, IsData(x),
                        InPlace(x, k, s)', InPlace(x, l, t)'
                 PROVE  k = l /\ s = t
      BY DEF AtMostOnce, IsData
    <2>1. \A i, j, u, v : InPlace(x, i, u) /\ InPlace(x, j, v) => i = j /\ u = v
      BY DEF Places, AtMostOnce
    <2>2. QED
      BY <1>6, <2>1
  <1>10. Known'
    <2> SUFFICES ASSUME NEW x, NEW k, NEW s, IsData(x), InPlace(x, k, s)'
                 PROVE  /\ x \in Datagram /\ x[2] < packetID[x[1]]
                        /\ x[2] <= datagrams[x[1]]
      BY <1>1 DEF Known, peers, IsData
    <2>1. \E l, t : InPlace(x, l, t)
      BY <1>6
    <2>2. QED
      BY <2>1 DEF Places, Known
  <1>11. Ends'
    <2>1. \A x : Waits(x)' => Waits(x)
      BY <1>1, <1>3, <1>4, <1>5 DEF Waits
    <2>2. QED
      BY <1>1, <2>1 DEF Places, Ends, EndOf, IsData, peers
  <1>12. QED
    BY <1>8, <1>9, <1>10, <1>11 DEF Places

\* What a step of session s does with its queue and what it has counted.
SessionStep(s, waiting, counted) ==
  /\ DOMAIN sessions' = DOMAIN sessions
  /\ sessions'[s].queue = waiting /\ sessions'[s].got = counted
  /\ \A t \in DOMAIN sessions : t # s =>
       /\ sessions'[t].queue = sessions[t].queue
       /\ sessions'[t].got = sessions[t].got

LEMMA SpawnPlaces ==
  ASSUME IInv, Places, Spawn
  PROVE  Places'
  <1> DEFINE s == Len(sessions)
  <1>1. s \in DOMAIN sessions /\ sessions \in Seq(Session) /\ sessions[s] \in Session
    BY LenProperties DEF Spawn, IInv, Accepting, SocketTypes
  <1>2. /\ DOMAIN sessions' = DOMAIN sessions
        /\ \A t \in DOMAIN sessions :
             sessions'[t] = IF t = s THEN [sessions[s] EXCEPT !.pc = Begun(sessions[s])]
                            ELSE sessions[t]
    <2>1. sessions \in [DOMAIN sessions -> Session]
      BY <1>1, LenProperties
    <2>2. QED
      BY <1>1, <2>1 DEF Spawn
  <1>3. \A t \in DOMAIN sessions : sessions'[t].queue = sessions[t].queue /\ sessions'[t].got = sessions[t].got
    BY <1>1, <1>2 DEF Session
  <1>4. QED
    BY <1>2, <1>3, QuietPlaces DEF Spawn, wire

\* A datagram in the socket of a session is counted, or lost in the silence.
LEMMA ReadPlaces ==
  ASSUME IInv, Places, NEW s \in DOMAIN sessions, NEW y \in sessions[s].queue,
         Read(s, y) \/ Repeat(s, y)
  PROVE  Places'
  <1>1. sessions \in [DOMAIN sessions -> Session] /\ sessions[s] \in Session
    BY LenProperties DEF IInv, SocketTypes
  <1>2. UNCHANGED <<peers, net, queue, listener, accepted>>
    BY DEF Read, Repeat, wire, accept
  <1>3. InPlace(y, "socket", s)
    BY DEF InPlace
  <1>4. IsData(y) => \A k, t : InPlace(y, k, t) <=> k = "socket" /\ t = s
    BY <1>3 DEF Places, AtMostOnce
  <1>5. CASE Read(s, y)
    <2>1. SessionStep(s, sessions[s].queue \ {y}, sessions[s].got \cup {y}) /\ lost' = lost
      BY <1>1, <1>5 DEF Read, SessionStep, Session
    <2>2. MovesTo(y, "got", s)
      BY <1>2, <1>4, <2>1 DEF MovesTo, InPlace, SessionStep
    <2>3. \A x : Waits(x)' => Waits(x)
      BY <1>2, <2>1 DEF Waits, SessionStep
    <2>4. QED
      BY <1>2, <2>2, <2>3, Move
  <1>6. CASE Repeat(s, y)
    <2>1. SessionStep(s, sessions[s].queue \ {y}, sessions[s].got) /\ lost' = lost \cup DataOf({y})
      BY <1>1, <1>6 DEF Repeat, SessionStep, Session
    <2>2. MovesTo(y, "lost", 0)
      BY <1>2, <1>4, <2>1 DEF MovesTo, InPlace, SessionStep, DataOf
    <2>3. \A x : Waits(x)' => Waits(x)
      BY <1>2, <2>1 DEF Waits, SessionStep
    <2>4. QED
      BY <1>2, <2>2, <2>3, Move
  <1>7. QED
    BY <1>5, <1>6

\* What is left in the socket of a session is lost with it.
LEMMA ClosePlaces ==
  ASSUME IInv, Places, NEW s \in DOMAIN sessions, Close(s)
  PROVE  Places'
  <1>1. sessions \in [DOMAIN sessions -> Session] /\ sessions[s] \in Session
    BY LenProperties DEF IInv, SocketTypes
  <1>2. UNCHANGED <<peers, net, queue, listener, accepted>>
    BY DEF Close, wire, accept
  <1>3. SessionStep(s, {}, sessions[s].got) /\ lost' = lost \cup DataOf(sessions[s].queue)
    BY <1>1 DEF Close, SessionStep, Session
  <1>4. \A x, k, t : IsData(x) =>
          (InPlace(x, k, t)' <=>
            \/ InPlace(x, k, t) /\ ~(k = "socket" /\ t = s)
            \/ k = "lost" /\ t = 0 /\ InPlace(x, "socket", s))
    BY <1>2, <1>3 DEF InPlace, SessionStep, DataOf
  <1>5. Sent'
    <2> SUFFICES ASSUME NEW c \in Clients, NEW m \in 1 .. datagrams[c], m < packetID[c]
                 PROVE  \E k, t : InPlace(<<c, m>>, k, t)'
      BY <1>2 DEF Sent, peers
    <2>1. PICK k, t : InPlace(<<c, m>>, k, t)
      BY DEF Places, Sent
    <2>2. IsData(<<c, m>>)
      BY DEF IsData
    <2>3. QED
      BY <1>4, <2>1, <2>2
  <1>6. AtMostOnce'
    <2> SUFFICES ASSUME NEW x, NEW k, NEW l, NEW t, NEW u, IsData(x),
                        InPlace(x, k, t)', InPlace(x, l, u)'
                 PROVE  k = l /\ t = u
      BY DEF AtMostOnce, IsData
    <2>1. \A i, j, v, w : InPlace(x, i, v) /\ InPlace(x, j, w) => i = j /\ v = w
      BY DEF Places, AtMostOnce
    <2>2. QED
      BY <1>4, <2>1
  <1>7. Known'
    <2> SUFFICES ASSUME NEW x, NEW k, NEW t, IsData(x), InPlace(x, k, t)'
                 PROVE  /\ x \in Datagram /\ x[2] < packetID[x[1]]
                        /\ x[2] <= datagrams[x[1]]
      BY <1>2 DEF Known, peers, IsData
    <2>1. \E l, u : InPlace(x, l, u)
      BY <1>4
    <2>2. QED
      BY <2>1 DEF Places, Known
  <1>8. Ends'
    <2>1. \A x : Waits(x)' => Waits(x)
      BY <1>2, <1>3 DEF Waits, SessionStep
    <2>2. QED
      BY <1>2, <2>1 DEF Places, Ends, EndOf, IsData, peers
  <1>9. QED
    BY <1>5, <1>6, <1>7, <1>8 DEF Places

LEMMA NextPlaces ==
  ASSUME IInv, Places, [Next]_vars
  PROVE  Places'
  <1>1. sessions \in [DOMAIN sessions -> Session]
    BY LenProperties DEF IInv, SocketTypes
  <1>2. CASE Refuse
    <2>1. PICK a \in acks : sessions' = [sessions EXCEPT ![a[1]].pc = "close"]
      BY <1>2 DEF Refuse
    <2>2. /\ DOMAIN sessions' = DOMAIN sessions
          /\ \A s \in DOMAIN sessions : /\ sessions'[s].queue = sessions[s].queue
                                        /\ sessions'[s].got = sessions[s].got
      BY <1>1, <2>1 DEF Session
    <2>3. QED
      BY <1>2, <2>2, QuietPlaces DEF Refuse, accept
  <1>3. ASSUME NEW s \in DOMAIN sessions, Answer(s) \/ Silence(s) \/ Remove(s)
        PROVE  Places'
    <2>1. PICK pc : sessions' = [sessions EXCEPT ![s].pc = pc]
      BY <1>3 DEF Answer, Silence, Remove
    <2>2. /\ DOMAIN sessions' = DOMAIN sessions
          /\ \A t \in DOMAIN sessions : /\ sessions'[t].queue = sessions[t].queue
                                        /\ sessions'[t].got = sessions[t].got
      BY <1>1, <2>1 DEF Session
    <2>3. QED
      BY <1>3, <2>2, QuietPlaces DEF Answer, Silence, Remove, accept, wire
  <1>4. CASE UNCHANGED vars
    BY <1>4, QuietPlaces DEF vars, wire, accept
  <1>5. QED
    BY <1>2, <1>3, <1>4, ClientPlaces, DeliverPlaces, LosePlaces, ListenerPlaces,
       ConnectPlaces, SpawnPlaces, ReadPlaces, ClosePlaces DEF Next, Server
-----------------------------------------------------------------------------
(* The threads of a flow, and what they have counted.                      *)

\* The sessions go on: what they have counted, the data that is lost and that
\* something has been overtaken or mixed stay so.
Onward ==
  /\ DOMAIN sessions' = DOMAIN sessions /\ datagrams' = datagrams
  /\ \A s \in DOMAIN sessions :
       /\ sessions'[s].peer = sessions[s].peer
       /\ sessions[s].got \subseteq sessions'[s].got
  /\ lost \subseteq lost' /\ (late => late')

LEMMA OrderlyBefore ==
  ASSUME FInv, Onward, ~late', ~Mixed'
  PROVE  Orderly /\ ~Mixed
  <1>1. ~Mixed
    BY DEF Onward, Mixed
  <1>2. QED
    BY <1>1 DEF FInv, Onward

LEMMA OrderlyAfter ==
  ASSUME Orderly, Onward,
         listener' = "receive" => drain', listener' = "connect" => IsData(accepted)',
         \A s \in DOMAIN sessions :
           /\ sessions'[s].pc = "accepted" =>
                sessions[s].pc = "accepted" /\ sessions'[s].got = sessions[s].got
           /\ Over(s)' => Over(s) \/ Settled(s)'
  PROVE  Orderly'
  <1>1. \A s \in DOMAIN sessions : Settled(s) => Settled(s)'
    BY DEF Onward, Settled
  <1>2. QED
    BY <1>1 DEF Orderly, Onward, IsData

\* The table, the queue and the answers after a step of session s alone.
StepOf(s, pc) ==
  /\ DOMAIN sessions' = DOMAIN sessions
  /\ \A t \in DOMAIN sessions :
       /\ sessions'[t].peer = sessions[t].peer
       /\ sessions'[t].pc = IF t = s THEN pc ELSE sessions[t].pc

LEMMA OnwardTable ==
  ASSUME IInv, FInv, NEW s \in DOMAIN sessions, NEW pc, StepOf(s, pc),
         UNCHANGED <<peers, accepted, flows>>, queue' \subseteq queue,
         listener = "connect" => listener' = "connect",
         pc # "gone", Open(s)' => Open(s),
         Over(s) => pc \notin {"accepted", "receive"},
         \A a \in acks' : a \in acks \/ (a[1] = s /\ pc \notin {"accepted", "receive"})
  PROVE  Backed' /\ Unqueued' /\ Answered'
  <1>1. \A t \in DOMAIN sessions : (Over(t) => Over(t)') /\ (Open(t)' => Open(t))
                                   /\ (Alive(t) => Alive(t)')
    BY DEF StepOf, Over, Open, Alive
  <1>2. Backed'
    BY <1>1 DEF FInv, Backed, StepOf
  <1>3. Unqueued'
    BY <1>1 DEF FInv, Unqueued, StepOf
  <1>4. Answered'
    <2>1. \A a \in acks' : Over(a[1])'
      <3> SUFFICES ASSUME NEW a \in acks' PROVE Over(a[1])'
        OBVIOUS
      <3>1. CASE a \in acks
        BY <1>1, <3>1 DEF FInv, Answered, IInv, Answers
      <3>2. CASE a[1] = s /\ pc \notin {"accepted", "receive"}
        BY <3>2 DEF Over, StepOf
      <3>3. QED
        BY <3>1, <3>2
    <2>2. \A c \in Clients : report'[c] # <<>> =>
            sessions'[report'[c][1]].peer = c /\ Over(report[c][1])'
      BY <1>1 DEF FInv, Answered, IInv, Answers, StepOf, peers
    <2>3. QED
      BY <2>1, <2>2 DEF Answered, peers
  <1>5. QED
    BY <1>2, <1>3, <1>4

LEMMA ClientFlows ==
  ASSUME IInv, FInv, NEW c \in Clients, Client(c)
  PROVE  FInv'
  <1>1. UNCHANGED <<accept, flows, sessions, lost, late, datagrams>>
    BY DEF Client, Send, Finish, Retry, ReadAnswer, GiveUp
  <1>2. Places'
    BY ClientPlaces DEF FInv
  <1>3. Backed' /\ Unqueued'
    BY <1>1 DEF FInv, Backed, Unqueued, Alive, Open, accept
  <1>4. Answered'
    <2>1. CASE report' = report /\ acks' \subseteq acks
      BY <1>1, <2>1 DEF FInv, Answered, Over
    <2>2. CASE ReadAnswer(c)
      <3>1. PICK a \in acks : /\ sessions[a[1]].peer = c
                              /\ report' = [report EXCEPT ![c] = a]
                              /\ acks' = acks \ {a}
        BY <2>2 DEF ReadAnswer
      <3>2. \A d \in Clients : report'[d] = report[d] \/ (d = c /\ report'[d] = a)
        BY <3>1
      <3>3. QED
        BY <1>1, <3>1, <3>2 DEF FInv, Answered, Over
    <2>3. QED
      BY <2>1, <2>2 DEF Client, Send, Finish, Retry, GiveUp, wire
  <1>5. ~late' /\ ~Mixed' => Orderly'
    BY <1>1 DEF FInv, Orderly, Mixed, Over, Settled, accept
  <1>6. QED
    BY <1>2, <1>3, <1>4, <1>5 DEF FInv

LEMMA DeliverFlows ==
  ASSUME IInv, FInv, NEW y \in net, Deliver(y)
  PROVE  FInv'
  <1>1. sessions \in [DOMAIN sessions -> Session]
    BY LenProperties DEF IInv, SocketTypes
  <1>2. /\ UNCHANGED <<peers, acks, listener, drain, accepted, flows, late>>
        /\ DOMAIN sessions' = DOMAIN sessions
        /\ \A s \in DOMAIN sessions : /\ sessions'[s].peer = sessions[s].peer
                                      /\ sessions'[s].pc = sessions[s].pc
                                      /\ sessions'[s].got = sessions[s].got
        /\ lost \subseteq lost'
        /\ \A x \in queue' : x \in queue \/
             (x = y /\ \A s \in DOMAIN sessions : sessions[s].peer = y[1] => ~Open(s))
    BY <1>1 DEF Deliver, Session
  <1>3. Places'
    BY DeliverPlaces DEF FInv
  <1>4. \A s \in DOMAIN sessions : /\ Alive(s)' <=> Alive(s)
                                   /\ Open(s)' <=> Open(s)
                                   /\ Over(s)' <=> Over(s)
    BY <1>2 DEF Alive, Open, Over
  <1>5. Backed' /\ Unqueued'
    BY <1>2, <1>4 DEF FInv, Backed, Unqueued
  <1>6. Answered'
    BY <1>2, <1>4 DEF FInv, Answered, IInv, Answers, peers
  <1>7. ASSUME ~late', ~Mixed' PROVE Orderly'
    <2>1. Onward
      BY <1>2 DEF Onward, peers
    <2>2. Orderly
      BY <1>7, <2>1, OrderlyBefore
    <2>3. QED
      BY <1>2, <1>4, <2>1, <2>2, OrderlyAfter DEF Orderly, IsData
  <1>8. QED
    BY <1>3, <1>5, <1>6, <1>7 DEF FInv

LEMMA LoseFlows ==
  ASSUME IInv, FInv, Lose \/ UNCHANGED vars
  PROVE  FInv'
  <1>1. /\ UNCHANGED <<peers, accept, flows, sessions, late>>
        /\ acks' \subseteq acks /\ lost \subseteq lost'
    BY DEF Lose, vars, wire
  <1>2. Places'
    BY NextPlaces DEF FInv, Next
  <1>3. Backed' /\ Unqueued' /\ Answered'
    BY <1>1 DEF FInv, Backed, Unqueued, Answered, Alive, Open, Over, accept, peers
  <1>4. ASSUME ~late', ~Mixed' PROVE Orderly'
    BY <1>1, <1>4 DEF FInv, Orderly, Mixed, Over, Settled, accept, peers
  <1>5. QED
    BY <1>2, <1>3, <1>4 DEF FInv

\* With nothing overtaken or mixed the listener drops no data: that of a flow
\* which is in the table comes to its thread, or was there before its end.
LEMMA ListenerFlows ==
  ASSUME IInv, FInv, NEW y \in queue, Listener(y)
  PROVE  FInv'
  <1>1. /\ listener = "receive" /\ queue' = queue \ {y}
        /\ UNCHANGED <<peers, wire, sessions, late>> /\ lost \subseteq lost'
    BY DEF Listener, Drain, DropDuplicate, NewFlow, Received
  <1>2. Places' /\ y \in Datagram
    BY ListenerPlaces, SessionTypes DEF FInv, Waits
  <1>3. Unqueued' /\ Answered'
    BY <1>1 DEF FInv, Unqueued, Answered, Open, Over, peers, wire
  <1>4. Onward
    BY <1>1 DEF Onward, peers
  <1>5. \A s \in DOMAIN sessions : Over(s)' <=> Over(s)
    BY <1>1 DEF Over
  <1>6. CASE Drain(y)
    <2>1. UNCHANGED <<flows, listener, accepted, drain>>
      BY <1>6 DEF Drain
    <2>2. Backed'
      BY <1>1, <2>1 DEF FInv, Backed, Alive
    <2>3. ASSUME ~late', ~Mixed' PROVE Orderly'
      <3>1. Orderly
        BY <1>4, <2>3, OrderlyBefore
      <3>2. QED
        BY <1>1, <1>4, <1>5, <2>1, <3>1, OrderlyAfter DEF Orderly, IsData
    <2>4. QED
      BY <1>2, <1>3, <2>2, <2>3 DEF FInv
  <1>7. CASE DropDuplicate(y)
    <2>1. UNCHANGED <<flows, listener, accepted>> /\ y[1] \in flows
          /\ (IsData(y) \/ ~drain)
      BY <1>7 DEF DropDuplicate, Received, Iperf_flow_present
    <2>2. Backed'
      BY <1>1, <2>1 DEF FInv, Backed, Alive
    <2>3. ASSUME ~late', ~Mixed' PROVE FALSE
      <3>1. Orderly
        BY <1>4, <2>3, OrderlyBefore
      <3>2. IsData(y)
        BY <1>1, <2>1, <3>1 DEF Orderly
      <3>3. PICK s \in DOMAIN sessions : Alive(s) /\ sessions[s].peer = y[1]
        BY <1>1, <2>1 DEF FInv, Backed
      <3>4. ~Open(s)
        BY <3>3 DEF FInv, Unqueued
      <3>5. Over(s)
        BY <3>3, <3>4, SessionTypes DEF Over, Open, Alive, Session, Pcs
      <3>6. Settled(s)
        BY <3>1, <3>5 DEF Orderly
      <3>7. InPlace(y, "queue", 0)
        BY DEF InPlace
      <3>8. y = <<y[1], y[2]>> /\ y[2] \in 1 .. datagrams[y[1]]
        <4>1. y[2] <= datagrams[y[1]] /\ y[1] \in Clients /\ y[2] \in Int
          BY <1>2, <3>2, <3>7 DEF FInv, Places, Known, Datagram
        <4>2. datagrams[y[1]] \in Nat
          BY <4>1 DEF IInv, PeerTypes
        <4>3. QED
          BY <1>2, <3>2, <4>1, <4>2 DEF Datagram, IsData
      <3>9. y \in sessions[s].got \cup lost
        BY <3>3, <3>6, <3>8 DEF Settled
      <3>10. InPlace(y, "got", s) \/ InPlace(y, "lost", 0)
        BY <3>9 DEF InPlace
      <3>11. QED
        BY <3>2, <3>7, <3>10 DEF FInv, Places, AtMostOnce
    <2>4. QED
      BY <1>2, <1>3, <2>2, <2>3 DEF FInv
  <1>8. CASE NewFlow(y)
    <2>1. /\ listener' = "connect" /\ accepted' = y /\ flows' = flows \cup {y[1]}
          /\ (IsData(y) \/ ~drain)
      BY <1>8 DEF NewFlow, Received
    <2>2. Backed'
      BY <1>1, <2>1 DEF FInv, Backed, Alive
    <2>3. ASSUME ~late', ~Mixed' PROVE Orderly'
      <3>1. Orderly
        BY <1>4, <2>3, OrderlyBefore
      <3>2. IsData(accepted)'
        BY <1>1, <2>1, <3>1 DEF Orderly, IsData
      <3>3. QED
        BY <1>1, <1>4, <1>5, <2>1, <3>1, <3>2, OrderlyAfter DEF Orderly
    <2>4. QED
      BY <1>2, <1>3, <2>2, <2>3 DEF FInv
  <1>9. QED
    BY <1>6, <1>7, <1>8 DEF Listener

\* The flow that is accepted has not had a thread before, unless something was
\* overtaken or mixed: one that has ended had all of its data, or it was lost.
LEMMA ConnectFlows ==
  ASSUME IInv, FInv, Connect
  PROVE  FInv'
  <1> PICK n : n = Len(sessions) + 1
    OBVIOUS
  <1> DEFINE r == [peer |-> accepted[1], pc |-> "accepted", queue |-> queue,
                   got |-> {accepted}, tries |-> TryCount,
                   answer |-> Statistics]
  <1>1. /\ sessions' = Append(sessions, r)
        /\ listener = "connect" /\ listener' = "listen" /\ queue' = {}
        /\ UNCHANGED <<peers, acks, flows, lost, late>>
    BY DEF Connect, wire
  <1>2. sessions \in Seq(Session) /\ r \in Session /\ accepted \in Datagram
    <2>1. accepted \in Datagram /\ accepted[1] \in Clients
      BY <1>1 DEF IInv, Accepting, Datagram
    <2>2. QED
      BY <2>1, SessionsAssumption DEF Session, Pcs, IInv, SocketTypes
  <1>3. r.peer = accepted[1] /\ r.pc = "accepted" /\ r.got = {accepted}
    OBVIOUS
  <1> HIDE DEF r
  <1>4. /\ \A t \in 1 .. Len(sessions) : sessions'[t] = sessions[t]
        /\ sessions'[n] = r
        /\ Len(sessions) \in Nat
        /\ DOMAIN sessions = 1 .. Len(sessions) /\ DOMAIN sessions' = 1 .. n
    <2>1. sessions' \in Seq(Session) /\ Len(sessions') = n
      BY <1>1, <1>2, AppendProperties
    <2>2. QED
      BY <1>1, <1>2, <2>1, AppendProperties, LenProperties
  <1>5. /\ n \in DOMAIN sessions' /\ n \notin DOMAIN sessions
        /\ \A t : t \in DOMAIN sessions' <=> t \in DOMAIN sessions \/ t = n
        /\ \A t \in DOMAIN sessions : t # n /\ sessions'[t] = sessions[t]
    BY <1>4
  <1>6. Places'
    BY ConnectPlaces DEF FInv
  <1>7. \A t \in DOMAIN sessions : (Over(t)' <=> Over(t)) /\ (Alive(t)' <=> Alive(t))
                                   /\ (Settled(t)' <=> Settled(t))
    BY <1>1, <1>5 DEF Over, Alive, Settled, peers
  <1>8. Backed'
    <2>1. Alive(n)' /\ sessions'[n].peer = accepted[1]
      BY <1>3, <1>4 DEF Alive
    <2>2. QED
      BY <1>1, <1>5, <1>7, <2>1 DEF FInv, Backed
  <1>9. Unqueued' /\ Answered'
    BY <1>1, <1>5, <1>7 DEF FInv, Unqueued, Answered, IInv, Answers, peers
  <1>10. ASSUME ~late', ~Mixed' PROVE Orderly'
    <2>1. ~Mixed
      BY <1>5, <1>10 DEF Mixed
    <2>2. Orderly
      BY <1>1, <1>10, <2>1 DEF FInv
    <2>3. ASSUME NEW t \in DOMAIN sessions, sessions[t].peer = accepted[1]
          PROVE  FALSE
      <3>1. ~Alive(t)
        BY <1>1, <2>3 DEF IInv, Accepting
      <3>2. Settled(t)
        BY <2>2, <3>1 DEF Orderly, Over, Alive
      <3>3. IsData(accepted) /\ InPlace(accepted, "accepted", 0)
        BY <1>1, <2>2 DEF Orderly, InPlace
      <3>4. accepted = <<accepted[1], accepted[2]>> /\ accepted[2] \in 1 .. datagrams[accepted[1]]
        <4>1. accepted[2] <= datagrams[accepted[1]] /\ accepted[1] \in Clients /\ accepted[2] \in Int
          BY <1>2, <3>3 DEF FInv, Places, Known, Datagram
        <4>2. datagrams[accepted[1]] \in Nat
          BY <4>1 DEF IInv, PeerTypes
        <4>3. QED
          BY <1>2, <3>3, <4>1, <4>2 DEF Datagram, IsData
      <3>5. accepted \in sessions[t].got \cup lost
        BY <2>3, <3>2, <3>4 DEF Settled
      <3>6. InPlace(accepted, "got", t) \/ InPlace(accepted, "lost", 0)
        BY <3>5 DEF InPlace
      <3>7. QED
        BY <3>3, <3>6 DEF FInv, Places, AtMostOnce
    <2>4. sessions'[n].peer = accepted[1] /\ ~Over(n)'
          /\ \A x \in sessions'[n].got : IsData(x)
      BY <1>1, <1>3, <1>4, <2>2 DEF Over, Orderly
    <2>5. /\ \A t \in DOMAIN sessions' :
               sessions'[t].pc = "accepted" => \A x \in sessions'[t].got : IsData(x)
          /\ \A t \in DOMAIN sessions' : Over(t)' => Settled(t)'
      BY <1>5, <1>7, <2>2, <2>4 DEF Orderly
    <2>6. \A t, u \in DOMAIN sessions' : sessions'[t].peer = sessions'[u].peer => t = u
      BY <1>5, <2>2, <2>3, <2>4 DEF Orderly
    <2>7. QED
      BY <1>1, <2>5, <2>6 DEF Orderly, IsData
  <1>11. QED
    BY <1>6, <1>8, <1>9, <1>10 DEF FInv

LEMMA SpawnFlows ==
  ASSUME IInv, FInv, Spawn
  PROVE  FInv'
  <1>1. PICK s : s = Len(sessions)
    OBVIOUS
  <1>2. /\ s \in DOMAIN sessions /\ sessions[s].pc = "accepted"
        /\ sessions \in [DOMAIN sessions -> Session]
    BY <1>1, LenProperties DEF Spawn, IInv, Accepting, SocketTypes
  <1>3. PICK pc : pc = Begun(sessions[s])
    OBVIOUS
  <1>4. pc \in {"receive", "ack"}
    BY <1>3 DEF Begun
  <1>5. /\ listener = "listen" /\ listener' \in {"receive", "done"} /\ drain'
        /\ sessions' = [sessions EXCEPT ![s].pc = pc]
        /\ UNCHANGED <<peers, acks, queue, flows, lost, late>>
    BY <1>1, <1>3 DEF Spawn, wire
  <1>6. StepOf(s, pc) /\ \A t \in DOMAIN sessions : sessions'[t].got = sessions[t].got
    BY <1>2, <1>5 DEF StepOf, Session
  <1>7. Places'
    BY SpawnPlaces DEF FInv
  <1>8. \A t \in DOMAIN sessions : /\ Alive(t)' <=> Alive(t)
                                   /\ Open(t)' <=> Open(t)
                                   /\ Over(t) => Over(t)'
    BY <1>2, <1>4, <1>6 DEF StepOf, Alive, Open, Over
  <1>9. Backed' /\ Unqueued'
    BY <1>5, <1>6, <1>8 DEF FInv, Backed, Unqueued, StepOf
  <1>10. Answered'
    BY <1>5, <1>6, <1>8 DEF FInv, Answered, IInv, Answers, StepOf, peers
  <1>11. ASSUME ~late', ~Mixed' PROVE Orderly'
    <2>1. Onward
      BY <1>5, <1>6 DEF Onward, StepOf, peers
    <2>2. Orderly
      BY <1>11, <2>1, OrderlyBefore
    <2>3. pc = "receive"
      BY <1>2, <1>3, <2>2 DEF Orderly, Begun
    <2>4. \A t \in DOMAIN sessions :
            /\ sessions'[t].pc = "accepted" =>
                 sessions[t].pc = "accepted" /\ sessions'[t].got = sessions[t].got
            /\ Over(t)' => Over(t)
      BY <1>6, <2>3 DEF StepOf, Over
    <2>5. QED
      BY <1>5, <2>1, <2>2, <2>4, OrderlyAfter
  <1>12. QED
    BY <1>7, <1>9, <1>10, <1>11 DEF FInv

\* A thread that has read the end of its flow has all of its data, unless some
\* is lost: none is under way, and no other thread has any.
LEMMA ReadSettles ==
  ASSUME IInv, Places, Orderly, ~Mixed, NEW s \in DOMAIN sessions,
         sessions[s].pc = "receive", NEW y \in sessions[s].queue, ~IsData(y),
         y[1] = sessions[s].peer, Pending(y[1]) = {}
  PROVE  Settled(s)
  <1> SUFFICES ASSUME NEW n \in 1 .. datagrams[sessions[s].peer]
               PROVE  <<sessions[s].peer, n>> \in sessions[s].got \cup lost
    BY DEF Settled
  <1> DEFINE c == sessions[s].peer
             d == <<c, n>>
  <1>1. c \in Clients
    BY SessionTypes DEF Session
  <1>2. packetID[c] \in Nat /\ datagrams[c] \in Nat
    BY <1>1 DEF IInv, PeerTypes
  <1>3. packetID[c] > datagrams[c]
    BY DEF Places, Ends, EndOf, Waits
  <1>4. PICK k, t : InPlace(d, k, t)
    BY <1>1, <1>2, <1>3 DEF Places, Sent
  <1>5. IsData(d) /\ d[1] = c
    BY DEF IsData
  <1>6. k \notin {"net", "queue", "socket"}
    BY <1>4, <1>5 DEF Pending, InPlace
  <1>7. k # "accepted"
    <2>1. Alive(s)
      BY DEF Alive
    <2>2. QED
      BY <1>4, <1>5, <2>1 DEF InPlace, IInv, Accepting
  <1>8. k = "got" => t = s
    <2>1. k = "got" => t \in DOMAIN sessions /\ d \in sessions[t].got
      BY <1>4 DEF InPlace
    <2>2. k = "got" => sessions[t].peer = c
      BY <1>5, <2>1 DEF Mixed
    <2>3. QED
      BY <2>1, <2>2 DEF Orderly
  <1>9. QED
    BY <1>4, <1>6, <1>7, <1>8 DEF InPlace

LEMMA ReadFlows ==
  ASSUME IInv, FInv, NEW s \in DOMAIN sessions, NEW y \in sessions[s].queue, Read(s, y)
  PROVE  FInv'
  <1>1. sessions \in [DOMAIN sessions -> Session]
    BY LenProperties DEF IInv, SocketTypes
  <1>2. PICK pc : pc = IF IsData(y) THEN "receive" ELSE "ack"
    OBVIOUS
  <1>3. /\ sessions[s].pc = "receive"
        /\ sessions' = [sessions EXCEPT ![s].queue = @ \ {y}, ![s].got = @ \cup {y},
                                        ![s].pc = pc]
        /\ late' = (late \/ (~IsData(y) /\ Pending(y[1]) # {}))
        /\ UNCHANGED <<peers, wire, accept, flows, lost>>
    BY <1>2 DEF Read
  <1>4. /\ StepOf(s, pc) /\ sessions'[s].got = sessions[s].got \cup {y}
        /\ \A t \in DOMAIN sessions : t # s => sessions'[t].got = sessions[t].got
    BY <1>1, <1>3 DEF StepOf, Session
  <1>5. Places'
    BY ReadPlaces DEF FInv
  <1>6. /\ Open(s)' => Open(s)
        /\ ~Over(s) /\ pc # "gone"
    BY <1>2, <1>3 DEF Open, Over
  <1>7. Backed' /\ Unqueued' /\ Answered'
    BY <1>3, <1>4, <1>6, OnwardTable DEF accept, wire
  <1>8. ASSUME ~late', ~Mixed' PROVE Orderly'
    <2>1. Onward
      BY <1>3, <1>4 DEF Onward, StepOf, peers
    <2>2. Orderly /\ ~Mixed
      BY <1>8, <2>1, OrderlyBefore
    <2>3. Over(s)' => Settled(s)'
      <3> SUFFICES ASSUME Over(s)' PROVE Settled(s)'
        OBVIOUS
      <3>1. ~IsData(y)
        BY <1>2, <1>4 DEF Over, StepOf
      <3>2. y[1] = sessions[s].peer
        BY <1>4, <1>8 DEF Mixed, StepOf
      <3>3. Pending(y[1]) = {}
        BY <1>3, <1>8, <3>1
      <3>4. Settled(s)
        BY <1>3, <2>2, <3>1, <3>2, <3>3, ReadSettles DEF FInv
      <3>5. QED
        BY <2>1, <3>4 DEF Settled, Onward
    <2>4. \A t \in DOMAIN sessions :
            /\ sessions'[t].pc = "accepted" =>
                 sessions[t].pc = "accepted" /\ sessions'[t].got = sessions[t].got
            /\ Over(t)' => Over(t) \/ Settled(t)'
      <3> SUFFICES ASSUME NEW t \in DOMAIN sessions
                   PROVE  /\ sessions'[t].pc = "accepted" =>
                               sessions[t].pc = "accepted" /\ sessions'[t].got = sessions[t].got
                          /\ Over(t)' => Over(t) \/ Settled(t)'
        OBVIOUS
      <3>1. CASE t = s
        BY <1>2, <1>4, <2>3, <3>1 DEF StepOf
      <3>2. CASE t # s
        BY <1>4, <3>2 DEF StepOf, Over
      <3>3. QED
        BY <3>1, <3>2
    <2>5. UNCHANGED <<listener, drain, accepted>>
      BY <1>3 DEF accept
    <2>6. QED
      BY <2>1, <2>2, <2>4, <2>5, OrderlyAfter DEF Orderly, IsData
  <1>9. QED
    BY <1>5, <1>7, <1>8 DEF FInv

\* A session that has come to its end goes on to that of its thread.
LEMMA OverFlows ==
  ASSUME IInv, FInv, Places', NEW s \in DOMAIN sessions, NEW pc, StepOf(s, pc),
         \A t \in DOMAIN sessions : sessions'[t].got = sessions[t].got,
         Over(s), sessions[s].pc # "gone", pc \notin {"accepted", "receive", "gone"},
         UNCHANGED <<peers, accept, flows, late>>, lost \subseteq lost',
         Open(s)' => Open(s),
         \A a \in acks' : a \in acks \/ a[1] = s
  PROVE  FInv'
  <1>1. UNCHANGED <<listener, drain, accepted, queue>>
    BY DEF accept
  <1>2. Backed' /\ Unqueued' /\ Answered'
    BY <1>1, OnwardTable
  <1>3. ASSUME ~late', ~Mixed' PROVE Orderly'
    <2>1. Onward
      BY DEF Onward, StepOf, peers
    <2>2. Orderly
      BY <1>3, <2>1, OrderlyBefore
    <2>3. \A t \in DOMAIN sessions :
            /\ sessions'[t].pc = "accepted" => sessions[t].pc = "accepted"
            /\ Over(t)' => Over(t)
      BY DEF StepOf, Over
    <2>4. QED
      BY <1>1, <2>1, <2>2, <2>3, OrderlyAfter DEF Orderly, IsData
  <1>4. QED
    BY <1>2, <1>3 DEF FInv

LEMMA EndFlows ==
  ASSUME IInv, FInv, NEW s \in DOMAIN sessions,
         \/ \E y \in sessions[s].queue : Repeat(s, y)
         \/ Answer(s) \/ Silence(s) \/ Close(s)
  PROVE  FInv'
  <1>1. sessions \in [DOMAIN sessions -> Session]
    BY LenProperties DEF IInv, SocketTypes
  <1>2. Places'
    BY NextPlaces DEF FInv, Next, Server
  <1>3. /\ UNCHANGED <<peers, accept, flows, late>> /\ lost \subseteq lost'
        /\ \A a \in acks' : a \in acks \/ a[1] = s
    <2>1. CASE \E y \in sessions[s].queue : Repeat(s, y)
      BY <2>1 DEF Repeat, wire
    <2>2. CASE Answer(s)
      BY <2>2 DEF Answer
    <2>3. CASE Silence(s) \/ Close(s)
      BY <2>3 DEF Silence, Close, wire
    <2>4. QED
      BY <2>1, <2>2, <2>3
  <1>4. PICK pc \in {"ack", "silence", "close", "remove"} :
          /\ StepOf(s, pc)
          /\ \A t \in DOMAIN sessions : sessions'[t].got = sessions[t].got
          /\ pc # "remove" => sessions[s].pc \in {"ack", "silence"}
    <2>1. CASE \E y \in sessions[s].queue : Repeat(s, y)
      <3>1. PICK y, pc : /\ pc = IF sessions[s].tries > 1 THEN "ack" ELSE "close"
                         /\ Repeat(s, y)
        BY <2>1
      <3>2. /\ StepOf(s, pc)
            /\ \A t \in DOMAIN sessions : sessions'[t].got = sessions[t].got
            /\ sessions[s].pc = "silence"
        BY <1>1, <3>1 DEF Repeat, StepOf, Session
      <3>3. QED
        BY <3>1, <3>2
    <2>2. CASE Answer(s)
      <3>1. /\ StepOf(s, "silence")
            /\ \A t \in DOMAIN sessions : sessions'[t].got = sessions[t].got
        BY <1>1, <2>2 DEF Answer, StepOf, Session
      <3>2. QED
        BY <2>2, <3>1 DEF Answer
    <2>3. CASE Silence(s)
      <3>1. /\ StepOf(s, "close")
            /\ \A t \in DOMAIN sessions : sessions'[t].got = sessions[t].got
        BY <1>1, <2>3 DEF Silence, StepOf, Session
      <3>2. QED
        BY <2>3, <3>1 DEF Silence
    <2>4. CASE Close(s)
      <3>1. /\ StepOf(s, "remove")
            /\ \A t \in DOMAIN sessions : sessions'[t].got = sessions[t].got
        BY <1>1, <2>4 DEF Close, StepOf, Session
      <3>2. QED
        BY <3>1
    <2>5. QED
      BY <2>1, <2>2, <2>3, <2>4
  <1>5. Over(s) /\ sessions[s].pc # "gone" /\ (Open(s)' => Open(s))
    <2>1. sessions[s].pc \in {"ack", "silence", "close"}
      BY DEF Repeat, Answer, Silence, Close
    <2>2. QED
      BY <1>4, <2>1 DEF Over, Open, StepOf
  <1>6. QED
    BY <1>2, <1>3, <1>4, <1>5, OverFlows

LEMMA RefuseFlows ==
  ASSUME IInv, FInv, Refuse
  PROVE  FInv'
  <1>1. sessions \in [DOMAIN sessions -> Session]
    BY LenProperties DEF IInv, SocketTypes
  <1>2. Places'
    BY NextPlaces DEF FInv, Next
  <1>3. PICK s \in DOMAIN sessions : /\ sessions[s].pc = "silence" /\ acks' \subseteq acks
                                     /\ sessions' = [sessions EXCEPT ![s].pc = "close"]
    BY DEF Refuse, IInv, Answers
  <1>4. StepOf(s, "close") /\ \A t \in DOMAIN sessions : sessions'[t].got = sessions[t].got
    BY <1>1, <1>3 DEF StepOf, Session
  <1>5. Over(s) /\ (Open(s)' => Open(s))
    BY <1>3 DEF Over, Open
  <1>6. QED
    BY <1>2, <1>3, <1>4, <1>5, OverFlows DEF Refuse

LEMMA RemoveFlows ==
  ASSUME IInv, FInv, NEW s \in DOMAIN sessions, Remove(s)
  PROVE  FInv'
  <1>1. sessions \in [DOMAIN sessions -> Session]
    BY LenProperties DEF IInv, SocketTypes
  <1>2. Places'
    BY NextPlaces DEF FInv, Next, Server
  <1>3. /\ sessions[s].pc = "remove" /\ flows' = flows \ {sessions[s].peer}
        /\ UNCHANGED <<peers, wire, accept, lost, late>>
        /\ StepOf(s, "gone") /\ \A t \in DOMAIN sessions : sessions'[t].got = sessions[t].got
    BY <1>1 DEF Remove, StepOf, Session
  <1>4. \A t \in DOMAIN sessions : /\ Over(t)' <=> Over(t)
                                   /\ Open(t)' <=> Open(t)
                                   /\ t # s => (Alive(t)' <=> Alive(t))
    BY <1>3 DEF StepOf, Over, Open, Alive
  <1>5. Backed'
    BY <1>3, <1>4 DEF FInv, Backed, StepOf, accept
  <1>6. Unqueued'
    BY <1>3, <1>4 DEF FInv, Unqueued, StepOf, accept
  <1>7. Answered'
    BY <1>3, <1>4 DEF FInv, Answered, IInv, Answers, StepOf, peers, wire
  <1>8. ASSUME ~late', ~Mixed' PROVE Orderly'
    <2>1. Onward
      BY <1>3 DEF Onward, StepOf, peers
    <2>2. Orderly
      BY <1>8, <2>1, OrderlyBefore
    <2>3. \A t \in DOMAIN sessions :
            sessions'[t].pc = "accepted" => sessions[t].pc = "accepted"
      BY <1>3 DEF StepOf
    <2>4. UNCHANGED <<listener, drain, accepted>>
      BY <1>3 DEF accept
    <2>5. QED
      BY <1>3, <1>4, <2>1, <2>2, <2>3, <2>4, OrderlyAfter DEF Orderly, IsData
  <1>9. QED
    BY <1>2, <1>5, <1>6, <1>7, <1>8 DEF FInv

LEMMA InductiveFlows ==
  IInv /\ FInv /\ [Next]_vars => FInv'
  <1> SUFFICES ASSUME IInv, FInv, [Next]_vars PROVE FInv'
    OBVIOUS
  <1>1. QED
    BY ClientFlows, DeliverFlows, LoseFlows, ListenerFlows, ConnectFlows, SpawnFlows,
       ReadFlows, EndFlows, RefuseFlows, RemoveFlows DEF Next, Server

\* A flow is accepted once, and what its client prints as the server's account
\* has each of its datagrams, counted or lost, as long as nothing is overtaken
\* by the end of its flow or read by the thread of another.
THEOREM Accounted == Spec => []FlowAccounted
  <1>1. IInv /\ FInv => FlowAccounted
    <2> SUFFICES ASSUME IInv, FInv PROVE FlowAccounted
      OBVIOUS
    <2>1. AcceptedOnce
      BY DEF FInv, Orderly, AcceptedOnce
    <2>2. ReportAccounts
      <3> SUFFICES ASSUME ~late, ~Mixed, NEW c \in Clients, report[c] # <<>>
                   PROVE  DataOf(sessions[report[c][1]].got)
                            = {<<c, n>> : n \in 1 .. datagrams[c]} \ lost
        BY DEF ReportAccounts
      <3>1. PICK s : s = report[c][1]
        OBVIOUS
      <3>2. s \in DOMAIN sessions /\ sessions[s].peer = c /\ Settled(s)
        BY <3>1 DEF FInv, Answered, IInv, Answers, Orderly
      <3>3. ASSUME NEW x \in DataOf(sessions[s].got)
            PROVE  x \in {<<c, n>> : n \in 1 .. datagrams[c]} \ lost
        <4>1. x \in sessions[s].got /\ IsData(x)
          BY DEF DataOf
        <4>2. InPlace(x, "got", s) /\ ~InPlace(x, "lost", 0)
          BY <3>2, <4>1 DEF InPlace, FInv, Places, AtMostOnce
        <4>3. x[1] = c /\ x \in Datagram /\ x[2] <= datagrams[c]
          BY <3>2, <4>1, <4>2 DEF Mixed, FInv, Places, Known
        <4>4. x = <<c, x[2]>> /\ x[2] \in 1 .. datagrams[c]
          BY <4>1, <4>3 DEF Datagram, IsData, IInv, PeerTypes
        <4>5. x \notin lost
          BY <4>2 DEF InPlace
        <4>6. QED
          BY <4>4, <4>5
      <3>4. ASSUME NEW n \in 1 .. datagrams[c], <<c, n>> \notin lost
            PROVE  <<c, n>> \in DataOf(sessions[s].got)
        BY <3>2, <3>4 DEF Settled, DataOf, IsData
      <3>5. QED
        BY <3>1, <3>3, <3>4
    <2>3. QED
      BY <2>1, <2>2 DEF FlowAccounted
  <1>2. QED
    BY <1>1, Initially, Inductive, InitPlaces, InductiveFlows, PTL DEF Spec
=============================================================================
