--------------------------- MODULE TcpConnection ---------------------------
(***************************************************************************)
(* A TCP connection between a Client object of iperf2, which sends traffic,*)
(* and a Server object, which receives it, and the calls that the two make *)
(* on it: write and recv, and the loops around them of socket_io.c.        *)
(*                                                                         *)
(* Bytes are counted, not looked at.  What a call returns is a length, or  *)
(* Again for an errno that is not fatal (EAGAIN of a socket timeout, EINTR)*)
(* or Fatal for any other.                                                 *)
(***************************************************************************)
EXTENDS Integers, Sequences, FiniteSets, FiniteSetsExt

CONSTANTS Buffer  \* bytes that the two kernels hold in one direction

ASSUME BufferAssumption == Buffer \in Nat \ {0}

VARIABLES test,         \* the settings of the two ends
          sent,         \* bytes that an end has handed to its kernel
          taken,        \* bytes of what an end has sent that the other has read
          dropped,      \* history: bytes read and thrown away by recvn
          shut,         \* the ends that have shut down writing
          closed,       \* the ends that have closed the socket
          call,         \* the call that each end is in, or what it returned
          over,         \* the ends whose end time has passed
          late,         \* ... in whose packetTime that can be seen
          interrupted   \* sInterupted of an end's process

Ends == {"client", "server"}
Peer(e) == CHOOSE p \in Ends : p # e

Again == -1
Fatal == -2

Is(f) == f \in test.flags

bytes   == <<sent, taken, dropped>>
wire    == <<bytes, shut, closed>>
signals == <<over, late, interrupted>>

NoCall == [op |-> "none", len |-> 0, done |-> 0]

ConnectionInit ==
    /\ sent = [e \in Ends |-> 0] /\ taken = [e \in Ends |-> 0] /\ dropped = [e \in Ends |-> 0]
    /\ shut = {} /\ closed = {} /\ over = {} /\ late = {} /\ interrupted = {}
    /\ call = [e \in Ends |-> NoCall]
-----------------------------------------------------------------------------
(* Time.  An end time is in the past when packetTime, the clock as the     *)
(* traffic loop has read it last, is.                                      *)

HasEnd(e) == IF e = "client" THEN Is("ModeTime")
             ELSE Is("ServerModeTime") \/ (Is("ModeTime") /\ Is("Reverse"))

\* Bound: the client's end time passes before more than this has been sent.
Past(e) ==
    e \in over \/ (e = "client" /\ HasEnd(e) /\ sent["client"] + sent["server"] >= test.most)

\* packetTime is set to the clock.
Seen(e) == IF Past(e) THEN late \cup {e} ELSE late

\* The receiver of a reverse test waits SLOPSECS longer than the sender.
Elapse(e) ==
    /\ HasEnd(e) /\ e \notin over
    /\ e = "server" /\ Is("Reverse") => Past("client")
    /\ over' = over \cup {e}
    /\ UNCHANGED <<test, wire, call, late, interrupted>>

\* The timer that the end of a bounceback client and of a server with an end
\* time is set to, and any signal of the user.
Interrupt(e) ==
    /\ e \notin interrupted
    /\ \/ Past(e) /\ (e = "server" \/ Is("BounceBack"))
       \/ Is("Interrupted")
    /\ interrupted' = interrupted \cup {e}
    /\ UNCHANGED <<test, wire, call, over, late>>

\* The timeouts that are set: a client's writes always have one, and so have
\* the reads of a server that reads bursts, two frames long (mFPS is 1 unless
\* an option or a header gives another).
RecvTimeout(e) ==
    IF e = "client" THEN Is("BounceBack") /\ (Is("Interval") \/ Is("ModeTime"))
    ELSE {"ServerInterval", "ServerModeTime", "Isochronous", "PeriodicBurst", "TripTime"} \cap test.flags # {}
SendTimeout(e) ==
    \/ e = "client"
    \/ Is("BounceBack") /\ (Is("ServerInterval") \/ Is("ServerModeTime"))
-----------------------------------------------------------------------------
(* Calls.                                                                  *)

Call(e, op, len) == call' = [call EXCEPT ![e] = [op |-> op, len |-> len, done |-> 0]]
Return(e, n) == call' = [call EXCEPT ![e] = [op |-> "returned", len |-> n, done |-> 0]]
Returned(e) == call[e].op = "returned"
Result(e) == call[e].len

Room(e) == Buffer - (sent[e] - taken[e])
Available(e) == sent[Peer(e)] - taken[Peer(e)]
\* The peer has closed a socket in which it had not read everything.
Reset(e) == Peer(e) \in closed /\ sent[e] > taken[e]

\* The kernel takes what it has room for, also for a peer that is gone.
Copy(e) ==
    LET c == call[e]
        n == Min({c.len - c.done, Room(e)})
    IN  /\ c.op \in {"write", "writen"} /\ n > 0 /\ ~(c.op = "writen" /\ e \in interrupted)
        /\ sent' = [sent EXCEPT ![e] = @ + n]
        /\ IF c.done + n = c.len THEN Return(e, c.len)
                                 ELSE call' = [call EXCEPT ![e].done = @ + n]
        /\ UNCHANGED <<test, taken, dropped, shut, closed, signals>>

\* A write that can do no more returns what it has done; without it, an error.
\* The reset of a peer that has closed comes before a timeout.
WriteFails(e) ==
    LET c == call[e]
    IN  /\ c.op = "write"
        /\ \/ /\ (Room(e) = 0 /\ SendTimeout(e) /\ Peer(e) \notin closed) \/ e \in interrupted
              /\ Return(e, IF c.done > 0 THEN c.done ELSE Again)
           \/ /\ Peer(e) \in closed
              /\ Return(e, IF c.done > 0 THEN c.done ELSE Fatal)
        /\ UNCHANGED <<test, wire, signals>>

\* writen goes on after a timeout.  It gives up at an interrupt or a fatal
\* error, and returns what it has written all the same.
WritenEnds(e) ==
    /\ call[e].op = "writen" /\ (e \in interrupted \/ Peer(e) \in closed)
    /\ Return(e, call[e].done)
    /\ UNCHANGED <<test, wire, signals>>

\* A recv returns with what there is, a recvn when it has it all.
Receive(e) ==
    LET c == call[e]
        n == Min({c.len - c.done, Available(e)})
    IN  /\ c.op \in {"recv", "recvn"} /\ n > 0 /\ ~(c.op = "recvn" /\ e \in interrupted)
        /\ taken' = [taken EXCEPT ![Peer(e)] = @ + n]
        /\ IF c.op = "recv" \/ c.done + n = c.len THEN Return(e, c.done + n)
                                                 ELSE call' = [call EXCEPT ![e].done = @ + n]
        /\ UNCHANGED <<test, sent, dropped, shut, closed, signals>>

\* The end of the stream comes before a timeout.
Silent(e) == Available(e) = 0 /\ RecvTimeout(e) /\ Peer(e) \notin shut

RecvEnds(e) ==
    /\ call[e].op = "recv"
    /\ \/ Available(e) = 0 /\ Peer(e) \in shut /\ Return(e, 0)
       \/ Silent(e) /\ Return(e, Again)
       \/ Available(e) = 0 /\ e \in interrupted /\ Return(e, Again)
       \/ Reset(e) /\ Return(e, Fatal)
    /\ UNCHANGED <<test, wire, signals>>

\* A recvn that has read a part returns it at the end of the stream and when
\* it is interrupted; at a timeout it forgets it.  A fatal error interrupts
\* the whole process.
RecvnEnds(e) ==
    LET c == call[e]
    IN  /\ c.op = "recvn"
        /\ \/ /\ (Available(e) = 0 /\ Peer(e) \in shut) \/ e \in interrupted
              /\ Return(e, c.done)
              /\ UNCHANGED <<dropped, interrupted>>
           \/ /\ Silent(e)
              /\ Return(e, Again)
              /\ dropped' = [dropped EXCEPT ![e] = @ + c.done]
              /\ UNCHANGED interrupted
           \/ /\ Reset(e)
              /\ Return(e, Fatal)
              /\ dropped' = [dropped EXCEPT ![e] = @ + c.done]
              /\ interrupted' = interrupted \cup {e}
        /\ UNCHANGED <<test, sent, taken, shut, closed, over, late>>

Kernel(e) ==
    Copy(e) \/ WriteFails(e) \/ WritenEnds(e) \/ Receive(e) \/ RecvEnds(e) \/ RecvnEnds(e)
=============================================================================
