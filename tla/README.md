# Models of tlink and its testbed

tlink emulates a satellite link on a Linux host: it stands between a terminal
(ST) and a gateway (GW) and gives the traffic between their two network
devices the bandwidth, delay and jitter of a GEO, MEO or LEO link. It does so
with `iptables`, `tc` and `sysctl`. The repository also carries the testbed in
which the link is measured: a complete copy of iperf2, started by the scripts
of `container/testbed`.

The modules in this directory model both, are checked with TLC on small
instances, and are proved about with TLAPS. `PROJECT.json` lists the runs, the
mutants that show that each property can fail, the source lines behind each
definition, the hazards and the theorems.

Paths of iperf2 are given below without their prefix
`src/container/testbed/iperf2-source/`.

## 1. The system

### tlink (Go: `main.go`, `runtime/`)

| part | state | operations |
|---|---|---|
| process (`main.go`) | flags, the exit code | start, optionally flush, run, wait in `select {}`; SIGTERM and SIGINT end it at any point with `os.Exit` |
| configuration (`runtime/config.go`) | `TrunksConfig`: NIC, bandwidths, delay, QoS, ACM | parsed once from YAML |
| interfaces (`runtime/init.go`) | `t.NIC`, which starts as names or addresses and must end as names | `CheckInterfaces`, `FindInterfaces` |
| link (`runtime/trunks.go`) | none of its own: the state is the kernel's, and stays when the process ends | `FlushTables`, `Run`, each a list of commands run one by one as child processes |
| ACM (`runtime/acm.go`) | `CurrentACM`, `ACMCounter`, the rates of two htb classes | `RunACM`, a gocron job every second |

What is hard here: the state outlives the process, and so may a command whose
process has been killed; every error of `Run` is only logged; a restart
without `--flush` adds to what it finds; rules and qdiscs have an order;
`RunACM` is not protected against itself.

`main.go` has its flags for QoS and ACM commented out, so that these two can
be reached only through the exported `InitTrunks`. The models cover them: they
are most of the code of `runtime/`.

### iperf2 (C and C++: `src/`, `compat/`)

| part | state | operations | talks to |
|---|---|---|---|
| threads (`compat/Thread.c`, `main.cpp`) | counts of all, of traffic and of non-terminating threads | start (chains of) threads, leave, stop, join, release on an interrupt | every thread, through the counts and a condition variable |
| reporter (`Reporter.c`) | the queue of posted reports, the list it works on | take what is posted, poll the rings of all reports, end when it is alone | traffic threads: job queue, packet rings |
| packet ring (`packet_ring.c`) | a circular buffer per report, two indices without a lock | enqueue, dequeue, the handshake at the end (`EndJob`) | one traffic thread, the reporter |
| full duplex barrier (`Launch.cpp`, `Reporter.c`) | a count, a timeout, a report shared by two threads | meet at the start and at the stop, one frees and closes | the two threads of a test, the reporter |
| listener (`Listener.cpp`) | the listening socket, accepts left | accept TCP, simulate an accept for UDP, start servers | clients over the network, the flow table |
| flow table (`active_hosts.cpp`) | active UDP flows, sum reports by host | push, remove | listener, traffic threads |
| settings (`Settings.cpp`) | flags and values of a thread | options applied one by one, `Settings_ModalOptions`, derived settings for listeners, clients and servers | the header |
| header exchange (`Client.cpp`, `Listener.cpp`, `Settings.cpp`) | the test header, the listener's answer | write the header, read it and apply it, refuse, answer, start a thread that sends back | settings of both ends, the socket of the traffic |
| TCP traffic (`Client.cpp`, `Server.cpp`, `socket_io.c`) | byte counts, the burst that is being sent or read, the end time | five send loops, two receive loops, `writen`, `recvn`, the close | each other, over a stream without marks |
| UDP traffic (`Client.cpp`, `Server.cpp`) | packet numbers, frames, bursts, the L4S window | four send loops, two receive loops, the first and the final datagram | each other, the reporters |
| UDP sessions (`Client.cpp`, `Server.cpp`, `Reports.c`) | retries, the answer buffer | end a flow, answer it, retry | each other, over a network that loses and reorders |
| Prague (`prague_cc.cpp`) | counts of the receiver, window and rate of the sender | echo, measure alpha, reduce, undo, time out | the L4S loops |
| interval reports (`Reporter.c`, `Reports.c`, `histogram.c`) | statistics since the last interval and in total, the handlers of a flow | count a packet, print an interval, catch up, print the end | reporter, traffic threads |
| sum reports (`Reporter.c`, `Reports.c`, `active_hosts.cpp`) | reference counts, levels, slots | add up, print when the last flow has reported | reporter, listener, traffic threads |
| the rest | formats, clocks, socket options | print, measure, convert | |

What is hard here: flags and counts are read without their locks, conditions
are signalled without the mutex of the predicate, some waits end only by their
timeout, memory is shared until the last of several threads frees it. UDP
gives the server no connection: it has to be inferred from datagrams that come
late, twice or never. TCP gives it no messages: bursts, requests and replies
are found by counting bytes, over calls that time out or return a part. The two
ends never compare settings: one header with flags of several versions, whose
parts are there or not, has to tell one what the other was told. And a report
adds up numbers that reach it through three counters in two threads.

### What makes each part correct

* ring: no packet is lost, repeated, reordered or read while it is written;
  `EndJob` returns after the last one has been processed, and does return.
* threads: the counts are exact at every moment, since the process ends by
  them; nobody's reporter is gone before its report; nobody reads settings
  that have been freed.
* barrier: no direction starts alone; one thread, and one only, frees the
  report and closes the socket, after both directions have been accounted.
* UDP sessions: one traffic thread per flow; the statistics account for every
  datagram.
* settings: the order of the options does not matter, where nothing says so.
* header exchange: both ends run, and report, the same test; no field is read
  that was not sent; the listener's answer is read by the one it is for.
* TCP traffic: payload is never taken for a header, both reports account for
  every byte, and both sides end.
* UDP traffic: the numbers are dense, the losses are the datagrams that were
  not counted, and the reports of the two ends agree.
* Prague: alpha is measured before it divides, and a window is reduced once in
  a round trip.
* sums: the sum report lives as long as someone adds to it, every byte is in
  one interval of the sum, no interval falls behind for good.
* link: a packet is treated as one configuration says, whatever ran before;
  packets never see half a configuration, where that can be had.
* interfaces: the devices are those that the file means.
* ACM: both directions follow the same entry, for as long as it says.

## 2. The modules

A definition has the name of the function it models where that is possible;
`map` in `PROJECT.json` gives the lines. A definition under a comment
"Mutant:" is not part of a specification: it is the form that a plausible bug
would give to the definition after it.

| module | models | proofs |
|---|---|---|
| `PacketChannel` | what the ring promises: a bounded queue with a release | |
| `PacketRing` | `packet_ring.c` and the handshake of `EndJob` | `PacketRingProofs` |
| `FullDuplex` | barrier and shared report of a full-duplex test | `IperfTestProofs` |
| `IperfThreads` | threads, counts, job queue, reporter loop, listener loop | `IperfThreadsProofs` |
| `SumReports` | interval reports, the sum report of a host | `SumReportsProofs` |
| `UdpSessions` | UDP clients, network, listener, flow table, traffic threads | `UdpSessionsProofs` |
| `Options` | `Settings_Interpret`: what each option does | |
| `ModalOptions` | `Settings_ModalOptions`; extends `Options` | |
| `TestHeader` | the header, what the listener makes of it; extends `ModalOptions` | |
| `ReportHandlers` | the handlers, lines and histograms of a flow and its sum; extends `ModalOptions` | |
| `TestExchange` | from the options to an accepted test; extends the last two | `IperfTestProofs` |
| `TcpConnection` | a connection, `write`, `recv`, `writen`, `recvn` | |
| `TcpTraffic` | TCP send and receive loops; extends `TcpConnection` | |
| `BounceBack` | requests and replies; extends `TcpTraffic` | |
| `Traffic` | one TCP test to its end; extends `BounceBack` | `TrafficProofs` |
| `UdpReports`, `Histograms` | what the reporter counts of datagrams | |
| `FrameCounters` | the slots of periodic traffic and the wait for the next one | |
| `UdpTraffic` | UDP loops and a network; extends those three | |
| `PragueCC` | both ends of the congestion control | |
| `L4sTraffic` | the L4S loops; extends `UdpTraffic`, `PragueCC` | |
| `Datagrams` | one UDP test to its end; extends `L4sTraffic` | `DatagramsProofs` |
| `LinkKernel` | the kernel as `iptables`, `tc` and `sysctl` change it (external) | |
| `Tlink` | tlink processes on one host; extends `LinkKernel` | `TlinkProofs` |
| `LinkInterfaces` | `CheckInterfaces`, `FindInterfaces` | `TlinkProofs` |
| `AcmScheduler` | `RunACM` under its scheduler | `TlinkProofs` |

`MCx` instantiates module `x` for TLC.

### PacketRing and PacketChannel

The traffic thread and the reporter each have a position (`tstate`,
`rstate`); an action is what a thread does between two accesses to something
the other one writes. Copying a packet into its slot and publishing the index
are two steps (`EnqueueCopy`, `EnqueuePublish`), and so are setting
`consumerdone` and the signal that follows it, and testing a condition and
waiting for it (`EnqueueCheck`, `EnqueueWait`): a signal in between is lost.
The timed waits can end by themselves (`ProducerTimeout`). `PacketChannel` is
the abstract specification: a queue of `Capacity` packets that is released
after the last one has been received. `ImplementsChannel` maps the ring to it.

The ring has a real limit. `packetring_enqueue` takes the ring to be full when
`producer == maxcount` (`packet_ring.c:99`), but the largest index is
`maxcount - 1`. With the reader at slot 0 and the writer at the last slot a
full ring is therefore not recognised: the memcpy hits the slot the reader is
working on and, as the indices are equal afterwards, every packet of the ring
is lost. `overrun` records this; `OverrunOnlyAtWrap` says that it is the only
way, and the other properties hold until it happens. After it, `EndJob` can
wait for ever.

`DoneMeansDelivered` allows the reporter to be at `signaldone`: it signals a
condition of the ring (`Reporter.c:669`) after it has set `consumerdone`, and
the traffic thread may have freed the ring by then.

### FullDuplex

One test: `sender` and `receiver`, their positions, the barrier's count, the
references of the shared report, and which of them frees and closes. A wait
can expire (`Elapse`); what a thread reads of the count after the report has
been freed is a choice (`ReadCount`). The side is that of a client, whose
barrier has a timeout, or of a server, whose barrier is never set up.

### IperfThreads

Every thread of a process has a position in `pc`; the counts, the flags and
the job queue are the variables of the program. A critical section is one
step; what the code reads without a lock is read in a step of its own, which
is how the reporter can miss a report. Failures of thread creation and of
traffic threads (`StartFails`, `Stop`), interrupts (`Interrupt`, `SignalExit`)
and the alarm of a traffic thread (`Alarm`) can come anywhere. What a traffic
thread does between its start and `EndJob` is one step. Left out: the listener
that a client starts for `-d` and `-r`, connect-only tests, Windows and builds
without threads.

### UdpSessions

A datagram is a client and a packet number, negative for the end of the flow.
`Deliver` puts it into the socket connected to its sender, if there is one,
else into the listening socket; `Lose` drops a datagram or an answer. The
listener drains (`Drain`), drops duplicates (`DropDuplicate`), enters a flow
in the table (`NewFlow`), connects its socket and hands it over with all that
is queued (`Connect`), and binds the next one and starts the thread (`Spawn`).
The thread reads, answers, waits for silence, answers again, closes, and then
removes its flow from the table: these are six actions because the client and
the listener act in between. `lost` and `late` are history.

Two things that follow from the code are stated as premises of the
properties. `late`: the end of a flow has overtaken some of its data, which is
then not counted, and can start a second session. `Mixed`: datagrams of
another client were in the listening socket when it was connected; the thread
of the first client reads them and counts them as its own.

### SumReports

Each flow has a thread, a ring of packets and its `TransferInfo`; a packet is
the time of its sample. The reporter takes a packet out of a ring
(`reporter_process_transfer_report`), and for a sample past the end of the
interval it counts the flow up or down in the sum, hands over the bytes of the
interval and prints the sum when the last flow has reported
(`reporter_condprint_time_interval_report`). A pause makes a flow miss
intervals, which are caught up at once. `Iperf_push_host` and
`Iperf_remove_host` hold and release the sum report in the traffic threads;
who frees it does so while the reporter may be anywhere. Tests are the
handlers of TCP and UDP, clients and servers, bounceback and `--sum-only`.

### Options, ModalOptions, TestHeader, ReportHandlers and TestExchange

`Options` has a record of the settings and tables of options, a row for each:
the flags it sets and clears and the fields it assigns; `Interpret` applies one to the settings
that the options before it have left, with the conditions that look at them
(`Refused`, `ClientOnly`, `Timeouts`). `ModalOptions` is the pass over the
complete settings, one operator per part. `TestHeader` writes a header (a
record of flags, values, the length it announces and the bytes that are sent),
applies it at the listener and derives the settings of the thread that sends
back. `ReportHandlers` says which functions report a thread's traffic. In
`TestExchange` the options are read in any order (`Read`), the settings
completed (`Complete`), each stream of `client_init` may be the one that is
looked at (`Send`), a listener accepts or refuses it (`Accept`), and the bytes
of the listener's answer are read by the client (`PeerXchange`) or by its
reading thread (`ReadTraffic`).

Assumed: both clocks agree well enough for start times, the kernel knows the
congestion control asked for, `--txdelay-time` is short. Each option has one
value, or the few that make a difference; an invalid one ends the program.

### TcpConnection, TcpTraffic, BounceBack and Traffic

A connection is the bytes each end has handed to its kernel and those the
other has taken; a call of a traffic thread (`write`, `writen`, `recv`,
`recvn`) is a record that the kernel completes by a part, by an error that is
not fatal or by a fatal one (`Kernel`). A socket that its peer has closed is one
that `select` lets the client write to (`Writable`). What `writen` and `recvn` make of
each is in `TcpConnection`. `TcpTraffic` has the send loops `RunTCP`,
`RunNearCongestionTCP`, `RunRateLimitedTCP` and `RunWriteEventsTCP`, bursts
with their headers, the close, and the server's `RunTCP`; `BounceBack` has
both loops of a bounceback. The end time of each end can come between any two
steps (`Elapse`), and so can a signal (`Interrupt`).

`TestsAssumption` names what a test must be: a buffer that holds the header
where there are headers, an amount not below the first payload, bursts of a
reverse test with trip times, and an end time for a bounceback. Section 6 says
what the code does without. Also left out: a file as input, `-b` on a server,
and the two directions of one full-duplex connection, whose threads share
nothing but the barrier of `FullDuplex`. It is assumed that a client waits for
the close of its peer longer than a server needs to read what is there
(`Client.cpp:2190`).

### UdpReports, Histograms, FrameCounters, PragueCC, UdpTraffic, L4sTraffic and Datagrams

`net` is the set of datagrams under way; reading one that has been passed by
another, reading it twice and losing it are the faults, of which a test has a
budget. `RunUDP`, `RunUDPIsochronous` and `RunUDPBurst` write datagrams whose
write may fail (`again`, `fatal`) or whose frame may slip; the server reads
them (`Read`), after the listener has taken the first one (`Listen`), or a
reverse client has (`FirstRead`). Every post is followed by what its reporter
makes of it (`UdpReports`): the model of the ring is `PacketRing`, so this one
has none. `Histograms` counts a transit time as a bin. `FrameCounters` cuts time
into slots of `Period` units; `IsochTick` comes to the wait at some time from
its last slot on and goes on with the frame that `WaitTick` returns, which is a
slip when a slot has been left out. A bounceback only knows whether the slot of
its burst is over.

`RunUDPL4S` sends bursts as long as its window has room, reads acknowledgments
and hands them to `PragueCC`. There a window or rate is the number of packets
it allows, chosen from a set after every change, and time is counted in round
trips; alpha's value is not modelled, but when it is measured and over how many
datagrams is. An acknowledgment that is lost is one that is never read. The
exchange at the end of a flow is only whether an answer comes: `UdpSessions`
has the exchange itself.

Assumed: an amount is not less than the first payload, bursts of an amount come
out even and no write of such a test fails for good (section 6), L4S tests have an end time and are not reversed.

### LinkKernel and Tlink

`LinkKernel` holds what the commands of `trunks.go` do: a command is a record,
`Accepted` says when the kernel refuses it, `Effect` what it does, and
`Treatment` the rate, delay and queue that a packet of a given DSCP gets on a
device. `Tlink` runs the commands of `FlushTables` and `Run` one by one, for
one process after another. A command can fail, a signal can come before any of
them, and the command that was running then goes on as an orphan, at any later
point. The lists of commands (`PlainCommands`, `QoSCommands`) keep the order
of the code.

### LinkInterfaces

`FindAddress` is a turn of the loop over the addresses of the host. It
compares each address with the fields of `t.NIC`, which earlier turns may have
replaced by names. Initial states are all hosts and files of the bounds. Its
`lookup` ends as `ok` or `error` where `Tlink` has `Start` or `StartFails`.
The names of `Tlink`, `LinkInterfaces` and `AcmScheduler` are disjoint, so that
one module can prove about all three.

### AcmScheduler

`Tick` is a second: it starts a job, if one of `Jobs` is free. A job reads and
writes `CurrentACM` and `ACMCounter` in steps of its own, so jobs that wait for
`tc` longer than a second overlap.

## 3. The runs

A run passes when all its properties hold, and deadlock is not checked where
the system ends (`CHECK_DEADLOCK FALSE`: every program here ends, or is
stopped by a bound).

| run | asks |
|---|---|
| `ring` | order, loss, stability, handshake, refinement and progress of the ring |
| `fullduplex` | who starts, frees and closes, and that nobody stays at the barrier |
| `threads` | the counts, and who still needs whom, with a failure and an interrupt |
| `threads_end` | that a client, and an interrupted server, come to their end |
| `sums` | the life of the sum report, what it adds up, intervals that are missed |
| `udp` | which flows are accepted, and what the statistics account for |
| `exchange` | whether both ends run and report what the options ask for |
| `traffic` | where bursts begin, what the reports say of the bytes, that a TCP test ends |
| `datagrams` | numbers, losses, reports and congestion control of UDP, that a test ends |
| `tlink` | the state of the link when a process is up and on the way there |
| `interfaces` | which devices are handed on |
| `acm` | rates and durations, with and without overlapping jobs |

### What they show

* `ring`: until an overrun, `Undisturbed` (packets come out in order, and the
  one that is being read is not written) and `DoneMeansDelivered`; the ring
  implements `PacketChannel`; `EndJobReturns`.
* `fullduplex`: at a client `TogetherAtStart`. As long as no wait has expired,
  `FreedOnce` (report and socket are given back by one thread, after both
  directions) and, at a client, `FinalSumOfBoth`. Always `BarrierEnds`,
  although the count can come to 3 when the last thread is at the stop before
  the first one has been woken from the start: both then wait for their
  timeout.
* `threads`: `ThreadsSound`: the counts are exact at every step, except after
  a listener that could not listen has been stopped and is still registered,
  when an interrupt makes the count -1; a server with `-P 1` never has two
  clients. `EndJobServed` holds without interrupts and without `runNext`; with
  an interrupt, a listener that has been released can accept one more client
  after the reporter is gone, whose `EndJob` waits for ever (`Thread.c:517`).
  `ChainAlive` shows why the connect barrier is needed.
* `sums`: `SumHeld`: the sum report is there for every packet that the reporter
  may still process. `SumAccounts`: its total is what the flows have handed
  over, whatever the order of intervals and ends. `KeepsUp`: no interval stays
  behind after a pause. `FinalSumComplete`: the final sum has every byte, if
  all flows were there at the same time.
* `udp`: `AliveOnce` always. `FlowAccounted`: a flow is accepted once, and its
  statistics have every datagram or count it lost, unless its end has
  overtaken data (`late`) or a socket was mixed. `udp_accept` has one more
  exception to what its comment says (`Listener.cpp:684`): after a duplicate it
  reads on with `drainstalepkts` off (line 730), so that the end of a flow that
  is over can start a session.
* `exchange`: `OrderFree`: the order of options does not matter, except to
  rivals and to options that the program warns about: the settings are their
  `Outcome`, which says of each field what a set of options makes of it. `SameTest`: whoever sends
  has a reader, both ends agree on times, sizes, directions, trip times, frames
  and congestion control, a connection back comes to the port where the client
  listens, and both print, sum and keep only what comes with the data
  (`ReportsFit`). `HeaderCovers`: the listener reads nothing that was not sent.
  `AckMatched`: its answer is read by who waits for it. What the premises leave
  out is in section 6.
* `traffic`: `FramesAligned`: the server looks for a header only where one
  begins, however reads and writes were cut. `Accounted`: a client reports what
  it sent in a stream and with a rate, but for the burst in which a write fails; a
  server reports what it has read, and of bursts all but a byte of each and a
  header that came late; and a server without an end of its own (`Unlimited`)
  reads everything that is sent, or leaves between two bursts
  (`BetweenBursts`), however long the pauses are. `Lockstep`: a bounceback
  alternates, and both ends wait for each other only after `recvn` has thrown
  away a part of a message. `TrafficEnds`.
* `datagrams`: `NumbersDense`: no number is skipped or used twice by a write
  that fails. `LossAccounted`: losses are the numbers that were not counted, for
  the reporter and for the L4S receiver. `HistogramAccounts`: the lines of the
  intervals add up to the last one. `EvenNow`: without losses both ends report
  the same, for every way in which first and last datagrams are left out.
  `AlphaMeasured`: the divisor is positive. `ReductionsApart`: one reduction in
  a round trip, without undo and timeout. `DatagramsEnd`: with lost
  acknowledgments too.
* `tlink`: `LinkState`: a process that has flushed, alone and with commands that
  do not fail, leaves the link as its file says, whatever was there before; a
  packet is marked once, even when `tc` fails, because `FlushTables` returns
  the errors of iptables and drops those of tc; without failures the link is
  never a mixture. A restart without `--flush` changes nothing without QoS
  (`FirstConfigurationWins`); with QoS it repeats the general MARK rule before
  the DSCP rules, so VoIP packets are in the wrong class for a moment.
  `ShapedInOneStep`: without QoS a packet sees no half of a configuration.
* `interfaces`: `DevicesAsConfigured`. A file with one name and one address is
  refused (`init.go:76`), and both devices may resolve to the same interface.
* `acm`: without overlap `RatesOfCurrent`; with overlap, `RatesFromList`.

### Bounds

| run | bounds | why they are enough |
|---|---|---|
| `ring` | 3 slots, 6 packets | every distance of the indices and more than two wraps |
| `fullduplex` | 2 seconds of timeout | the two waits can expire before, after and with each other |
| `threads` | 2 traffic threads, 1 failure, 1 interrupt, 1 rejected peer, `-P` 1 or none | two threads make a chain, an overlap and a race with the listener; one failure at each place |
| `threads_end` | the same without failures, no `-P` limit | a failure excepts the properties |
| `sums` | 2 flows, 2 slots, intervals of 1 tick, 4 ticks, and 5 for a flow that is alone | two flows overlap, follow each other, end in the same interval and between each other's; a pause can miss three intervals |
| `udp` | a client of 3 datagrams or two of 1; 1 retry of the end (the code: 200); 2 answers (9); at most 3 accepts; `-P` 1 or none | one retry is the first that can cross an answer; two answers are one that is repeated; 3 accepts are never exceeded |
| `exchange` | every option with every other one, three of the 34 that change header or direction for a client; 15 listeners | a field or flag is a matter of two options, and of the direction; no listener option but the ones given is read there |
| `traffic` | 60 tests; header of 2 and buffers of 3 bytes, a socket of 3; amount 5, bursts of 1 or 4; at most 4 bytes before the end time (9 in a bounceback) | a header in two pieces, a burst shorter than its header and one longer than a buffer, an amount that ends within a buffer |
| `datagrams` | 35 tests; datagrams of 3 bytes, frames of 2 or 4, amount 7; 2 in the network; 1 or 2 faults; 1 interval; windows and bursts (3,2), (2,1); 2 round trips; a period of 2 units and a loop at most one period late | a frame of one and of two datagrams, a datagram passed by another, one fault before, at and after the end; a second reduction; a wait before, at and after the end of a slot |
| `tlink` | 2 configurations, 2 processes, 1 failure | what an earlier process leaves is all that a later one depends on |
| `interfaces` | 2 names, 2 addresses and IPv6, lists of 3 | an interface with both, an address on both, a device replaced before the other |
| `acm` | 2 jobs, 5 seconds, durations 0 and 2 | one overlap, an entry that lasts and one that does not |

The numbers of the configurations of `tlink` differ in every field so that no
two commands look alike.

### Fairness

`ring`, `fullduplex`, `threads_end`, `traffic` and `datagrams` assume weak
fairness of threads: each is scheduled while it can go on. A timed wait ends by
itself, so its expiry is among the steps of its thread. `traffic` assumes of
the kernel that it completes a call that can be completed, that clocks go on,
and that the timer of an end with an end time fires; `datagrams` that a server
with an end time is interrupted by its timer. In none of them is anything
assumed of the network, of peers, of failures or of the user's signals, nor in
`threads_end` of the timeout of the connect barrier. The other runs have safety
properties only.

## 4. The proofs

TLAPS checks the theorems for all values of the constants that satisfy the
named assumptions. The argument is the same in each module: `Init` implies the
inductive invariant `IInv`, every action keeps it, and it implies the
property. `IInv` was checked with TLC before it was proved.

* `PacketRingProofs`, from `MaxCountAssumption` and `NPacketsAssumption`
  (`TypeCorrect`, `FifoOrder`, `NoTornRead`, `RingUndisturbed`, `Delivery`,
  `OverrunAtWrap`, `RingIsChannel`).
  `Fifo` alone is not inductive: that the copy hits a free slot needs what the
  traffic thread knows of the reader since its check (`WriterClear`: the
  reader can only have moved away), that `advance` never runs on an empty
  ring, and for `Delivery` the handshake: which positions of the reporter go
  with `consumerdone`. `RingIsChannel` is the refinement of `PacketChannel`:
  until an overrun the queue of the channel is the numbers from `got + 1` to
  `enq` (`InOrder`), so that a published index is a `Put`, an advance a `Get`,
  the release of the ring a `Release`, and every other step a stutter.
* `IperfTestProofs` on `TestExchange`, from `OptionsAssumption` (a set of options is
  made of the program's), `ListenersAssumption` (a listener has the mode of one and
  was not given what `Settings_ModalOptions` refuses) and `NamesAssumption` (the
  congestion controls have names of at most 128 bytes), for any sets of options,
  of any size, and for listeners with any settings, also those no option gives
  (`Exchange`, `SameTests`, `Covers`, `Answers`, `AnyOrder`).

  `ExchangeInv` follows a test through its phases. While options are read the
  settings are `Given`: what every option may set is a fact about each row of the
  tables (`Sane`), and closed under `Interpret` in any order. `Settings_ModalOptions` is
  proved stage by stage: each keeps the fields and flags that the test depends on
  (`Still`), and the few that change one say which; a client that passes is
  `Completed` (no `-C` in both directions, no bursts with frames, no peer
  detection over UDP, a bounceback has a reply). Its streams, those of the
  working load included, are so too, and `Speaks` is what holds of the one that has
  sent. From there nothing is inductive: `Taken` says that the server's settings and
  those of its sender are functions of listener and header.

  The lemmas named ...`Says` give for every operator of `TestHeader` each flag and
  field of its result, so that a theorem never opens the operators. `SameTests` comes
  down to `Agrees`, proved for each kind of header (`HeaderKinds`: TCP, UDP, a small
  datagram, a bounceback, a 1.7 client's filling), and to what `ReportHandlers` makes of those
  flags (`ServerReports`, `ClientReports`); `Covers` adds up the announced length against
  the fields that can be read (`TCPFieldsCovered`, `OneWayOnly`); `Answers` compares
  `AckOf` with what the client waits for (`AnswerFits`), and is part of the
  invariant, since the bytes of the answer are taken in two steps.

  `AnyOrder` is about the options alone. Two of them `Agree` if neither clears a flag
  that the other sets and they give no field two values; the settings are the
  `Outcome` of the options read so far, as long as those are `Calm`, that is, agree with
  each other (`Ordered`). What each row says is proved from the tables (`OptionsSay`), and
  that two rows which do not agree are in one set of `Rivals`, or such that the one
  read last is warned about (`OptionsAgree`): `Rivals` has left none out. Since an
  option that is not warned about then agrees with those before it (`CalmStays`), it
  adds to the outcome what it says (`OutcomeApply`, `OutcomeTimeout`).
* `IperfTestProofs` on `FullDuplex`, from `SecondsAssumption` (`TypeCorrect`, `CommonStart`,
  `ReportOutlivesBoth`, `OneEnds`, `GivenBackOnce`, `FinalSum`). The barrier is used twice and
  reset by a thread that may be late, so `IInv` says for each of eight phases
  of a client's test where the two threads are and what the count is
  (`ClientPhase`), and that a server's threads only ever leave by the timeout
  (`ServerPhase`).
* `TlinkProofs` on `LinkInterfaces`, from `NamesAssumption`: no name of an
  interface is an address (`LookupTypeCorrect`, `Configured`, `Stays`).
  `Resolved` is the loop invariant: after n addresses a field is still what the
  file says and none of them was it, or it is the interface of the first that
  was.
* `TlinkProofs` on `Tlink` (`Link`, `FirstWins`, `OneStep`), from
  `ConfigsAssumption`, `FlagsAssumption` and `BoundsAssumption`, for all
  configurations that are `WellFormed`: a rate is left for every class and, with
  QoS, there is the jitter that the last netem needs. `LinkState` is false without that
  (section 6); `MCTlink` checks that its configurations have it. Any number of
  processes, signals and failing commands.

  A process is followed by the place of its last command in its program
  (`Place`; the commands of `FlushTables` have the places up to 0), and its
  queue is the rest of the program (`Queue`). `IInv` says what the kernel is at
  each place: `TreeAt` is the tree of a device after so many commands of its
  block, `MarksAfter` the rules after so many marks. After a flush, alone and
  without a failure, the kernel is exactly this (`Flushed`). A process that did
  not flush either builds its own trees on empty tables, or finds complete ones
  that all its commands leave alone (`Kept`, `Over`); its marks are added and are
  the last ones in both cases, so that they count. Between processes the link is
  complete or untouched (`Settled`), which is where a process that has been
  interrupted (`noise`) ends the induction: it leaves a part. `Once` is about
  the rules and holds whatever fails. `Plain` is for the two action properties:
  without QoS there is one class, and all netems and filters are of it, even
  those of orphans. `BlockBuilds` (no command of a block is refused on the tree of
  those before it) and `BlockRefused` (on a complete tree all are, or repeat what
  is there) are the two lemmas the rest comes down to.
* `TlinkProofs` on `AcmScheduler`, from `EntriesAssumption` and
  `BandwidthAssumption` (`AcmTypeCorrect`, `OwnRates`, `CurrentRates`,
  `EntryLasts`). Overlap is excluded by a history variable; as long as it is
  false one job is at work and what it carries (`CarriedSoFar`) and counts (`Counted`) is what the variables say.
* `UdpSessionsProofs`, from `SessionsAssumption` (`TypeCorrect`,
  `OneThreadPerFlow`, `Accounted`). `AliveOnce` needs that a thread that is alive
  has its flow in the table (`InTable`), that the flow which has been accepted
  and has no thread yet has none alive (`Accepting`), and for the types that the
  wait for silence is never entered without a try left (`Tries`). `Accounted`
  adds `FInv`, which follows a flow from its client to its last answer: every
  datagram that was sent is in one place, the network, a socket, a thread's
  count or `lost` (`Places`), a flow of the table has a thread or is about to
  get one (`Backed`), the listener's queue has nothing of a flow whose socket is
  open (`Unqueued`), an answer is that of a session that has ended (`Answered`);
  and as long as nothing is late or mixed, an end comes behind all data of its
  flow (`Orderly`), so that a thread ends with everything that was not lost.
* `SumReportsProofs`, from `FlowsAssumption`, `TestsAssumption`,
  `IntervalAssumption` and `BoundsAssumption` (`TypeCorrect`, `Held`, `Keeps`,
  `Accounts`, `FinalSum`). `SumHeld` needs that the final packet is the last one
  of a ring (`FinalLast`), since only then is nothing left for the reporter when
  `Iperf_remove_host` frees the report, and that both counts are the number of
  flows in the table (`Counts`). `KeepsUp` rests on the quotient of
  `reporter_transfer_protocol_missed_reports` (`Division`) and on the start of
  a flow being before its first interval (`Begins`). The sums need `AInv`: which
  flows are members of the report, that its count of ended flows is that of the
  members whose last packet has been reported, and that its bytes are what these
  flows and the intervals have handed over, each once.
* `IperfThreadsProofs`, from `ThreadsAssumption` (finitely many threads, each
  client of `-P` with settings of its own) and `BoundsAssumption`
  (`Counts_Sound`, `EndJob_Served`, `Chain_Alive`). A count that is exact means
  that a thread is counted when it is created and not before: nobody starts a
  thread that is already running. So `IInv` carries the discipline of the links
  (`Structure`): who is being started has one starter and is still idle
  (`Children`), a thread that is linked by `runNow` or `runNext` has one link
  and stays idle until that link is followed (`Links`, `Claimed`), and what a
  starter goes on with (`Afters`). On it rest `Exact`, where also a listener is
  accounted for that `thread_stop` has left registered; `Boot`, that no client
  gets past its start before `main` has followed the links of all; `Alone`,
  that nobody who could start another thread is left once the reporter has
  left; and `Single`, that with `--singleclient` the traffic is that of one
  server and the client linked to it.
* `TrafficProofs`, from `TestsAssumption`, `HeaderAssumption` and
  `BufferAssumption` (`AlignedInvariant`, `Frames`, `Locks`, `Accounts`), for all
  tests, lengths and buffers. The loops of both ends are put into a few forms (`ClientDoes`,
  `ServerDoes`), and the invariant, `Aligned`, has three parts:
  - `Base`: each end is at a place of its own loop, and its call has moved less
    than it was asked for or has returned (`CallOk`); a `writen` gives up only
    at an interrupt or when the server has closed (`Cut`).
  - `BurstInv`: bursts follow each other, and what is sent plus what is left is
    the end of the last one. A burst without room for its header is the last.
    None of this need hold after the server has closed, when a write that fails
    may leave a gap, so `FramesAligned` does not ask for it there.
  - `ReadInv`: what the server has taken plus what is left of its burst
    (`nleft`) is the end of the burst it has reached, so that what it reads next
    is the header of the one after, whose size is what was written
    (`HeaderIs`). This needs `BurstInv`, and `ServerBase` needs this.

  `Locks` adds `LockInv`, for a bounceback: after its rounds the client has sent
  that many requests and read that many replies, plus what its current call has
  moved and what a `recvn` has thrown away, and the server the same of its
  answers. Had nothing been thrown away, two ends that wait for each other
  (`Stalled`) would have answered one round more than they have and no more.

  `Accounts` adds `AccountInv`, for the other loops:
  - `HasFirst`, `AmountInv`: the first payload is sent before anything else, and
    what is sent and what is left of the amount make the amount.
  - `StreamInv`, for a stream and for a rate without bursts: what is sent is what
    is reported and what the current write has moved.
  - `RateInv`, for bursts with a rate: a burst that is cut goes on with a second
    write (`Resumes`), and if that fails the first is not counted either (`Owed`),
    which is never more than the burst (`Whole`).
  - `LostInv`: what the server has read and will not report (`Lost`) is at most a
    byte for every burst it has reached, and the part of a header if it leaves by
    one (`Missing`).
  - `TotalInv`, `EOFInv`: a server without an end of its own, and without signals
    and failures (`ToEOF`), leaves when the client has closed its side and nothing
    is left (`ReadAll`), when it has the amount of a reverse stream, of which there
    is no more (`AtAmount`, `Bounded`), or at a header that does not come, when it
    has read its bursts to their ends (`Between`).
* `DatagramsProofs`, from `TestsAssumption` of `Datagrams` and the assumptions of
  the modules it extends (`Dense`, `Apart`, `Losses`, `Histogram`, `Evens`,
  `Alpha`, `NextSlot`), for all tests, lengths and numbers of faults. The send
  and receive loops are first put into a few forms: what a step of the client
  (`ClientForms`) or the server (`ServerForms`) does to numbers, network and
  reports, whichever loop it is of. Every invariant is then proved for a form
  instead of a loop. `IInv` of this module is `TrafficInv`:
  - `DenseInv`: a write takes the next number and is counted, takes none, or
    comes after the loop (`NumberStep`). `Dense` is this one.
  - `NetInv`: the datagrams under way have numbers that were given, each once
    unless it was sent again by the network (`Underway`, `Writer`).
  - `ReportInv`: what the reporter counts as lost, less what it counts as out of
    order, is the number of datagrams that are missing up to the highest
    (`Tallied`); intervals and totals add up (`Reported`, `Interim`). `Losses`
    is the end of it.
  - `Listing`: the bins of a histogram hold what has come in order. `Histogram`.
  - `Complete`: as long as nothing went wrong, what the client has written is
    counted at the server or under way. `Evens`.
  - `Sequenced`, `Echoed`, `Measured`: the sequence numbers of L4S against the
    numbers of the datagrams, what an acknowledgment says against what was
    received, and alpha's divisor against what had been sent when it was last
    measured. `Alpha`.
  - `ApartInv`: what the receiver counts as received or lost never goes down
    (`EchoInv`, of the receiver, the ACKs under way and the sender's last one
    together), and outside a reduction its round trips have passed for the
    sender (`Reductions`). `Apart` holds for any loss, duplication and
    reordering.
  `NextSlot` is about `wait_tick` alone and needs only `PeriodAssumption`: its
  division is that of the loop in the code.

Only model-checked, and why:
* the liveness properties of `ring`, `fullduplex`, `threads_end`, `traffic` and
  `datagrams`: fairness and ENABLED are out of this prover's reach.

Every invariant that a run checks has its theorem.

## 5. What is not modelled

The components with status `not_modelled` in `PROJECT.json`, each with its
reason. In short: the text of reports, the layer for other systems, packet
inspection, the test programs, Python and shell scripts around iperf, and the
build and container files. The ack ring (`enqueue_ackring`, `Write_ack.cpp`) is
the one part with a protocol of its own that is left.

Of the modelled parts:

* settings: getopt, invalid values, addresses, and options that only choose a
  format or a socket option;
* TCP traffic: what `-b` and variances make of the clock, TCP_INFO, a file as
  input, two directions on one connection at a time, `BBSTOP` (never sent);
* UDP traffic: pacing, multicast, L2 checks, jitter and latency themselves, the
  frame and burst reports, percentiles and maxima of histograms;
* Prague: the curves by which window and rate grow, in microseconds and 64
  bits, and the value of alpha;
* `UdpSessions`: the server's `-t`, interrupts, `--no-udp-fin` and duplication
  by the network (`Datagrams` has them for one flow);
* `IperfThreads`: what a traffic thread does between its start and `EndJob` is
  one step there, and is in `Traffic` and `Datagrams` without the others;
* sums: isochronous and burst reports, omit times, `--incr-dstip`.

`docker-compose.yaml` still passes `--logs`, which `main.go` no longer knows.

## 6. Where code, comments and intentions disagree

What the models have shown, or what had to be a premise of a property since
the code does otherwise. Each item was read in the code; those marked with a
module are reachable there.

tlink:

* On a kernel for which jitter is disabled, QoS asks tc for a netem with
  `delay` and no value (`trunks.go:191`, `Tlink`). tc refuses it, the error is
  logged, and the forward link has no delay, although `tlink.yaml:10` gives one.
* `Run` configures kbit and `RunACM` mbit (`acm.go:30`), so the first change of
  ACM multiplies the bandwidth by a thousand. `Qlen` (`trunks.go:102`) takes the
  bandwidth in Mbit, and is 0 without a delay, with which netem drops every
  packet. With QoS a bandwidth of 1 asks for the rate 0 (`trunks.go:134`).

Threads, ring and barrier:

* A full ring with the reader at slot 0 is not recognised (`PacketRing`).
* The reporter finds its queue empty under `ReportCond` and then reads the
  thread count without it (`Reporter.c:479`, `IperfThreads`). A thread that
  posts a report and ends in between leaves it to nobody, against the comment
  in `Reporter.c:472`. The same happens between the threads of a chain, since
  the next one is started after the one before has been counted down
  (`Thread.c:409`).
* The end of every `FAIL`, `thread_stop`, skips `runNext`, the final packet and
  `thread_unregister_nonterm` (`Thread.c:301`). A client that fails before the
  connect barrier is waited for without limit in a test of a number of bytes
  (`Client.cpp:2339`). The signal handler takes a mutex (`main.cpp:332`). With
  `--singleclient` the count is read without its lock (`Listener.cpp:172`).
* A read that fails for good (`socket_io.c:145`), and the timer of any server
  with `-t`, set `sInterupted` for the whole process.
* A server never sets up the barrier of a full-duplex test (`Reports.c:449`,
  `FullDuplex`), so no thread frees the report or closes the socket, against
  `Reporter.c:628`. The last thread at the stop may free the report before the
  first one reads the count again (`Reporter.c:245`).

Sums and reports:

* A final packet gives a sum its time only if that is smaller than the sum's
  (`Reporter.c:621` and `632`: `TimeDifference` is left less right), where the
  comments say "the thread with the max value will set this" and "the largest
  packet timestamp sets the sum report final time" (lines 618 and 620). The time
  of a sum whose flows have had no sample stays 0, and then
  `reporter_set_timestamps_time` does not advance its interval (lines 1199-1208).
  `SumReports` has it as it is in the code. `FinalSumComplete` holds nevertheless.
* The final sum compares ends with the largest number of flows at a time
  (`Reporter.c:637`): too early if flows follow each other, and never if one is
  alone in the last interval (`Reporter.c:2116`). A flow that ends just after
  the others have reported stops the interval sums. A bounceback's last
  interval, and the intervals of burst reports (`Reporter.c:2174`), never reach
  the sum. With `--sum-only` flows do not catch up.
* `--sum-only` of a TCP client is overwritten by what follows, for want of an
  `else` (`Reports.c:367`); with `--bounceback` it leaves the wrong packet
  handler (`Reports.c:818`). With `-u -i f` an isochronous server has no output
  handler and prints nothing at all (`Reports.c:712`); over TCP the handler
  prints FIX ME (`Reporter.c:2170`).
* Histograms: a value in bin `bincount` is counted behind the array
  (`histogram.c:147`, `Histograms`); the last interval is printed as a total;
  `histogram_init` leaves `final` and the maxima unset and allocates
  `sizeof(strlen(name))` bytes for the name; values below the range are not in
  `running`, which shifts the percentiles.

Options and the header exchange (`TestExchange`):

* Options are said to be independent of their position (`Settings.cpp:1618`),
  but many need `-c` before them; `-H` before `-c` and `-s` before `-c` go
  unnoticed. The check of the interval compares the mode (`Settings.cpp:2372`);
  `mPermitKey` is cut before it is checked; `-C` with `-d` warns and goes on;
  amounts of 2^31 and more are cut in the header.
* `-d` or `-r` with `--isochronous`: the server reads frames that were not sent,
  gets 0 per second, and ends (`Client.cpp:109`). One-way TCP `--isochronous`
  with a congestion control: its name lies beyond the announced header. The same
  one-way test at a server that was given `--full-duplex` of its own: the server
  sends too, and reads isochronous settings that lie beyond the header. UDP
  datagrams shorter than the header are read beyond their end; with `-l 16
  --trip-times` the flags do not arrive. The short datagrams of `--trip-times` have
  no room for the isochronous flag (`Settings.cpp:2698`): the server of `-u -l 64
  --trip-times --isochronous` knows nothing of the frames. The proofs of
  `HeaderCovers` and `SameTest` failed on these last two before TLC saw them; the
  premises name them, and the run has the options.
* With `-C` a UDP client sends no header, but its filling of digits has the bits
  of `HEADER32_SMALL_TRIPTIMES` where the listener looks for them.
* `--full-duplex -X`: the reading thread races for the answer. `--full-duplex`
  with `--sync-transfer-id`, and a mode with either or `-X`, are taken for
  something else by the server. An endless two-way test becomes 1000 bytes.
* `--bounceback --full-duplex` dereferences a report that is not there
  (`Launch.cpp:246`); `--bounceback -R` is refused; `--bounceback-request` below
  the header is accepted by the client and refused by the server. `-d -P 2` with
  a range of ports connects back to a port where nobody listens.

TCP traffic (`Traffic`):

* `StartSynch` takes the first payload from an unsigned amount without a guard
  (`Client.cpp:424`): an amount below it wraps and the test never ends. A
  bounceback with `-n` never ends.
* The server of every test with bursts, `--trip-times` without frames or periods
  among them, has a receive timeout of two frames (`Server.cpp:113`), which at the
  default of one frame per second (`Settings.cpp:390`) is two seconds, or less with
  an interval (line 117). A pause of the client of that length at a burst's beginning ends the server's test
  (`Server.cpp:238`), and a partial header is thrown away; inside a burst the -1 is
  added to the length (`Server.cpp:286`). `recvn` forgets what it had read at a timeout, which can
  stop a bounceback. A server whose client is gone writes its reply for ever
  (`Server.cpp:405`).
* `-R --isochronous` without `--trip-times`: `ClientReverseFirstRead` takes the
  first 4 bytes of the first header.
* Client reports: `RunRateLimitedTCP` may lose the first of two writes and does
  not look at the amount; `RunNearCongestionTCP` reports the last write of a
  burst only; `RunWriteEventsTCP` does not add up.
* `rc = recv(...) > 0` (`Client.cpp:2190`).

UDP traffic (`Datagrams`, `UdpSessions`):

* While `write_UDP_AckFIN` waits for silence it reads into the buffer that holds
  its answer (`Reports.c:1259`, `UdpSessions`), and what it sends again is the
  client's own datagram, which the client prints as the server's report, against
  `Reports.c:1164`.
* `-u -R --trip-times`: the first datagram is read and not counted
  (`Server.cpp:603`), and one loss is reported, against `Client.cpp:2041`. A
  reverse client sends its first datagram up to 100 times; the server may take
  one of those for its statistics and stop repeating the end.
* The final datagram is reported (`Client.cpp:2042` says it is not counted), and
  with the error of the write before it, if that failed.
* The first frame is counted twice, at both ends; a slip counts as one loss too
  many, and the frame after it is never complete. The final datagram carries
  the fields of the frame before.
* `RunUDPBurst` with an amount that is not a multiple of the burst, or after a
  write that fails for good, sends empty datagrams for ever (`Client.cpp:1603`);
  the server takes the first for the end.
* L4S: `m_lost_window` is kept when an undo takes the branch of the rate and by
  `ResetCCInfo`, so that later acknowledgments undo again; the window in flight
  is one too high; `GetCCInfo` subtracts 1 where a part is meant
  (`prague_cc.cpp:505`); `reserved1` of an acknowledgment is not initialised
  (`Server.cpp:1162`); duplicated data makes the divisor of alpha zero
  (`prague_cc.cpp:250`); `-n` never ends.

## 7. Plan

1. The ack ring as a second refinement of `PacketChannel`.
2. Frames and bursts: the `transit_ready` of both TCP ends and the frame
   reports, in `TcpTraffic`.
3. `UdpSessions` with fairness for the end of a session.
4. Both directions of a full-duplex test over one connection.
