------------------------- MODULE IperfThreadsProofs -------------------------
(***************************************************************************)
(* Proofs about IperfThreads, for any number of clients, failures and      *)
(* interrupts: the counts that the process ends by are exact, nobody that  *)
(* still needs the reporter loses it, and no settings are read after they  *)
(* have been freed.                                                        *)
(***************************************************************************)
EXTENDS IperfThreads, FiniteSetTheorems, SequenceTheorems, TLAPS

(* Where each kind of thread can be.                                       *)
MainPlaces == {"count", "failing", "chain", "release", "join", "joinwait"}
ReporterPlaces == {"idle", "counted", "failed", "begin", "root", "nap", "users", "work", "leave", "destroy", "gone"}
ListenerPlaces == {"idle", "counted", "failed", "begin", "listen", "serve", "accept", "accepted", "count",
                   "failing", "chain", "unregister", "leave", "destroy", "gone", "stopped"}
TrafficPlaces == Working \cup {"idle", "counted", "failed", "count", "failing", "leave", "destroy", "gone", "stopped"}

Places ==
  /\ pc \in [Threads -> Positions]
  /\ pc["main"] \in MainPlaces /\ pc["reporter"] \in ReporterPlaces /\ pc["listener"] \in ListenerPlaces
  /\ \A t \in Traffic : pc[t] \in TrafficPlaces
  /\ child \in [Threads -> Threads \cup {None}]
  /\ after \in [Threads -> {"chain", "post", "leave", "destroy"}]
  /\ runNow \in [Threads -> Threads \cup {None}] /\ runNext \in [Threads -> Threads \cup {None}]

Starter(p) == pc[p] \in {"count", "failing", "chain"}
Over(p) == pc[p] \in {"destroy", "gone"} \/ (pc[p] \in {"count", "failing"} /\ after[p] = "destroy")

\* What each thread goes on with when it has started another.
Afters ==
  /\ after["main"] = "chain"
  /\ pc["listener"] \notin {"destroy", "gone"} => after["listener"] = "chain"
  /\ \A t \in Traffic : Starter(t) => after[t] # "chain"
  /\ \A p \in Threads : pc[p] = "count" /\ after[p] = "destroy" => child[p] = runNext[p]
  /\ runNext["listener"] = None /\ runNext["reporter"] = None
  /\ mode = "server" => \A t \in Traffic : Starter(t) => after[t] = "destroy"

\* Who is being started, and that nobody else starts it.
Children ==
  /\ \A p \in Threads : Starter(p) => child[p] \in Threads \ {"main"}
  /\ \A p \in Threads : pc[p] = "count" => pc[child[p]] = "idle"
  /\ \A p \in Threads : pc[p] = "failing" => pc[child[p]] = "counted"
  /\ \A p \in Threads : pc[p] = "chain" => pc[child[p]] \notin {"idle", "counted"}
  /\ \A p, q \in Threads : p # q /\ Starter(p) /\ Starter(q) => child[p] # child[q]

\* The link of q is still to be followed.
Open(q) == pc[q] = "idle" \/ \E p \in Threads : child[p] = q /\ Starter(p) /\ after[p] = "chain"
Claimed(t) == pc[t] = "idle" /\ \A p \in Threads : pc[p] = "count" => child[p] # t

\* A thread that is linked is idle until the link is followed, and has one link.
Links ==
  /\ \A q \in Threads : Open(q) /\ runNow[q] # None => Claimed(runNow[q])
  /\ \A q \in Threads : ~Over(q) /\ runNext[q] # None => Claimed(runNext[q])
  /\ \A p, q \in Threads : runNow[p] = runNow[q] /\ runNow[p] # None => p = q
  /\ \A p, q \in Threads : runNext[p] = runNext[q] /\ runNext[p] # None => p = q
  /\ \A p, q \in Threads : runNow[p] = runNext[q] => runNow[p] = None
  /\ \A p \in Threads : runNow[p] # "main" /\ runNext[p] # "main"

\* A listener that could not listen is left in the count of listeners.
Listed == Registered \/ pc["listener"] = "stopped"
Uncounted == Listed /\ nonterm = 0
Exact ==
  /\ trfc = Cardinality(Counted \cap Traffic)
  /\ sNum = Cardinality(Counted) - (IF Uncounted THEN 1 ELSE 0)
  /\ nonterm \in {0, 1} /\ signals \in Nat
  /\ nonterm = 1 => Listed
  /\ signals = 0 => ~Uncounted

\* main starts the threads of the settings, and lets them begin only then.
Boot ==
  /\ mode \in {"client", "server"} /\ ToSet(parallel) \subseteq Traffic
  /\ {begun, ready, interrupted} \subseteq BOOLEAN
  /\ pc["main"] \in {"count", "failing", "chain", "release"} <=> ~begun
  /\ ready => begun
  /\ pc["reporter"] \in {"root", "nap", "users", "work", "leave", "destroy", "gone"} => ready
  /\ runNow["listener"] = None
  /\ \A p \in Traffic : runNow[p] \in Traffic \cup {None}
  /\ \A p \in Threads : runNext[p] \in Traffic \cup {None}
  /\ \A p \in Threads \ {"main"} : Starter(p) => child[p] \in Traffic
  /\ mode = "client" =>
       /\ pc["listener"] = "idle"
       /\ \A p \in Threads : runNow[p] \in ToSet(parallel) \cup {None}
       /\ \A t \in ToSet(parallel) : pc[t] \in {"idle", "counted", "failed", "begin", "stopped"} \/ ready
       /\ Starter("main") => child["main"] \in {"reporter"} \cup ToSet(parallel)
  /\ mode = "server" =>
       /\ runNow["reporter"] \in {"listener", None}
       /\ Starter("main") => child["main"] \in {"reporter", "listener"}

\* The reporter has left: nobody is there that could start another thread.
Alone ==
  NoLateStart /\ pc["reporter"] \in {"leave", "destroy", "gone"} => Counted \subseteq {"reporter"}

\* With --singleclient the listener starts a thread when there is none, and
\* then the one that is linked to it.
Serving(t) == Counted \cap Traffic \subseteq {t, runNow[t]}
Single ==
  /\ single => mode = "server"
  /\ mode = "server" => \A t \in Traffic : pc[t] = "idle" /\ runNow[t] # None
                           => pc["listener"] = "count" /\ child["listener"] = t
  /\ single /\ NoLateStart =>
       /\ pc["listener"] \in {"accept", "accepted"} => Counted \cap Traffic = {}
       /\ \/ ~Starter("listener") /\ Counted \cap Traffic = {}
          \/ \E t \in Traffic :
               /\ Serving(t)
               /\ Starter("listener") =>
                    child["listener"] = t \/ (child["listener"] = runNow[t] /\ runNow[runNow[t]] = None)

Queues ==
  /\ mCount \in 0 .. Unlimited /\ connects \in 0 .. Len(parallel) /\ parallel \in Seq(Traffic)
  /\ pc["listener"] = "accept" => mCount > 0
  /\ pc["reporter"] = "work" => item \in 1 .. Len(root)
  /\ pending \in Seq(Traffic \cup {Note}) /\ root \in Seq(Traffic \cup {Note})

Structure == Places /\ Afters /\ Children /\ Links
Running == Structure /\ Exact /\ Boot /\ Alone /\ Single /\ Queues

\* The inductive invariant.
IInv == TypeOK /\ (Exited \/ Running)
-----------------------------------------------------------------------------
LEMMA ThreadsFinite == IsFiniteSet(Threads)
<1>1. IsFiniteSet({"main", "reporter", "listener"})
  <2>1. IsFiniteSet({} \cup {"main"}) BY FS_EmptySet, FS_AddElement
  <2>2. IsFiniteSet({} \cup {"main"} \cup {"reporter"}) BY <2>1, FS_AddElement
  <2>3. IsFiniteSet({} \cup {"main"} \cup {"reporter"} \cup {"listener"}) BY <2>2, FS_AddElement
  <2>4. {} \cup {"main"} \cup {"reporter"} \cup {"listener"} = {"main", "reporter", "listener"} OBVIOUS
  <2> QED BY <2>3, <2>4
<1> QED BY <1>1, ThreadsAssumption, FS_Union DEF Threads

\* A thread that is counted or not is so by its place alone, but for one that
\* starts the thread of runNext.
LEMMA CountedFinite ==
  /\ IsFiniteSet(Counted) /\ Cardinality(Counted) \in Nat /\ Cardinality(Counted) =< Cardinality(Threads)
  /\ IsFiniteSet(Counted \cap Traffic) /\ Cardinality(Counted \cap Traffic) \in Nat
  /\ Cardinality(Counted \cap Traffic) =< Cardinality(Traffic)
<1>1. Counted \subseteq Threads /\ Counted \cap Traffic \subseteq Traffic BY DEF Counted
<1>2. IsFiniteSet(Traffic) BY ThreadsAssumption
<1> QED BY <1>1, <1>2, ThreadsFinite, FS_Subset, FS_CardinalityType

-----------------------------------------------------------------------------
(* Steps that start nobody.                                                *)

Quiet == {"begin", "barrier", "connected", "post", "traffic", "endjob", "leave", "listen", "serve", "accept",
          "accepted", "unregister", "release", "join", "joinwait", "root", "nap", "users", "work"}
Calm(p) == pc'[p] = pc[p] \/ (pc[p] \in Quiet /\ pc'[p] \in Quiet) \/ (pc[p] = "destroy" /\ pc'[p] = "gone")
Stops(p) == pc[p] \in Quiet /\ pc'[p] = "stopped"
KindKept ==
  /\ pc' \in [Threads -> Positions]
  /\ pc'["main"] \in MainPlaces /\ pc'["reporter"] \in ReporterPlaces /\ pc'["listener"] \in ListenerPlaces
  /\ \A t \in Traffic : pc'[t] \in TrafficPlaces

LEMMA ThreadsHas == {"main", "reporter", "listener"} \subseteq Threads /\ Traffic \subseteq Threads
  BY DEF Threads

LEMMA CalmStructure ==
  ASSUME Structure, KindKept, UNCHANGED <<config, starts>>, \A p \in Threads : Calm(p) \/ Stops(p)
  PROVE  Structure'
<1>1. UNCHANGED <<mode, child, after, runNow, runNext>> BY DEF config, starts
<1>2. \A p \in Threads : /\ pc'[p] = "idle" <=> pc[p] = "idle"
                         /\ pc'[p] = "counted" <=> pc[p] = "counted"
                         /\ pc'[p] = "count" <=> pc[p] = "count"
                         /\ pc'[p] = "failing" <=> pc[p] = "failing"
                         /\ pc'[p] = "chain" <=> pc[p] = "chain"
                         /\ pc'[p] \in {"destroy", "gone"} <=> pc[p] \in {"destroy", "gone"}
  BY DEF Calm, Stops, Quiet
<1>3. \A p \in Threads : (Starter(p)' <=> Starter(p)) /\ (Over(p)' <=> Over(p))
  BY <1>1, <1>2 DEF Starter, Over
<1>4. Places' BY <1>1 DEF Structure, Places, KindKept
<1>5. Afters' BY <1>1, <1>2, <1>3, ThreadsHas DEF Structure, Afters
<1>6. \A p \in Threads : Starter(p) => child[p] \in Threads BY DEF Structure, Children
<1>7. Children'
  BY <1>1, <1>2, <1>3, <1>6 DEF Structure, Children, Starter
<1>8. \A q \in Threads : (Open(q)' <=> Open(q)) /\ (Claimed(q)' <=> Claimed(q))
  BY <1>1, <1>2, <1>3 DEF Open, Claimed
<1>9. \A q \in Threads : (runNow[q] # None => runNow[q] \in Threads) /\ (runNext[q] # None => runNext[q] \in Threads)
  BY DEF Structure, Places
<1>10. Links' BY <1>1, <1>3, <1>8, <1>9 DEF Structure, Links
<1> QED BY <1>4, <1>5, <1>7, <1>10 DEF Structure

LEMMA OneCalm ==
  ASSUME Places, NEW p \in Threads, NEW b, pc' = [pc EXCEPT ![p] = b],
         (pc[p] \in Quiet /\ b \in Quiet) \/ (pc[p] = "destroy" /\ b = "gone"),
         p = "main" => b \in MainPlaces, p = "reporter" => b \in ReporterPlaces,
         p = "listener" => b \in ListenerPlaces, p \in Traffic => b \in TrafficPlaces
  PROVE  KindKept /\ \A q \in Threads : Calm(q)
<1>1. b \in Positions BY DEF Quiet, Positions, Working
<1>2. \A q \in Threads : pc'[q] = IF q = p THEN b ELSE pc[q] BY DEF Places
<1>3. pc' \in [Threads -> Positions] BY <1>1 DEF Places
<1>4. \A q \in Threads : Calm(q) BY <1>2 DEF Calm
<1>5. KindKept BY <1>2, <1>3, ThreadsHas DEF KindKept, Places
<1> QED BY <1>4, <1>5

\* A step of main, of the user or of an alarm that ends nothing.
LEMMA MainCalm ==
  ASSUME Places, ~Exited', StartRelease \/ JoinAll \/ Interrupt \/ Alarm
  PROVE  KindKept /\ \A q \in Threads : Calm(q)
<1>1. CASE StartRelease
  <2>1. pc' = [pc EXCEPT !["main"] = "join"] /\ pc["main"] = "release" BY <1>1 DEF StartRelease
  <2> QED BY <2>1, OneCalm, ThreadsHas, ThreadsAssumption DEF Quiet, MainPlaces
<1>2. CASE JoinAll
  <2>1. pc' = [pc EXCEPT !["main"] = "joinwait"] /\ pc["main"] = "join"
    BY <1>2 DEF JoinAll, Exited, Exit
  <2> QED BY <2>1, OneCalm, ThreadsHas, ThreadsAssumption DEF Quiet, MainPlaces
<1>3. CASE UNCHANGED pc BY <1>3 DEF KindKept, Places, Calm
<1>4. CASE Interrupt
  <2>1. CASE pc["main"] = "joinwait"
    <3>1. pc' = [pc EXCEPT !["main"] = "join"] BY <1>4, <2>1 DEF Interrupt, Signalled
    <3> QED BY <2>1, <3>1, OneCalm, ThreadsHas, ThreadsAssumption DEF Quiet, MainPlaces
  <2> QED BY <1>3, <1>4, <2>1 DEF Interrupt, Signalled
<1>5. CASE Alarm BY <1>3, <1>5 DEF Alarm
<1> QED BY <1>1, <1>2, <1>4, <1>5

\* A step of a traffic thread that starts nobody.
TrafficWorks(t) ==
  Connect(t) \/ BarrierTimeout(t) \/ Receive(t) \/ PostData(t) \/ EndJob(t) \/ EndJobDone(t) \/ Destroy(t)
    \/ (Proceed(t) /\ UNCHANGED starts /\ pc' \in {[pc EXCEPT ![t] = l] : l \in {"post", "leave"}})

LEMMA TrafficCalm ==
  ASSUME Places, NEW t \in Traffic, TrafficWorks(t)
  PROVE  KindKept /\ \A q \in Threads : Calm(q)
<1>1. t \in Threads /\ t \notin {"main", "reporter", "listener"} BY ThreadsHas, ThreadsAssumption
<1>2. ASSUME NEW b, pc' = [pc EXCEPT ![t] = b],
             (pc[t] \in Quiet /\ b \in Quiet) \/ (pc[t] = "destroy" /\ b = "gone"), b \in TrafficPlaces
      PROVE  KindKept /\ \A q \in Threads : Calm(q)
  BY <1>1, <1>2, OneCalm
<1>3. CASE Connect(t)
  <2>1. CASE connects > 1
    <3>1. pc' = [pc EXCEPT ![t] = "barrier"] BY <1>3, <2>1 DEF Connect, Arrive
    <3>2. pc[t] = "begin" BY <1>3 DEF Connect
    <3> QED BY <1>2, <3>1, <3>2 DEF Quiet, TrafficPlaces, Working
  <2>2. CASE ~(connects > 1)
    <3>1. pc' = [p \in Threads |-> IF p = t \/ pc[p] = "barrier" THEN "connected" ELSE pc[p]]
      BY <1>3, <2>2 DEF Connect, Arrive
    <3>2. pc[t] = "begin" BY <1>3 DEF Connect
    <3>3. \A p \in Threads : Calm(p) BY <3>1, <3>2 DEF Calm, Quiet
    <3>4. \A p \in Threads : pc'[p] = "connected" \/ pc'[p] = pc[p] BY <3>1
    <3>5. pc' \in [Threads -> Positions] BY <3>1 DEF Places, Positions, Working
    <3>6. \A p \in {"main", "reporter", "listener"} : pc'[p] = pc[p]
      BY <1>1, <3>1, ThreadsHas DEF Places, MainPlaces, ReporterPlaces, ListenerPlaces
    <3>7. \A p \in Traffic : pc'[p] \in TrafficPlaces
      BY <3>4, ThreadsHas DEF Places, TrafficPlaces, Working
    <3> QED BY <3>3, <3>5, <3>6, <3>7 DEF KindKept, Places
  <2> QED BY <2>1, <2>2
<1>4. CASE BarrierTimeout(t) BY <1>2, <1>4 DEF BarrierTimeout, Quiet, TrafficPlaces, Working
<1>5. CASE Receive(t) BY <1>2, <1>5 DEF Receive, Quiet, TrafficPlaces, Working
<1>6. CASE PostData(t) BY <1>2, <1>6 DEF PostData, Quiet, TrafficPlaces, Working
<1>7. CASE EndJob(t) BY <1>2, <1>7 DEF EndJob, Quiet, TrafficPlaces, Working
<1>8. CASE EndJobDone(t) BY <1>2, <1>8 DEF EndJobDone, Quiet, TrafficPlaces
<1>9. CASE Destroy(t) BY <1>2, <1>9 DEF Destroy, TrafficPlaces
<1>10. ASSUME NEW l \in {"post", "leave"}, pc' = [pc EXCEPT ![t] = l], pc[t] = "connected"
       PROVE  KindKept /\ \A q \in Threads : Calm(q)
  <2>1. pc[t] \in Quiet /\ l \in Quiet /\ l \in TrafficPlaces BY <1>10 DEF Quiet, TrafficPlaces, Working
  <2> QED BY <1>2, <1>10, <2>1
<1> QED BY <1>3, <1>4, <1>5, <1>6, <1>7, <1>8, <1>9, <1>10 DEF TrafficWorks, Proceed

\* A step of the listener or of its peers that starts nobody.
ListenerWorks ==
  Register \/ Listen \/ Serve \/ Reject \/ Unregister \/ AcceptNothing \/ Accept \/ Destroy("listener")

LEMMA ListenerCalm ==
  ASSUME Places, ListenerWorks
  PROVE  KindKept /\ \A q \in Threads : Calm(q)
<1>1. "listener" \in Threads /\ "listener" \notin Traffic BY ThreadsHas, ThreadsAssumption
<1>2. ASSUME NEW b, pc' = [pc EXCEPT !["listener"] = b], pc["listener"] \in Quiet, b \in Quiet, b \in ListenerPlaces
      PROVE  KindKept /\ \A q \in Threads : Calm(q)
  BY <1>1, <1>2, OneCalm
<1>3. CASE Register BY <1>2, <1>3 DEF Register, Quiet, ListenerPlaces
<1>4. CASE Listen BY <1>2, <1>4 DEF Listen, Quiet, ListenerPlaces
<1>5. CASE Serve
  <2>1. PICK b \in {"unregister", "accept"} : pc' = [pc EXCEPT !["listener"] = b] BY <1>5 DEF Serve
  <2>2. pc["listener"] \in Quiet /\ b \in Quiet /\ b \in ListenerPlaces BY <1>5 DEF Serve, Quiet, ListenerPlaces
  <2> QED BY <1>2, <2>1, <2>2
<1>6. CASE Reject BY <1>2, <1>6 DEF Reject, Quiet, ListenerPlaces
<1>7. CASE Unregister BY <1>2, <1>7 DEF Unregister, Quiet, ListenerPlaces
<1>8. CASE AcceptNothing
  <2>1. PICK b \in {"serve", "unregister"} : pc' = [pc EXCEPT !["listener"] = b] BY <1>8 DEF AcceptNothing
  <2>2. pc["listener"] \in Quiet /\ b \in Quiet /\ b \in ListenerPlaces
    BY <1>8 DEF AcceptNothing, Quiet, ListenerPlaces
  <2> QED BY <1>2, <2>1, <2>2
<1>9. CASE Accept BY <1>2, <1>9 DEF Accept, Quiet, ListenerPlaces
<1>10. CASE Destroy("listener") BY <1>1, <1>10, OneCalm DEF Destroy, ListenerPlaces
<1> QED BY <1>3, <1>4, <1>5, <1>6, <1>7, <1>8, <1>9, <1>10 DEF ListenerWorks

ReporterWorks == ReporterReady \/ SetRoot \/ Nap \/ Users \/ Process \/ Destroy("reporter")

LEMMA ReporterCalm ==
  ASSUME Places, ReporterWorks
  PROVE  KindKept /\ \A q \in Threads : Calm(q)
<1>1. "reporter" \in Threads /\ "reporter" \notin Traffic BY ThreadsHas, ThreadsAssumption
<1>2. ASSUME NEW b \in {"root", "nap", "users", "work", "leave"}, pc' = [pc EXCEPT !["reporter"] = b],
             pc["reporter"] \in Quiet
      PROVE  KindKept /\ \A q \in Threads : Calm(q)
  <2>1. b \in Quiet /\ b \in ReporterPlaces BY DEF Quiet, ReporterPlaces
  <2> QED BY <1>1, <1>2, <2>1, OneCalm
<1>3. CASE ReporterReady BY <1>2, <1>3 DEF ReporterReady, Quiet
<1>4. CASE SetRoot \/ Nap
  <2>1. pc["reporter"] \in Quiet BY <1>4 DEF SetRoot, Nap, Quiet
  <2>2. PICK b \in {"nap", "users", "work"} : pc' = [pc EXCEPT !["reporter"] = b]
    BY <1>4 DEF SetRoot, Nap, TakePending
  <2> QED BY <1>2, <2>1, <2>2
<1>5. CASE Users
  <2>1. pc["reporter"] \in Quiet BY <1>5 DEF Users, Quiet
  <2>2. PICK b \in {"root", "leave"} : pc' = [pc EXCEPT !["reporter"] = b] BY <1>5 DEF Users
  <2> QED BY <1>2, <2>1, <2>2
<1>6. CASE Process
  <2>1. pc["reporter"] \in Quiet /\ pc["reporter"] = "work" BY <1>6 DEF Process, Quiet
  <2>2. pc' = [pc EXCEPT !["reporter"] = "root"] \/ pc' = pc BY <1>6 DEF Process
  <2>3. CASE pc' = pc BY <2>3 DEF KindKept, Places, Calm
  <2> QED BY <1>2, <2>1, <2>2, <2>3
<1>7. CASE Destroy("reporter") BY <1>1, <1>7, OneCalm DEF Destroy, ReporterPlaces
<1> QED BY <1>3, <1>4, <1>5, <1>6, <1>7 DEF ReporterWorks
-----------------------------------------------------------------------------
(* Steps that start a thread.                                              *)

\* What p does to the thread that it starts.
Hands(p, a, b) ==
  /\ pc' = [pc EXCEPT ![p] = a, ![child[p]] = b]
  /\ \/ pc[p] = "count" /\ a = after[p] /\ b = "begin"
     \/ pc[p] = "count" /\ a = "failing" /\ b = "counted"
     \/ pc[p] = "failing" /\ a = after[p] /\ b = "failed"

LEMMA HandsOver ==
  ASSUME NEW p \in Threads, Start(p) \/ StartFails(p) \/ StartUndone(p)
  PROVE  /\ \E a, b : Hands(p, a, b)
         /\ UNCHANGED <<config, starts>>
<1>1. CASE Start(p) BY <1>1 DEF Start, Hands
<1>2. CASE StartFails(p) BY <1>2 DEF StartFails, Hands
<1>3. CASE StartUndone(p) BY <1>3 DEF StartUndone, Hands
<1> QED BY <1>1, <1>2, <1>3

\* Who is where after it.
LEMMA HandsPlaces ==
  ASSUME Structure, NEW p \in Threads, NEW a, NEW b, Hands(p, a, b)
  PROVE  /\ child[p] \in Threads \ {"main"} /\ child[p] # p /\ p # "reporter"
         /\ pc' = [q \in Threads |-> IF q = child[p] THEN b ELSE IF q = p THEN a ELSE pc[q]]
         /\ pc' \in [Threads -> Positions] /\ KindKept
<1>1. Starter(p) BY DEF Hands, Starter
<1>2. child[p] \in Threads \ {"main"} BY <1>1 DEF Structure, Children
<1>3. child[p] # p BY DEF Hands, Structure, Children
<1>4. p # "reporter" BY ThreadsHas DEF Hands, Structure, Places, ReporterPlaces
<1>5. pc' = [q \in Threads |-> IF q = child[p] THEN b ELSE IF q = p THEN a ELSE pc[q]]
  BY <1>2, <1>3 DEF Hands, Structure, Places
<1>6. b \in {"begin", "counted", "failed"} BY DEF Hands
<1>7. a \in {"chain", "post", "leave", "destroy", "failing"} BY DEF Hands, Structure, Places
<1>8. p = "main" => a \in MainPlaces BY DEF Hands, Structure, Afters, MainPlaces
<1>9. p = "listener" => a \in ListenerPlaces BY DEF Hands, Structure, Afters, ListenerPlaces
<1>10. p \in Traffic => a \in TrafficPlaces
  <2>1. p \in Traffic => after[p] # "chain" BY <1>1 DEF Structure, Afters
  <2> QED BY <1>7, <2>1 DEF Hands, TrafficPlaces, Working
<1>11. pc' \in [Threads -> Positions] BY <1>5, <1>6, <1>7 DEF Structure, Places, Positions, Working
<1>12. KindKept
  <2>1. pc'["main"] \in MainPlaces BY <1>2, <1>5, <1>8, ThreadsHas DEF Structure, Places
  <2>2. pc'["reporter"] \in ReporterPlaces BY <1>4, <1>5, <1>6, ThreadsHas DEF Structure, Places, ReporterPlaces
  <2>3. pc'["listener"] \in ListenerPlaces BY <1>5, <1>6, <1>9, ThreadsHas DEF Structure, Places, ListenerPlaces
  <2>4. \A t \in Traffic : pc'[t] \in TrafficPlaces
    BY <1>5, <1>6, <1>10, ThreadsHas DEF Structure, Places, TrafficPlaces, Working
  <2> QED BY <1>11, <2>1, <2>2, <2>3, <2>4 DEF KindKept
<1> QED BY <1>2, <1>3, <1>4, <1>5, <1>11, <1>12

LEMMA HandsStructure ==
  ASSUME Structure, UNCHANGED <<config, starts>>, NEW p \in Threads, NEW a, NEW b, Hands(p, a, b)
  PROVE  Structure'
<1>1. UNCHANGED <<mode, child, after, runNow, runNext>> BY DEF config, starts
<1> DEFINE c == child[p]
<1>2. /\ c \in Threads \ {"main"} /\ c # p /\ p # "reporter"
      /\ pc' = [q \in Threads |-> IF q = c THEN b ELSE IF q = p THEN a ELSE pc[q]]
      /\ KindKept
  BY HandsPlaces
<1>3. \A q \in Threads : pc'[q] = IF q = c THEN b ELSE IF q = p THEN a ELSE pc[q] BY <1>2
<1>4. /\ pc[p] \in {"count", "failing"} /\ pc[c] \in {"idle", "counted"}
      /\ b \in {"begin", "counted", "failed"} /\ a \in {"chain", "post", "leave", "destroy", "failing"}
      /\ a = "chain" => after[p] = "chain" /\ b \in {"begin", "failed"}
      /\ a = "failing" => pc[p] = "count" /\ b = "counted"
      /\ a # "failing" => a = after[p]
      /\ pc[p] = "count" <=> pc[c] = "idle"
  BY DEF Hands, Structure, Places, Children
<1>5. \A q \in Threads : Starter(q) => child[q] \in Threads \ {"main"} BY DEF Structure, Children
<1>6. \A q \in Threads : q # p /\ Starter(q) => child[q] # c
  BY <1>4 DEF Structure, Children, Starter
<1>7. \A q \in Threads : Starter(q)' => Starter(q) BY <1>1, <1>3, <1>4 DEF Starter
<1>8. Places' BY <1>1, <1>2 DEF Structure, Places, KindKept
<1>9. Afters'
  <2>1. p \in Traffic => after[p] # "chain" BY <1>4 DEF Structure, Afters, Starter
  <2>2. p = "listener" => a = "chain" \/ a = "failing"
    BY <1>4 DEF Structure, Afters
  <2>3. pc'["listener"] \notin {"destroy", "gone"} => after["listener"] = "chain"
    BY <1>3, <1>4, <2>2, ThreadsHas DEF Structure, Afters
  <2>4. \A q \in Threads : pc'[q] = "count" => pc[q] = "count" BY <1>3, <1>4
  <2> QED BY <1>1, <1>7, <2>3, <2>4, ThreadsHas DEF Structure, Afters
<1>10. Children'
  <2>1. \A q \in Threads : Starter(q)' => child'[q] \in Threads \ {"main"} BY <1>1, <1>5, <1>7
  <2>2. \A q \in Threads : pc'[q] = "count" => pc'[child'[q]] = "idle"
    <3> SUFFICES ASSUME NEW q \in Threads, pc'[q] = "count" PROVE pc'[child'[q]] = "idle" OBVIOUS
    <3>1. q # p /\ pc[q] = "count" BY <1>3, <1>4
    <3>2. child[q] # c /\ child[q] \in Threads /\ pc[child[q]] = "idle"
      BY <1>5, <1>6, <3>1 DEF Starter, Structure, Children
    <3> QED BY <1>1, <1>3, <1>4, <3>2
  <2>3. \A q \in Threads : pc'[q] = "failing" => pc'[child'[q]] = "counted"
    <3> SUFFICES ASSUME NEW q \in Threads, pc'[q] = "failing" PROVE pc'[child'[q]] = "counted" OBVIOUS
    <3>1. CASE q = p BY <1>1, <1>2, <1>3, <1>4, <3>1
    <3>2. CASE q # p
      <4>1. pc[q] = "failing" BY <1>3, <1>4, <3>2
      <4>2. child[q] # c /\ child[q] \in Threads /\ pc[child[q]] = "counted"
        BY <1>5, <1>6, <3>2, <4>1 DEF Starter, Structure, Children
      <4> QED BY <1>1, <1>3, <1>4, <4>2
    <3> QED BY <3>1, <3>2
  <2>4. \A q \in Threads : pc'[q] = "chain" => pc'[child'[q]] \notin {"idle", "counted"}
    <3> SUFFICES ASSUME NEW q \in Threads, pc'[q] = "chain" PROVE pc'[child'[q]] \notin {"idle", "counted"} OBVIOUS
    <3>1. CASE q = p BY <1>1, <1>2, <1>3, <1>4, <3>1
    <3>2. CASE q # p
      <4>1. pc[q] = "chain" BY <1>3, <1>4, <3>2
      <4>2. child[q] # c /\ child[q] \in Threads /\ pc[child[q]] \notin {"idle", "counted"}
        BY <1>5, <1>6, <3>2, <4>1 DEF Starter, Structure, Children
      <4> QED BY <1>1, <1>3, <1>4, <4>2
    <3> QED BY <3>1, <3>2
  <2>5. \A q, r \in Threads : q # r /\ Starter(q)' /\ Starter(r)' => child'[q] # child'[r]
    BY <1>1, <1>7 DEF Structure, Children
  <2> QED BY <2>1, <2>2, <2>3, <2>4, <2>5 DEF Children
<1>11. Links'
  <2>1. \A q \in Threads : Open(q)' => Open(q) BY <1>1, <1>3, <1>4, <1>7 DEF Open
  <2>2. \A q \in Threads : ~Over(q)' => ~Over(q) BY <1>1, <1>3, <1>4 DEF Over
  <2>3. \A q \in Threads : Claimed(q) => Claimed(q)'
    <3> SUFFICES ASSUME NEW q \in Threads, Claimed(q) PROVE Claimed(q)' OBVIOUS
    <3>1. q # c BY <1>4 DEF Claimed
    <3>2. pc'[q] = "idle" BY <1>3, <1>4, <3>1 DEF Claimed
    <3>3. \A r \in Threads : pc'[r] = "count" => pc[r] = "count" BY <1>3, <1>4
    <3> QED BY <1>1, <3>2, <3>3 DEF Claimed
  <2>4. \A q \in Threads : (runNow[q] # None => runNow[q] \in Threads) /\ (runNext[q] # None => runNext[q] \in Threads)
    BY DEF Structure, Places
  <2> QED BY <1>1, <2>1, <2>2, <2>3, <2>4 DEF Structure, Links
<1> QED BY <1>8, <1>9, <1>10, <1>11 DEF Structure

\* What p does when it is about to start n.
Picks(p, n) ==
  /\ n \in Threads \ {"main"} /\ Claimed(n)
  /\ pc[p] \in {"chain", "leave", "accepted", "connected"} /\ pc'[p] = "count"
  /\ pc' \in [Threads -> Positions]
  /\ \A q \in Threads \ {p} : pc'[q] = pc[q] \/ (q = "main" /\ pc[q] = "joinwait" /\ pc'[q] = "join")
  /\ child' = [child EXCEPT ![p] = n]
  /\ \E x \in {"chain", "post", "leave", "destroy"} :
       /\ after' = [after EXCEPT ![p] = x]
       /\ p \in {"main", "listener"} => x = "chain"
       /\ p \in Traffic => x # "chain" /\ (mode = "server" => x = "destroy")
       /\ x = "destroy" => n = runNext'[p]
  /\ \A q \in Threads : pc[q] = "count" => runNext'[q] = runNext[q]
  /\ runNow' \in [Threads -> Threads \cup {None}] /\ runNext' \in [Threads -> Threads \cup {None}]
  /\ runNext'["listener"] = None /\ runNext'["reporter"] = None
  /\ mode' = mode

LEMMA PicksStructure ==
  ASSUME Structure, NEW p \in Threads \ {"reporter"}, NEW n, Picks(p, n)
  PROVE  /\ Places' /\ Afters' /\ Children'
         /\ \A q \in Threads : (Open(q)' => Open(q)) /\ (Over(q) => Over(q)')
         /\ \A q \in Threads : Claimed(q) /\ q # n => Claimed(q)'
<1>1. n \in Threads \ {"main"} /\ pc[n] = "idle" /\ n # p BY DEF Picks, Claimed
<1>2. \A q \in Threads \ {p} : pc'[q] = pc[q] \/ (q = "main" /\ pc[q] = "joinwait" /\ pc'[q] = "join")
  BY DEF Picks
<1>3. pc[p] \in {"chain", "leave", "accepted", "connected"} /\ pc'[p] = "count" BY DEF Picks
<1>4. child' = [q \in Threads |-> IF q = p THEN n ELSE child[q]] BY DEF Picks, Structure, Places
<1>5. PICK x \in {"chain", "post", "leave", "destroy"} :
        /\ after' = [after EXCEPT ![p] = x]
        /\ p \in {"main", "listener"} => x = "chain"
        /\ p \in Traffic => x # "chain" /\ (mode = "server" => x = "destroy")
        /\ x = "destroy" => n = runNext'[p]
  BY DEF Picks
<1>6. after' = [q \in Threads |-> IF q = p THEN x ELSE after[q]] BY <1>5 DEF Structure, Places
<1>7. \A q \in Threads \ {p} : /\ Starter(q)' <=> Starter(q)
                               /\ pc'[q] = "idle" <=> pc[q] = "idle"
                               /\ pc'[q] = "counted" <=> pc[q] = "counted"
                               /\ pc'[q] = "count" <=> pc[q] = "count"
                               /\ pc'[q] = "failing" <=> pc[q] = "failing"
                               /\ pc'[q] = "chain" <=> pc[q] = "chain"
                               /\ pc'[q] \in {"destroy", "gone"} <=> pc[q] \in {"destroy", "gone"}
  BY <1>2 DEF Starter
<1>8. \A q \in Threads : Starter(q) => child[q] \in Threads \ {"main"} BY DEF Structure, Children
<1>9. \A q \in Threads \ {p} : Starter(q) => child[q] # n
  <2> SUFFICES ASSUME NEW q \in Threads \ {p}, Starter(q), child[q] = n PROVE FALSE OBVIOUS
  <2>1. pc[q] # "count" BY DEF Picks, Claimed
  <2> QED BY <1>1, <2>1 DEF Starter, Structure, Children
<1>10. Places'
  <2>1. pc'["main"] \in MainPlaces BY <1>2, <1>3, ThreadsHas DEF Structure, Places, MainPlaces
  <2>2. pc'["reporter"] \in ReporterPlaces BY <1>2, ThreadsHas DEF Structure, Places
  <2>3. pc'["listener"] \in ListenerPlaces BY <1>2, <1>3, ThreadsHas DEF Structure, Places, ListenerPlaces
  <2>4. \A t \in Traffic : pc'[t] \in TrafficPlaces
    BY <1>2, <1>3, ThreadsHas, ThreadsAssumption DEF Structure, Places, TrafficPlaces
  <2>5. child' \in [Threads -> Threads \cup {None}] BY <1>1, <1>4 DEF Structure, Places
  <2>6. after' \in [Threads -> {"chain", "post", "leave", "destroy"}] BY <1>6 DEF Structure, Places
  <2>7. pc' \in [Threads -> Positions] /\ runNow' \in [Threads -> Threads \cup {None}]
        /\ runNext' \in [Threads -> Threads \cup {None}] BY DEF Picks
  <2> QED BY <2>1, <2>2, <2>3, <2>4, <2>5, <2>6, <2>7 DEF Places
<1>11. Afters'
  <2>1. after'["main"] = "chain" BY <1>5, <1>6, ThreadsHas DEF Structure, Afters
  <2>2. pc'["listener"] \notin {"destroy", "gone"} => after'["listener"] = "chain"
    BY <1>5, <1>6, <1>7, ThreadsHas DEF Structure, Afters
  <2>3. \A t \in Traffic : Starter(t)' => after'[t] # "chain"
    BY <1>5, <1>6, <1>7, ThreadsHas DEF Structure, Afters
  <2>4. \A q \in Threads : pc'[q] = "count" /\ after'[q] = "destroy" => child'[q] = runNext'[q]
    <3> SUFFICES ASSUME NEW q \in Threads, pc'[q] = "count", after'[q] = "destroy"
                 PROVE  child'[q] = runNext'[q] OBVIOUS
    <3>1. CASE q = p BY <1>4, <1>5, <1>6, <3>1
    <3>2. CASE q # p
      <4>1. pc[q] = "count" /\ after[q] = "destroy" BY <1>6, <1>7, <3>2
      <4> QED BY <1>4, <3>2, <4>1 DEF Structure, Afters, Picks
    <3> QED BY <3>1, <3>2
  <2>5. mode' = "server" => \A t \in Traffic : Starter(t)' => after'[t] = "destroy"
    <3>1. mode' = mode BY DEF Picks
    <3> QED BY <1>5, <1>6, <1>7, <3>1, ThreadsHas DEF Structure, Afters
  <2> QED BY <2>1, <2>2, <2>3, <2>4, <2>5 DEF Afters, Picks
<1>12. Children'
  <2>1. \A q \in Threads : Starter(q)' => child'[q] \in Threads \ {"main"}
    BY <1>1, <1>4, <1>7, <1>8
  <2>2. \A q \in Threads : pc'[q] = "count" => pc'[child'[q]] = "idle"
    <3> SUFFICES ASSUME NEW q \in Threads, pc'[q] = "count" PROVE pc'[child'[q]] = "idle" OBVIOUS
    <3>1. CASE q = p BY <1>1, <1>4, <1>7, <3>1
    <3>2. CASE q # p
      <4>1. pc[q] = "count" /\ child'[q] = child[q] BY <1>4, <1>7, <3>2
      <4>2. child[q] \in Threads /\ pc[child[q]] = "idle" BY <1>8, <4>1 DEF Starter, Structure, Children
      <4>3. child[q] # p BY <1>3, <4>2
      <4> QED BY <1>7, <4>1, <4>2, <4>3
    <3> QED BY <3>1, <3>2
  <2>3. \A q \in Threads : pc'[q] = "failing" => pc'[child'[q]] = "counted"
    <3> SUFFICES ASSUME NEW q \in Threads, pc'[q] = "failing" PROVE pc'[child'[q]] = "counted" OBVIOUS
    <3>1. q # p BY <1>3
    <3>2. pc[q] = "failing" /\ child'[q] = child[q] BY <1>4, <1>7, <3>1
    <3>3. child[q] \in Threads /\ pc[child[q]] = "counted" BY <1>8, <3>2 DEF Starter, Structure, Children
    <3>4. child[q] # p BY <1>3, <3>3
    <3> QED BY <1>7, <3>2, <3>3, <3>4
  <2>4. \A q \in Threads : pc'[q] = "chain" => pc'[child'[q]] \notin {"idle", "counted"}
    <3> SUFFICES ASSUME NEW q \in Threads, pc'[q] = "chain" PROVE pc'[child'[q]] \notin {"idle", "counted"} OBVIOUS
    <3>1. q # p BY <1>3
    <3>2. pc[q] = "chain" /\ child'[q] = child[q] BY <1>4, <1>7, <3>1
    <3>3. child[q] \in Threads /\ pc[child[q]] \notin {"idle", "counted"}
      BY <1>8, <3>2 DEF Starter, Structure, Children
    <3> QED BY <1>3, <1>7, <3>2, <3>3
  <2>5. \A q, r \in Threads : q # r /\ Starter(q)' /\ Starter(r)' => child'[q] # child'[r]
    <3> SUFFICES ASSUME NEW q \in Threads, NEW r \in Threads, q # r, Starter(q)', Starter(r)'
                 PROVE  child'[q] # child'[r] OBVIOUS
    <3>1. CASE q = p BY <1>4, <1>7, <1>9, <3>1
    <3>2. CASE r = p BY <1>4, <1>7, <1>9, <3>2
    <3>3. CASE q # p /\ r # p
      <4>1. Starter(q) /\ Starter(r) BY <1>7, <3>3
      <4>2. child[q] # child[r] BY <4>1 DEF Structure, Children
      <4> QED BY <1>4, <3>3, <4>2
    <3> QED BY <3>1, <3>2, <3>3
  <2> QED BY <2>1, <2>2, <2>3, <2>4, <2>5 DEF Children
<1>13. \A q \in Threads : Open(q)' => Open(q)
  <2> SUFFICES ASSUME NEW q \in Threads, Open(q)', pc[q] # "idle" PROVE Open(q) BY DEF Open
  <2>1. pc'[q] # "idle" BY <1>3, <1>7
  <2>2. PICK r \in Threads : child'[r] = q /\ Starter(r)' /\ after'[r] = "chain" BY <2>1 DEF Open
  <2>3. r # p BY <1>1, <1>4, <2>2
  <2>4. child[r] = q /\ Starter(r) /\ after[r] = "chain" BY <1>4, <1>6, <1>7, <2>2, <2>3
  <2> QED BY <2>4 DEF Open
<1>14. \A q \in Threads : Over(q) => Over(q)' BY <1>3, <1>6, <1>7 DEF Over
<1>15. \A q \in Threads : Claimed(q) /\ q # n => Claimed(q)'
  <2> SUFFICES ASSUME NEW q \in Threads, Claimed(q), q # n PROVE Claimed(q)' OBVIOUS
  <2>1. pc[q] = "idle" /\ q # p BY <1>3 DEF Claimed
  <2>2. pc'[q] = "idle" BY <1>7, <2>1
  <2>3. \A r \in Threads : pc'[r] = "count" => child'[r] # q BY <1>4, <1>7 DEF Claimed
  <2> QED BY <2>2, <2>3 DEF Claimed
<1> QED BY <1>10, <1>11, <1>12, <1>13, <1>14, <1>15

\* The next thread of the settings.
LEMMA ChainStructure ==
  ASSUME Structure, NEW p \in {"main", "listener"}, StartChain(p)
  PROVE  /\ Structure'
         /\ runNow[child[p]] # None => Picks(p, runNow[child[p]])
         /\ runNow[child[p]] = None => KindKept /\ UNCHANGED starts
                                        /\ pc' = [pc EXCEPT ![p] = IF p = "main" THEN "release" ELSE "serve"]
<1>1. p \in Threads /\ p # "reporter" /\ pc[p] = "chain" BY ThreadsHas DEF StartChain
<1>2. UNCHANGED <<mode, after, runNow, runNext>> BY DEF StartChain, config
<1>3. after[p] = "chain" BY <1>1 DEF Structure, Afters
<1> DEFINE c == child[p]
<1>4. c \in Threads \ {"main"} /\ pc[c] \notin {"idle", "counted"} BY <1>1 DEF Structure, Children, Starter
<1>5. CASE runNow[c] = None
  <2> DEFINE b == IF p = "main" THEN "release" ELSE "serve"
  <2>1. pc' = [pc EXCEPT ![p] = b] /\ child' = child BY <1>5 DEF StartChain
  <2>2. \A q \in Threads : pc'[q] = IF q = p THEN b ELSE pc[q] BY <2>1 DEF Structure, Places
  <2>3. b \in Positions /\ b \notin {"idle", "counted", "count", "failing", "chain", "destroy", "gone"}
    BY DEF Positions
  <2>4. KindKept
    <3>1. p = "main" => b \in MainPlaces BY DEF MainPlaces
    <3>2. p = "listener" => b \in ListenerPlaces BY DEF ListenerPlaces
    <3>3. p \notin Traffic BY ThreadsAssumption
    <3>4. pc' \in [Threads -> Positions] BY <2>1, <2>3 DEF Structure, Places
    <3> HIDE DEF b
    <3> QED BY <1>1, <2>2, <3>1, <3>2, <3>3, <3>4, ThreadsHas DEF KindKept, Structure, Places
  <2> HIDE DEF b
  <2>5. \A q \in Threads : /\ Starter(q)' => Starter(q) /\ q # p
                           /\ pc'[q] = "idle" <=> pc[q] = "idle"
                           /\ pc'[q] = "counted" <=> pc[q] = "counted"
                           /\ pc'[q] = "count" <=> pc[q] = "count"
                           /\ pc'[q] = "failing" <=> pc[q] = "failing"
                           /\ pc'[q] = "chain" => pc[q] = "chain"
                           /\ pc'[q] \in {"destroy", "gone"} <=> pc[q] \in {"destroy", "gone"}
    BY <1>1, <2>2, <2>3 DEF Starter
  <2>6. \A q \in Threads : Starter(q) => child[q] \in Threads BY DEF Structure, Children
  <2>7. Places' BY <1>2, <2>1, <2>4 DEF Structure, Places, KindKept
  <2>8. Afters' BY <1>2, <2>1, <2>5, ThreadsHas DEF Structure, Afters
  <2>9. Children'
    <3>1. \A q \in Threads : pc[q] \in {"count", "failing", "chain"} => child[q] \in Threads
      BY <2>6 DEF Starter
    <3>2. \A q \in Threads : pc'[q] = "count" => pc'[child'[q]] = "idle"
      BY <2>1, <2>5, <3>1 DEF Structure, Children
    <3>3. \A q \in Threads : pc'[q] = "failing" => pc'[child'[q]] = "counted"
      BY <2>1, <2>5, <3>1 DEF Structure, Children
    <3>4. \A q \in Threads : pc'[q] = "chain" => pc'[child'[q]] \notin {"idle", "counted"}
      BY <2>1, <2>5, <3>1 DEF Structure, Children
    <3> QED BY <2>1, <2>5, <3>2, <3>3, <3>4 DEF Structure, Children
  <2>10. \A q \in Threads : (Open(q)' => Open(q)) /\ (Claimed(q)' <=> Claimed(q))
    BY <1>2, <2>1, <2>5 DEF Open, Claimed
  <2>11. \A q \in Threads : Over(q)' <=> Over(q) BY <1>2, <2>5 DEF Over
  <2>12. \A q \in Threads : (runNow[q] # None => runNow[q] \in Threads) /\ (runNext[q] # None => runNext[q] \in Threads)
    BY DEF Structure, Places
  <2>13. Links' BY <1>2, <2>10, <2>11, <2>12 DEF Structure, Links
  <2> QED BY <1>2, <1>5, <2>1, <2>4, <2>7, <2>8, <2>9, <2>13 DEF Structure, starts, b
<1>6. CASE runNow[c] # None
  <2> DEFINE n == runNow[c]
  <2>1. pc' = [pc EXCEPT ![p] = "count"] /\ child' = [child EXCEPT ![p] = n] BY <1>6 DEF StartChain
  <2>2. Open(c) BY <1>1, <1>3 DEF Open, Starter
  <2>3. Claimed(n) BY <1>4, <1>6, <2>2 DEF Structure, Links
  <2>4. n \in Threads \ {"main"} BY <1>4, <1>6 DEF Structure, Places, Links
  <2>5. Picks(p, n)
    <3>1. after' = [after EXCEPT ![p] = "chain"] BY <1>1, <1>2, <1>3 DEF Structure, Places
    <3>2. p \notin Traffic BY ThreadsAssumption
    <3>3. pc' \in [Threads -> Positions] /\ pc'[p] = "count" /\ \A q \in Threads \ {p} : pc'[q] = pc[q]
      BY <1>1, <2>1 DEF Structure, Places, Positions
    <3>4. /\ runNow' \in [Threads -> Threads \cup {None}] /\ runNext' \in [Threads -> Threads \cup {None}]
          /\ runNext'["listener"] = None /\ runNext'["reporter"] = None
      BY <1>2 DEF Structure, Places, Afters
    <3> HIDE DEF n
    <3> QED BY <1>1, <1>2, <2>1, <2>3, <2>4, <3>1, <3>2, <3>3, <3>4 DEF Picks
  <2>6. /\ Places' /\ Afters' /\ Children'
        /\ \A q \in Threads : (Open(q)' => Open(q)) /\ (Over(q) => Over(q)')
        /\ \A q \in Threads : Claimed(q) /\ q # n => Claimed(q)'
    BY <1>1, <2>5, PicksStructure
  <2>7. \A q \in Threads : Open(q)' => runNow[q] # n
    <3> SUFFICES ASSUME NEW q \in Threads, Open(q)', runNow[q] = n PROVE FALSE OBVIOUS
    <3>1. q = c BY <1>4, <1>6 DEF Structure, Links
    <3>2. c # n BY <1>4, <2>3 DEF Claimed
    <3>3. child' = [r \in Threads |-> IF r = p THEN n ELSE child[r]] BY <2>1 DEF Structure, Places
    <3>4. \A r \in Threads \ {p} : pc'[r] = pc[r] BY <1>1, <2>1 DEF Structure, Places
    <3>5. pc'[c] # "idle"
      <4>1. pc'[p] = "count" BY <1>1, <2>1 DEF Structure, Places
      <4> QED BY <1>4, <3>4, <4>1
    <3>6. PICK r \in Threads : child'[r] = c /\ Starter(r)' BY <3>1, <3>5 DEF Open
    <3>7. r # p BY <1>1, <3>2, <3>3, <3>6
    <3>8. Starter(r) /\ child[r] = c BY <3>3, <3>4, <3>6, <3>7 DEF Starter
    <3>9. Starter(p) BY <1>1 DEF Starter
    <3> QED BY <1>1, <3>7, <3>8, <3>9 DEF Structure, Children
  <2>8. \A q \in Threads : runNext[q] # n BY <1>4, <1>6 DEF Structure, Links
  <2>9. \A q \in Threads : (runNow[q] # None => runNow[q] \in Threads) /\ (runNext[q] # None => runNext[q] \in Threads)
    BY DEF Structure, Places
  <2> HIDE DEF n
  <2>10. Links'
    <3>1. ASSUME NEW q \in Threads, Open(q)', runNow[q] # None PROVE Claimed(runNow[q])'
      <4>1. Claimed(runNow[q]) BY <2>6, <3>1 DEF Structure, Links
      <4>2. runNow[q] \in Threads /\ runNow[q] # n BY <2>7, <2>9, <3>1
      <4> QED BY <1>2, <2>6, <4>1, <4>2 DEF Claimed
    <3>2. ASSUME NEW q \in Threads, ~Over(q)', runNext[q] # None PROVE Claimed(runNext[q])'
      <4>1. Claimed(runNext[q]) BY <2>6, <3>2 DEF Structure, Links
      <4>2. runNext[q] \in Threads /\ runNext[q] # n BY <2>8, <2>9, <3>2
      <4> QED BY <1>2, <2>6, <4>1, <4>2 DEF Claimed
    <3> QED BY <1>2, <3>1, <3>2 DEF Structure, Links
  <2> QED BY <1>6, <2>5, <2>6, <2>10 DEF Structure, n
<1> QED BY <1>5, <1>6

\* A thread that leaves with nobody to start after it.
LEMMA LeaveAlone ==
  ASSUME Structure, NEW p \in Threads \ {"main"}, Leave(p), runNext[p] = None
  PROVE  Structure'
<1>1. pc[p] = "leave" /\ UNCHANGED <<mode, runNow, runNext>> BY DEF Leave, config
<1>2. /\ pc' = [Signalled(pc) EXCEPT ![p] = "destroy"]
      /\ child' = [child EXCEPT ![p] = None] /\ after' = [after EXCEPT ![p] = "destroy"]
  BY DEF Leave
<1>3. /\ pc'[p] = "destroy" /\ pc' \in [Threads -> Positions]
      /\ \A q \in Threads \ {p} : pc'[q] = pc[q] \/ (q = "main" /\ pc[q] = "joinwait" /\ pc'[q] = "join")
  BY <1>1, <1>2, ThreadsHas DEF Structure, Places, Signalled, Positions
<1>4. /\ \A q \in Threads \ {p} : child'[q] = child[q] /\ after'[q] = after[q]
      /\ after'[p] = "destroy"
  BY <1>2 DEF Structure, Places
<1>5. /\ child' \in [Threads -> Threads \cup {None}]
      /\ after' \in [Threads -> {"chain", "post", "leave", "destroy"}]
  BY <1>2 DEF Structure, Places
<1>6. \A q \in Threads : /\ Starter(q)' <=> Starter(q)
                         /\ pc'[q] = "idle" <=> pc[q] = "idle"
                         /\ pc'[q] = "counted" <=> pc[q] = "counted"
                         /\ pc'[q] = "count" <=> pc[q] = "count"
                         /\ pc'[q] = "failing" <=> pc[q] = "failing"
                         /\ pc'[q] = "chain" <=> pc[q] = "chain"
                         /\ pc[q] \in {"destroy", "gone"} => pc'[q] \in {"destroy", "gone"}
                         /\ Starter(q) => child'[q] = child[q] /\ after'[q] = after[q] /\ child[q] \in Threads
  BY <1>1, <1>3, <1>4 DEF Starter, Structure, Children
<1>7. Places'
  <2>1. pc'["main"] \in MainPlaces BY <1>3, ThreadsHas DEF Structure, Places, MainPlaces
  <2>2. pc'["reporter"] \in ReporterPlaces BY <1>3, ThreadsHas DEF Structure, Places, ReporterPlaces
  <2>3. pc'["listener"] \in ListenerPlaces BY <1>3, ThreadsHas DEF Structure, Places, ListenerPlaces
  <2>4. \A t \in Traffic : pc'[t] \in TrafficPlaces
    BY <1>3, ThreadsHas, ThreadsAssumption DEF Structure, Places, TrafficPlaces
  <2> QED BY <1>1, <1>3, <1>5, <2>1, <2>2, <2>3, <2>4 DEF Structure, Places
<1>8. Afters'
  <2>1. after'["main"] = "chain" BY <1>4, ThreadsHas DEF Structure, Afters
  <2>2. pc'["listener"] \notin {"destroy", "gone"} => after'["listener"] = "chain"
    BY <1>1, <1>3, <1>4, ThreadsHas DEF Structure, Afters
  <2>3. \A t \in Traffic : Starter(t)' => after'[t] # "chain" BY <1>6, ThreadsHas DEF Structure, Afters
  <2>4. \A q \in Threads : pc'[q] = "count" /\ after'[q] = "destroy" => child'[q] = runNext'[q]
    BY <1>1, <1>6 DEF Starter, Structure, Afters
  <2>5. mode' = "server" => \A t \in Traffic : Starter(t)' => after'[t] = "destroy"
    BY <1>1, <1>6, ThreadsHas DEF Structure, Afters
  <2> QED BY <1>1, <2>1, <2>2, <2>3, <2>4, <2>5 DEF Structure, Afters
<1>9. Children'
  <2>1. \A q \in Threads : Starter(q)' => child'[q] \in Threads \ {"main"} BY <1>6 DEF Structure, Children
  <2>2. \A q \in Threads : pc'[q] = "count" => pc'[child'[q]] = "idle"
    BY <1>6 DEF Starter, Structure, Children
  <2>3. \A q \in Threads : pc'[q] = "failing" => pc'[child'[q]] = "counted"
    BY <1>6 DEF Starter, Structure, Children
  <2>4. \A q \in Threads : pc'[q] = "chain" => pc'[child'[q]] \notin {"idle", "counted"}
    BY <1>6 DEF Starter, Structure, Children
  <2>5. \A q, r \in Threads : q # r /\ Starter(q)' /\ Starter(r)' => child'[q] # child'[r]
    BY <1>6 DEF Structure, Children
  <2> QED BY <2>1, <2>2, <2>3, <2>4, <2>5 DEF Children
<1>10. Links'
  <2>1. \A q \in Threads : Open(q)' => Open(q)
    <3> SUFFICES ASSUME NEW q \in Threads, Open(q)' PROVE Open(q) OBVIOUS
    <3> QED BY <1>6 DEF Open
  <2>2. \A q \in Threads : Claimed(q) => Claimed(q)' BY <1>6 DEF Claimed, Starter
  <2>3. \A q \in Threads : Over(q) => Over(q)' BY <1>6 DEF Over, Starter
  <2>4. \A q \in Threads : (runNow[q] # None => runNow[q] \in Threads) /\ (runNext[q] # None => runNext[q] \in Threads)
    BY DEF Structure, Places
  <2> QED BY <1>1, <2>1, <2>2, <2>3, <2>4 DEF Structure, Links
<1> QED BY <1>7, <1>8, <1>9, <1>10 DEF Structure

\* A thread that leaves and is going to start another.
LEMMA LeavePicks ==
  ASSUME Structure, NEW p \in Traffic, Leave(p), runNext[p] # None
  PROVE  Picks(p, runNext[p]) /\ Structure'
<1>1. pc[p] = "leave" /\ UNCHANGED <<mode, runNow, runNext>> BY DEF Leave, config
<1> DEFINE n == runNext[p]
<1>2. /\ pc' = [Signalled(pc) EXCEPT ![p] = "count"]
      /\ child' = [child EXCEPT ![p] = n] /\ after' = [after EXCEPT ![p] = "destroy"]
  BY DEF Leave
<1>3. p \in Threads /\ p \notin {"main", "reporter", "listener"} BY ThreadsHas, ThreadsAssumption
<1>4. Claimed(n) /\ n \in Threads \ {"main"}
  <2>1. ~Over(p) BY <1>1 DEF Over
  <2> QED BY <1>3, <2>1 DEF Structure, Places, Links
<1>5. Picks(p, n)
  <2>1. /\ pc'[p] = "count" /\ pc' \in [Threads -> Positions]
        /\ \A q \in Threads \ {p} : pc'[q] = pc[q] \/ (q = "main" /\ pc[q] = "joinwait" /\ pc'[q] = "join")
    BY <1>1, <1>2, <1>3, ThreadsHas DEF Structure, Places, Signalled, Positions
  <2>2. /\ runNow' \in [Threads -> Threads \cup {None}] /\ runNext' \in [Threads -> Threads \cup {None}]
        /\ runNext'["listener"] = None /\ runNext'["reporter"] = None
    BY <1>1 DEF Structure, Places, Afters
  <2> QED BY <1>1, <1>2, <1>3, <1>4, <2>1, <2>2 DEF Picks
<1>6. /\ Places' /\ Afters' /\ Children'
      /\ \A q \in Threads : (Open(q)' => Open(q)) /\ (Over(q) => Over(q)')
      /\ \A q \in Threads : Claimed(q) /\ q # n => Claimed(q)'
  BY <1>3, <1>5, PicksStructure
<1>7. Over(p)'
  <2>1. pc'[p] = "count" BY <1>5 DEF Picks
  <2>2. after'[p] = "destroy" BY <1>2, <1>3 DEF Structure, Places
  <2> QED BY <2>1, <2>2 DEF Over
<1>8. Links'
  <2>1. \A q \in Threads : (runNow[q] # None => runNow[q] \in Threads /\ runNow[q] # n)
                           /\ (runNext[q] # None => runNext[q] \in Threads /\ (runNext[q] = n => q = p))
    BY <1>3 DEF Structure, Places, Links
  <2>2. ASSUME NEW q \in Threads, Open(q)', runNow[q] # None PROVE Claimed(runNow[q])'
    <3>1. Claimed(runNow[q]) BY <1>6, <2>2 DEF Structure, Links
    <3> QED BY <1>1, <1>6, <2>1, <2>2, <3>1 DEF Claimed
  <2>3. ASSUME NEW q \in Threads, ~Over(q)', runNext[q] # None PROVE Claimed(runNext[q])'
    <3>1. Claimed(runNext[q]) BY <1>6, <2>3 DEF Structure, Links
    <3>2. q # p BY <1>7, <2>3
    <3> HIDE DEF n
    <3> QED BY <1>1, <1>6, <2>1, <2>3, <3>1, <3>2 DEF Claimed
  <2> QED BY <1>1, <2>2, <2>3 DEF Structure, Links
<1> QED BY <1>5, <1>6, <1>8 DEF Structure

LEMMA UnusedFree ==
  ASSUME NEW t \in Unused, Structure
  PROVE  /\ t \in Traffic /\ t \in Threads \ {"main", "reporter", "listener"} /\ pc[t] = "idle" /\ Claimed(t)
         /\ \A q \in Threads : runNow[q] # t /\ runNext[q] # t /\ child[q] # t
<1>1. t \in Traffic /\ pc[t] = "idle" BY DEF Unused
<1>2. \A q \in Threads : runNow[q] # t /\ runNext[q] # t /\ child[q] # t BY DEF Unused
<1>3. t \in Threads \ {"main", "reporter", "listener"} BY <1>1, ThreadsHas, ThreadsAssumption
<1> QED BY <1>1, <1>2, <1>3 DEF Claimed

\* The traffic thread that goes first starts one for the other direction.
LEMMA ProceedPicks ==
  ASSUME Structure, NEW t \in Traffic, NEW other \in Unused, NEW then \in {"post", "leave"},
         pc[t] = "connected", mode = "client", mode' = mode, UNCHANGED <<runNow, runNext>>,
         child' = [child EXCEPT ![t] = other], after' = [after EXCEPT ![t] = then],
         pc' = [pc EXCEPT ![t] = "count"]
  PROVE  Picks(t, other) /\ Structure'
<1>1. t \in Threads /\ t \notin {"main", "reporter", "listener"} BY ThreadsHas, ThreadsAssumption
<1>2. /\ other \in Threads \ {"main", "reporter", "listener"} /\ Claimed(other)
      /\ \A q \in Threads : runNow[q] # other /\ runNext[q] # other /\ child[q] # other
  BY UnusedFree
<1>3. Picks(t, other)
  <2>1. pc'[t] = "count" /\ pc' \in [Threads -> Positions] /\ \A q \in Threads \ {t} : pc'[q] = pc[q]
    BY <1>1 DEF Structure, Places, Positions
  <2>2. /\ runNow' \in [Threads -> Threads \cup {None}] /\ runNext' \in [Threads -> Threads \cup {None}]
        /\ runNext'["listener"] = None /\ runNext'["reporter"] = None
    BY DEF Structure, Places, Afters
  <2> QED BY <1>1, <1>2, <2>1, <2>2 DEF Picks
<1>4. /\ Places' /\ Afters' /\ Children'
      /\ \A q \in Threads : (Open(q)' => Open(q)) /\ (Over(q) => Over(q)')
      /\ \A q \in Threads : Claimed(q) /\ q # other => Claimed(q)'
  BY <1>1, <1>3, PicksStructure
<1>5. Links'
  <2>1. \A q \in Threads : (runNow[q] # None => runNow[q] \in Threads) /\ (runNext[q] # None => runNext[q] \in Threads)
    BY DEF Structure, Places
  <2>2. ASSUME NEW q \in Threads, Open(q)', runNow[q] # None PROVE Claimed(runNow[q])'
    <3>1. Claimed(runNow[q]) BY <1>4, <2>2 DEF Structure, Links
    <3> QED BY <1>2, <1>4, <2>1, <2>2, <3>1 DEF Claimed
  <2>3. ASSUME NEW q \in Threads, ~Over(q)', runNext[q] # None PROVE Claimed(runNext[q])'
    <3>1. Claimed(runNext[q]) BY <1>4, <2>3 DEF Structure, Links
    <3> QED BY <1>2, <1>4, <2>1, <2>3, <3>1 DEF Claimed
  <2> QED BY <2>2, <2>3 DEF Structure, Links
<1> QED BY <1>3, <1>4, <1>5 DEF Structure

\* The listener links the server that it is about to start to a client.
Linked(t) ==
  \/ UNCHANGED <<runNow, runNext>>
  \/ \E other \in Unused \ {t} :
       \/ runNow' = [runNow EXCEPT ![t] = other] /\ UNCHANGED runNext
       \/ runNext' = [runNext EXCEPT ![t] = other] /\ UNCHANGED runNow

LEMMA SpawnPicks ==
  ASSUME Structure, NEW t \in Unused, Linked(t), mode' = mode, after' = after, pc["listener"] = "accepted",
         child' = [child EXCEPT !["listener"] = t], pc' = [pc EXCEPT !["listener"] = "count"]
  PROVE  Picks("listener", t) /\ Structure'
<1>1. "listener" \in Threads BY ThreadsHas
<1>2. /\ t \in Threads \ {"main", "reporter", "listener"} /\ pc[t] = "idle" /\ Claimed(t)
      /\ \A q \in Threads : runNow[q] # t /\ runNext[q] # t /\ child[q] # t
  BY UnusedFree
<1>3. /\ \A u \in Unused : /\ u \in Threads \ {"main", "reporter", "listener"} /\ Claimed(u)
                           /\ \A q \in Threads : runNow[q] # u /\ runNext[q] # u /\ child[q] # u
  BY UnusedFree
<1>4. /\ runNow' \in [Threads -> Threads \cup {None}] /\ runNext' \in [Threads -> Threads \cup {None}]
      /\ \A q \in Threads \ {t} : runNow'[q] = runNow[q] /\ runNext'[q] = runNext[q]
      /\ runNow'[t] = runNow[t] \/ (runNow'[t] \in Unused \ {t} /\ runNext'[t] = runNext[t])
      /\ runNext'[t] = runNext[t] \/ (runNext'[t] \in Unused \ {t} /\ runNow'[t] = runNow[t])
  BY <1>2, <1>3 DEF Linked, Structure, Places
<1>5. Picks("listener", t)
  <2>1. pc'["listener"] = "count" /\ pc' \in [Threads -> Positions]
        /\ \A q \in Threads \ {"listener"} : pc'[q] = pc[q]
    BY <1>1 DEF Structure, Places, Positions
  <2>2. after' = [after EXCEPT !["listener"] = "chain"]
    BY <1>1 DEF Structure, Places, Afters
  <2>3. runNext'["listener"] = None /\ runNext'["reporter"] = None
    BY <1>2, <1>4, ThreadsHas DEF Structure, Afters
  <2> QED BY <1>1, <1>2, <1>4, <2>1, <2>2, <2>3, ThreadsAssumption DEF Picks
<1>6. /\ Places' /\ Afters' /\ Children'
      /\ \A q \in Threads : (Open(q)' => Open(q)) /\ (Over(q) => Over(q)')
      /\ \A q \in Threads : Claimed(q) /\ q # t => Claimed(q)'
  BY <1>1, <1>5, PicksStructure
<1>7. Links'
  <2>1. \A q \in Threads : (runNow[q] # None => runNow[q] \in Threads) /\ (runNext[q] # None => runNext[q] \in Threads)
    BY DEF Structure, Places
  <2>2. ASSUME NEW q \in Threads, Open(q)', runNow'[q] # None PROVE Claimed(runNow[q])'
    <3>1. CASE runNow'[q] = runNow[q]
      <4>1. Claimed(runNow[q]) BY <1>6, <2>2, <3>1 DEF Structure, Links
      <4> QED BY <1>2, <1>6, <2>1, <2>2, <3>1, <4>1 DEF Claimed
    <3>2. CASE runNow'[q] \in Unused \ {t}
      <4>1. runNow'[q] \in Threads /\ Claimed(runNow'[q]) BY <1>3, <3>2 DEF Claimed
      <4> QED BY <1>6, <3>2, <4>1 DEF Claimed
    <3> QED BY <1>4, <3>1, <3>2
  <2>3. ASSUME NEW q \in Threads, ~Over(q)', runNext'[q] # None PROVE Claimed(runNext[q])'
    <3>1. CASE runNext'[q] = runNext[q]
      <4>1. Claimed(runNext[q]) BY <1>6, <2>3, <3>1 DEF Structure, Links
      <4> QED BY <1>2, <1>6, <2>1, <2>3, <3>1, <4>1 DEF Claimed
    <3>2. CASE runNext'[q] \in Unused \ {t}
      <4>1. runNext'[q] \in Threads /\ Claimed(runNext'[q]) BY <1>3, <3>2 DEF Claimed
      <4> QED BY <1>6, <3>2, <4>1 DEF Claimed
    <3> QED BY <1>4, <3>1, <3>2
  <2>4. \A p, q \in Threads : runNow'[p] = runNow'[q] /\ runNow'[p] # None => p = q
    BY <1>3, <1>4 DEF Structure, Links
  <2>5. \A p, q \in Threads : runNext'[p] = runNext'[q] /\ runNext'[p] # None => p = q
    BY <1>3, <1>4 DEF Structure, Links
  <2>6. \A p, q \in Threads : runNow'[p] = runNext'[q] => runNow'[p] = None
    BY <1>3, <1>4 DEF Structure, Links
  <2>7. \A p \in Threads : runNow'[p] # "main" /\ runNext'[p] # "main"
    BY <1>3, <1>4 DEF Structure, Links
  <2> QED BY <2>2, <2>3, <2>4, <2>5, <2>6, <2>7 DEF Links
<1> QED BY <1>5, <1>6, <1>7 DEF Structure
-----------------------------------------------------------------------------
(* The counts.                                                             *)

LEMMA CountedCalm ==
  ASSUME after' = after, \A q \in Threads : Calm(q)
  PROVE  Counted' = Counted
<1>1. \A q \in Threads :
        /\ pc'[q] \in {"idle", "failed", "stopped", "destroy", "gone", "exited"}
             <=> pc[q] \in {"idle", "failed", "stopped", "destroy", "gone", "exited"}
        /\ pc'[q] \in {"count", "failing"} <=> pc[q] \in {"count", "failing"}
  BY DEF Calm, Quiet
<1> QED BY <1>1 DEF Counted

LEMMA CountedHands ==
  ASSUME Structure, after' = after, NEW p \in Threads, NEW a, NEW b, Hands(p, a, b)
  PROVE  /\ b # "failed" => child[p] \notin Counted /\ Counted' = Counted \cup {child[p]}
         /\ b = "failed" => child[p] \in Counted /\ Counted' = Counted \ {child[p]}
<1> DEFINE c == child[p]
<1>1. /\ c \in Threads \ {"main"} /\ c # p
      /\ pc' = [q \in Threads |-> IF q = c THEN b ELSE IF q = p THEN a ELSE pc[q]]
  BY HandsPlaces
<1>2. \A q \in Threads : pc'[q] = IF q = c THEN b ELSE IF q = p THEN a ELSE pc[q] BY <1>1
<1>3. /\ pc[p] \in {"count", "failing"} /\ b \in {"begin", "counted", "failed"}
      /\ a \in {"chain", "post", "leave", "destroy", "failing"}
      /\ a # "failing" => a = after[p]
      /\ pc[p] = "count" /\ b # "failed" => pc[c] = "idle"
      /\ b = "failed" => pc[c] = "counted"
      /\ b # "failed" => pc[p] = "count"
  BY DEF Hands, Structure, Places, Children
<1> HIDE DEF c
<1>4. \A q \in Threads \ {c} : q \in Counted' <=> q \in Counted
  BY <1>2, <1>3 DEF Counted
<1>5. b # "failed" => c \notin Counted /\ c \in Counted' BY <1>1, <1>2, <1>3 DEF Counted
<1>6. b = "failed" => c \in Counted /\ c \notin Counted' BY <1>1, <1>2, <1>3 DEF Counted
<1>7. Counted \subseteq Threads /\ Counted' \subseteq Threads BY DEF Counted
<1>8. b # "failed" => Counted' = Counted \cup {c} BY <1>1, <1>4, <1>5, <1>7
<1>9. b = "failed" => Counted' = Counted \ {c} BY <1>1, <1>4, <1>6, <1>7
<1> QED BY <1>5, <1>6, <1>8, <1>9 DEF c

LEMMA CountedPicks ==
  ASSUME Structure, NEW p \in Threads \ {"main"}, NEW n, Picks(p, n)
  PROVE  /\ pc[p] # "leave" /\ after'[p] # "destroy" => Counted' = Counted
         /\ pc[p] = "leave" /\ after'[p] = "destroy" => p \in Counted /\ Counted' = Counted \ {p}
<1>1. pc[p] \in {"chain", "leave", "accepted", "connected"} /\ pc'[p] = "count" BY DEF Picks
<1>2. \A q \in Threads \ {p, "main"} : pc'[q] = pc[q] /\ after'[q] = after[q]
  BY DEF Picks, Structure, Places
<1>3. \A q \in Threads \ {p} : q \in Counted' <=> q \in Counted BY <1>2 DEF Counted
<1>4. Counted \subseteq Threads /\ Counted' \subseteq Threads BY DEF Counted
<1>5. p \in Counted BY <1>1 DEF Counted
<1>6. p \in Counted' <=> after'[p] # "destroy" BY <1>1 DEF Counted
<1> QED BY <1>3, <1>4, <1>5, <1>6

\* One more, and one less.
LEMMA CardinalsPlus ==
  ASSUME NEW c \in Threads, c \notin Counted, Counted' = Counted \cup {c}
  PROVE  /\ Cardinality(Counted') = Cardinality(Counted) + 1
         /\ Cardinality((Counted \cap Traffic)') = Cardinality(Counted \cap Traffic) + Traffics(c)
<1>1. Cardinality(Counted \cup {c}) = Cardinality(Counted) + 1 BY CountedFinite, FS_AddElement
<1>2. CASE c \in Traffic
  <2>1. (Counted \cap Traffic)' = (Counted \cap Traffic) \cup {c} BY <1>2
  <2>2. Cardinality((Counted \cap Traffic) \cup {c}) = Cardinality(Counted \cap Traffic) + 1
    BY CountedFinite, FS_AddElement
  <2> QED BY <1>1, <1>2, <2>1, <2>2 DEF Traffics
<1>3. CASE c \notin Traffic
  <2>1. (Counted \cap Traffic)' = Counted \cap Traffic BY <1>3
  <2> QED BY <1>1, <1>3, <2>1, CountedFinite DEF Traffics
<1> QED BY <1>2, <1>3

LEMMA CardinalsMinus ==
  ASSUME NEW c \in Threads, c \in Counted, Counted' = Counted \ {c}
  PROVE  /\ Cardinality(Counted') = Cardinality(Counted) - 1
         /\ Cardinality((Counted \cap Traffic)') = Cardinality(Counted \cap Traffic) - Traffics(c)
<1>1. Cardinality(Counted \ {c}) = Cardinality(Counted) - 1 BY CountedFinite, FS_RemoveElement
<1>2. CASE c \in Traffic
  <2>1. (Counted \cap Traffic)' = (Counted \cap Traffic) \ {c} BY <1>2
  <2>2. Cardinality((Counted \cap Traffic) \ {c}) = Cardinality(Counted \cap Traffic) - 1
    BY <1>2, CountedFinite, FS_RemoveElement
  <2> QED BY <1>1, <1>2, <2>1, <2>2 DEF Traffics
<1>3. CASE c \notin Traffic
  <2>1. (Counted \cap Traffic)' = Counted \cap Traffic BY <1>3
  <2> QED BY <1>1, <1>3, <2>1, CountedFinite DEF Traffics
<1> QED BY <1>2, <1>3

LEMMA ExactPlus ==
  ASSUME Exact, NEW c \in Threads, c \notin Counted, Counted' = Counted \cup {c},
         sNum' = sNum + 1, trfc' = trfc + Traffics(c), UNCHANGED <<nonterm, signals>>, Listed' <=> Listed
  PROVE  Exact'
<1>1. /\ Cardinality(Counted') = Cardinality(Counted) + 1
      /\ Cardinality((Counted \cap Traffic)') = Cardinality(Counted \cap Traffic) + Traffics(c)
  BY CardinalsPlus
<1>2. trfc' = Cardinality((Counted \cap Traffic)') BY <1>1 DEF Exact
<1>3. Uncounted' <=> Uncounted BY DEF Uncounted
<1>4. sNum' = Cardinality(Counted') - (IF Uncounted' THEN 1 ELSE 0)
  <2>1. sNum = Cardinality(Counted) - (IF Uncounted THEN 1 ELSE 0) BY DEF Exact
  <2> QED BY <1>1, <1>3, <2>1, CountedFinite
<1> QED BY <1>2, <1>3, <1>4 DEF Exact

LEMMA ExactMinus ==
  ASSUME Exact, NEW c \in Threads, c \in Counted, Counted' = Counted \ {c},
         sNum' = sNum - 1, trfc' = trfc - Traffics(c), UNCHANGED <<nonterm, signals>>, Listed' <=> Listed
  PROVE  Exact'
<1>1. /\ Cardinality(Counted') = Cardinality(Counted) - 1
      /\ Cardinality((Counted \cap Traffic)') = Cardinality(Counted \cap Traffic) - Traffics(c)
  BY CardinalsMinus
<1>2. trfc' = Cardinality((Counted \cap Traffic)') BY <1>1 DEF Exact
<1>3. Uncounted' <=> Uncounted BY DEF Uncounted
<1>4. sNum' = Cardinality(Counted') - (IF Uncounted' THEN 1 ELSE 0)
  <2>1. sNum = Cardinality(Counted) - (IF Uncounted THEN 1 ELSE 0) BY DEF Exact
  <2> QED BY <1>1, <1>3, <2>1, CountedFinite
<1> QED BY <1>2, <1>3, <1>4 DEF Exact

LEMMA ExactSame ==
  ASSUME Exact, Counted' = Counted, UNCHANGED <<sNum, trfc, nonterm, signals>>, Listed' <=> Listed
  PROVE  Exact'
<1>1. Uncounted' <=> Uncounted BY DEF Uncounted
<1>2. (Counted \cap Traffic)' = Counted \cap Traffic OBVIOUS
<1> QED BY <1>1, <1>2 DEF Exact

\* Whom a step leaves where they are.
LEMMA ElsewhereTraffic ==
  ASSUME Places, NEW t \in Traffic, TrafficWorks(t)
  PROVE  /\ \A q \in {"main", "reporter", "listener"} : pc'[q] = pc[q]
         /\ UNCHANGED <<config, starts, counts, begun, ready, interrupted, mCount, bounds>>
<1>1. UNCHANGED <<config, starts, counts, begun, ready, interrupted, mCount, bounds>>
  BY DEF TrafficWorks, Connect, BarrierTimeout, Receive, PostData, EndJob, EndJobDone, Destroy, Proceed,
         flags, starts
<1>2. \/ \E b : pc' = [pc EXCEPT ![t] = b]
      \/ pc' = [p \in Threads |-> IF p = t \/ pc[p] = "barrier" THEN "connected" ELSE pc[p]]
  BY DEF TrafficWorks, Connect, Arrive, BarrierTimeout, Receive, PostData, EndJob, EndJobDone, Destroy
<1>3. t \notin {"main", "reporter", "listener"} BY ThreadsAssumption
<1>4. \A q \in {"main", "reporter", "listener"} : pc[q] # "barrier" /\ q \in Threads
  BY ThreadsHas DEF Places, MainPlaces, ReporterPlaces, ListenerPlaces
<1>5. \A q \in {"main", "reporter", "listener"} : pc'[q] = pc[q] BY <1>2, <1>3, <1>4 DEF Places
<1> QED BY <1>1, <1>5

LEMMA Elsewhere ==
  ASSUME Places
  PROVE  /\ ListenerWorks =>
              /\ \A q \in Threads \ {"listener"} : pc'[q] = pc[q]
              /\ UNCHANGED <<config, starts, trfc, begun, ready, interrupted, connects, bounds>>
         /\ ReporterWorks =>
              /\ \A q \in Threads \ {"reporter"} : pc'[q] = pc[q]
              /\ UNCHANGED <<config, starts, counts, begun, mCount, connects, bounds>>
         /\ (StartRelease \/ JoinAll \/ Interrupt \/ Alarm) /\ ~Exited' =>
              /\ \A q \in Threads \ {"main"} : pc'[q] = pc[q]
              /\ UNCHANGED <<config, starts, trfc, ready, mCount, connects, jobs>>
<1>2. ASSUME ListenerWorks
      PROVE  /\ \A q \in Threads \ {"listener"} : pc'[q] = pc[q]
             /\ UNCHANGED <<config, starts, trfc, begun, ready, interrupted, connects, bounds>>
  <2>1. UNCHANGED <<config, starts, trfc, begun, ready, interrupted, connects, bounds>>
    BY <1>2 DEF ListenerWorks, Register, Listen, Serve, Reject, Unregister, AcceptNothing, Accept, Destroy,
                flags, counts
  <2>2. \E b : pc' = [pc EXCEPT !["listener"] = b]
    BY <1>2 DEF ListenerWorks, Register, Listen, Serve, Reject, Unregister, AcceptNothing, Accept, Destroy
  <2>3. \A q \in Threads \ {"listener"} : pc'[q] = pc[q] BY <2>2 DEF Places
  <2> QED BY <2>1, <2>3
<1>3. ASSUME ReporterWorks
      PROVE  /\ \A q \in Threads \ {"reporter"} : pc'[q] = pc[q]
             /\ UNCHANGED <<config, starts, counts, begun, mCount, connects, bounds>>
  <2>1. UNCHANGED <<config, starts, counts, begun, mCount, connects, bounds>>
    BY <1>3 DEF ReporterWorks, ReporterReady, SetRoot, Nap, Users, Process, Destroy, flags
  <2>2. pc' = pc \/ \E b : pc' = [pc EXCEPT !["reporter"] = b]
    BY <1>3 DEF ReporterWorks, ReporterReady, SetRoot, Nap, Users, Process, Destroy, TakePending
  <2>3. \A q \in Threads \ {"reporter"} : pc'[q] = pc[q] BY <2>2 DEF Places
  <2> QED BY <2>1, <2>3
<1>4. ASSUME StartRelease \/ JoinAll \/ Interrupt \/ Alarm, ~Exited'
      PROVE  /\ \A q \in Threads \ {"main"} : pc'[q] = pc[q]
             /\ UNCHANGED <<config, starts, trfc, ready, mCount, connects, jobs>>
  <2>1. UNCHANGED <<config, starts, trfc, ready, mCount, connects, jobs>>
    BY <1>4 DEF StartRelease, JoinAll, Interrupt, Alarm, flags, counts
  <2>2. pc' = pc \/ \E b : pc' = [pc EXCEPT !["main"] = b]
    BY <1>4 DEF StartRelease, JoinAll, Interrupt, Alarm, Exited, Signalled
  <2>3. \A q \in Threads \ {"main"} : pc'[q] = pc[q] BY <2>2 DEF Places
  <2> QED BY <2>1, <2>3
<1> QED BY <1>2, <1>3, <1>4

LEMMA ListedSame ==
  ASSUME pc'["listener"] = pc["listener"]
  PROVE  Listed' <=> Listed
  BY DEF Listed, Registered

LEMMA ExactStarts ==
  ASSUME Structure, Exact, NEW p \in Threads, Start(p) \/ StartFails(p) \/ StartUndone(p)
  PROVE  Exact'
<1>1. PICK a, b : Hands(p, a, b) BY HandsOver
<1>2. after' = after BY HandsOver DEF starts
<1> DEFINE c == child[p]
<1>3. /\ c \in Threads \ {"main"} /\ c # p
      /\ pc' = [q \in Threads |-> IF q = c THEN b ELSE IF q = p THEN a ELSE pc[q]]
  BY <1>1, HandsPlaces
<1>4. UNCHANGED <<nonterm, signals>>
  BY DEF Start, StartFails, StartUndone, bounds
<1>5. Listed' <=> Listed
  <2>1. pc'["listener"] = IF c = "listener" THEN b ELSE IF p = "listener" THEN a ELSE pc["listener"]
    BY <1>3, ThreadsHas
  <2>2. c = "listener" => pc["listener"] \in {"idle", "counted"} /\ b \in {"begin", "counted", "failed"}
    BY <1>1 DEF Hands, Structure, Children
  <2>3. p = "listener" => pc["listener"] \in {"count", "failing"} /\ a \in {"chain", "failing"}
    BY <1>1 DEF Hands, Structure, Afters
  <2> QED BY <2>1, <2>2, <2>3 DEF Listed, Registered
<1> HIDE DEF c
<1>6. CASE Start(p) \/ StartFails(p)
  <2>1. sNum' = sNum + 1 /\ trfc' = trfc + Traffics(c) BY <1>6 DEF Start, StartFails, c
  <2>2. b # "failed"
    <3>1. pc[p] = "count" BY <1>6 DEF Start, StartFails
    <3> QED BY <1>1, <3>1 DEF Hands
  <2>3. c \notin Counted /\ Counted' = Counted \cup {c} BY <1>1, <1>2, <2>2, CountedHands DEF c
  <2> QED BY <1>3, <1>4, <1>5, <2>1, <2>3, ExactPlus
<1>7. CASE StartUndone(p)
  <2>1. sNum' = sNum - 1 /\ trfc' = trfc - Traffics(c) BY <1>7 DEF StartUndone, c
  <2>2. b = "failed"
    <3>1. pc[p] = "failing" BY <1>7 DEF StartUndone
    <3> QED BY <1>1, <3>1 DEF Hands
  <2>3. c \in Counted /\ Counted' = Counted \ {c} BY <1>1, <1>2, <2>2, CountedHands DEF c
  <2> QED BY <1>3, <1>4, <1>5, <2>1, <2>3, ExactMinus
<1> QED BY <1>6, <1>7

LEMMA ExactChain ==
  ASSUME Structure, Exact, NEW p \in {"main", "listener"}, StartChain(p)
  PROVE  Exact' /\ Counted' = Counted
<1>1. p \in Threads /\ pc[p] = "chain" /\ after[p] = "chain"
  BY ThreadsHas DEF StartChain, Structure, Afters
<1>2. after' = after /\ UNCHANGED <<sNum, trfc, nonterm, signals>> BY DEF StartChain, counts, bounds
<1>3. PICK b \in {"release", "serve", "count"} :
         pc' = [pc EXCEPT ![p] = b] /\ (p = "main" => b # "serve") /\ (p # "main" => b # "release")
  BY DEF StartChain
<1>4. \A q \in Threads : pc'[q] = IF q = p THEN b ELSE pc[q] BY <1>3 DEF Structure, Places
<1>5. Counted' = Counted
  <2>1. \A q \in Threads \ {"main"} : q \in Counted' <=> q \in Counted BY <1>1, <1>2, <1>3, <1>4 DEF Counted
  <2>2. Counted \subseteq Threads \ {"main"} /\ Counted' \subseteq Threads \ {"main"} BY DEF Counted
  <2> QED BY <2>1, <2>2
<1>6. Listed' <=> Listed
  <2>1. p = "listener" => b \in {"serve", "count"} BY <1>3
  <2> QED BY <1>1, <1>4, <2>1, ThreadsHas DEF Listed, Registered
<1> QED BY <1>2, <1>5, <1>6, ExactSame

LEMMA ExactLeave ==
  ASSUME Structure, Exact, NEW p \in Threads \ {"main"}, Leave(p)
  PROVE  Exact' /\ Counted' = Counted \ {p}
<1>1. /\ pc[p] = "leave" /\ UNCHANGED <<nonterm, signals>>
      /\ sNum' = sNum - 1 /\ trfc' = trfc - Traffics(p)
  BY DEF Leave, bounds
<1>2. /\ pc' = [Signalled(pc) EXCEPT ![p] = IF runNext[p] = None THEN "destroy" ELSE "count"]
      /\ after' = [after EXCEPT ![p] = "destroy"]
  BY DEF Leave
<1>3. /\ \A q \in Threads \ {p, "main"} : pc'[q] = pc[q] /\ after'[q] = after[q]
      /\ pc'[p] \in {"destroy", "count"} /\ after'[p] = "destroy"
      /\ runNext[p] = None => pc'[p] = "destroy"
  BY <1>2 DEF Signalled, Structure, Places
<1>4. p \in Counted /\ Counted' = Counted \ {p}
  <2>1. p \in Counted BY <1>1 DEF Counted
  <2>2. p \notin Counted' BY <1>3 DEF Counted
  <2>3. \A q \in Threads \ {p, "main"} : q \in Counted' <=> q \in Counted BY <1>3 DEF Counted
  <2>4. Counted \subseteq Threads \ {"main"} /\ Counted' \subseteq Threads \ {"main"} BY DEF Counted
  <2> QED BY <2>1, <2>2, <2>3, <2>4
<1>5. Listed' <=> Listed
  <2>1. p = "listener" => pc'["listener"] = "destroy" BY <1>3 DEF Structure, Afters
  <2>2. p # "listener" => pc'["listener"] = pc["listener"] BY <1>3, ThreadsHas
  <2> QED BY <1>1, <2>1, <2>2 DEF Listed, Registered
<1> QED BY <1>1, <1>4, <1>5, ExactMinus

LEMMA ExactStop ==
  ASSUME Structure, Exact, NEW p \in Threads, Stop(p)
  PROVE  /\ Exact' /\ Counted' = Counted \ {p} /\ KindKept /\ UNCHANGED <<config, starts>>
         /\ p \in Traffic \cup {"listener"} /\ pc'[p] = "stopped"
         /\ \A q \in Threads \ {p, "main"} : pc'[q] = pc[q]
         /\ \A q \in Threads : Calm(q) \/ Stops(q)
<1>1. /\ (p \in Traffic /\ pc[p] \in {"begin", "connected", "traffic"}) \/ (p = "listener" /\ pc[p] = "listen")
      /\ UNCHANGED <<config, starts, nonterm, signals>> /\ sNum' = sNum - 1 /\ trfc' = trfc - Traffics(p)
      /\ pc' = [Signalled(pc) EXCEPT ![p] = "stopped"]
  <2>1. pc[p] = "listen" => p = "listener"
    BY DEF Structure, Places, MainPlaces, ReporterPlaces, TrafficPlaces, Working, Threads
  <2> QED BY <2>1 DEF Stop
<1>2. p # "main" /\ p # "reporter" BY <1>1, ThreadsAssumption
<1>3. /\ pc'[p] = "stopped" /\ pc' \in [Threads -> Positions]
      /\ \A q \in Threads \ {p, "main"} : pc'[q] = pc[q]
      /\ pc'["main"] = IF pc["main"] = "joinwait" THEN "join" ELSE pc["main"]
  BY <1>1, <1>2, ThreadsHas DEF Structure, Places, Signalled, Positions
<1>4. \A q \in Threads : Calm(q) \/ Stops(q)
  <2>1. \A q \in Threads \ {p, "main"} : Calm(q) BY <1>3 DEF Calm
  <2>2. Calm("main") BY <1>3 DEF Calm, Quiet
  <2>3. Stops(p) BY <1>1, <1>3 DEF Stops, Quiet
  <2> QED BY <2>1, <2>2, <2>3
<1>5. KindKept
  <2>1. pc'["main"] \in MainPlaces BY <1>3 DEF Structure, Places, MainPlaces
  <2>2. pc'["reporter"] \in ReporterPlaces BY <1>2, <1>3, ThreadsHas DEF Structure, Places
  <2>3. pc'["listener"] \in ListenerPlaces BY <1>3, ThreadsHas DEF Structure, Places, ListenerPlaces
  <2>4. \A t \in Traffic : pc'[t] \in TrafficPlaces
    BY <1>3, ThreadsHas, ThreadsAssumption DEF Structure, Places, TrafficPlaces
  <2> QED BY <1>3, <2>1, <2>2, <2>3, <2>4 DEF KindKept
<1>6. p \in Counted /\ Counted' = Counted \ {p}
  <2>1. p \in Counted BY <1>1, <1>2 DEF Counted
  <2>2. p \notin Counted' BY <1>3 DEF Counted
  <2>3. \A q \in Threads \ {p, "main"} : q \in Counted' <=> q \in Counted BY <1>1, <1>3 DEF Counted, starts
  <2>4. Counted \subseteq Threads \ {"main"} /\ Counted' \subseteq Threads \ {"main"} BY DEF Counted
  <2> QED BY <2>1, <2>2, <2>3, <2>4
<1>7. Listed' <=> Listed
  <2>1. p = "listener" => pc["listener"] = "listen" /\ pc'["listener"] = "stopped"
    BY <1>1, <1>3, ThreadsAssumption
  <2>2. p # "listener" => pc'["listener"] = pc["listener"] BY <1>3, ThreadsHas
  <2> QED BY <2>1, <2>2 DEF Listed, Registered
<1>8. Exact' BY <1>1, <1>6, <1>7, ExactMinus
<1> QED BY <1>1, <1>3, <1>4, <1>5, <1>6, <1>8

LEMMA SpawnStep ==
  ASSUME Structure, Spawn
  PROVE  \E t \in Unused : /\ Linked(t) /\ child' = [child EXCEPT !["listener"] = t] /\ after' = after
                           /\ pc' = [pc EXCEPT !["listener"] = "count"]
                           /\ Picks("listener", t) /\ Structure'
<1>1. PICK t \in OneOf(Unused) :
        /\ child' = [child EXCEPT !["listener"] = t]
        /\ \/ UNCHANGED <<runNow, runNext>>
           \/ \E other \in OneOf(Unused \ {t}) :
                \/ /\ runNow' = [runNow EXCEPT ![t] = other]
                   /\ UNCHANGED runNext
                \/ /\ runNext' = [runNext EXCEPT ![t] = other]
                   /\ UNCHANGED runNow
  BY DEF Spawn
<1>2. t \in Unused /\ Linked(t) BY <1>1 DEF OneOf, Linked
<1>3. /\ pc' = [pc EXCEPT !["listener"] = "count"] /\ after' = after /\ mode' = mode
      /\ pc["listener"] = "accepted"
  BY DEF Spawn, config
<1>4. Picks("listener", t) /\ Structure' BY <1>1, <1>2, <1>3, SpawnPicks
<1> QED BY <1>1, <1>2, <1>3, <1>4

LEMMA ProceedStep ==
  ASSUME Structure, NEW t \in Traffic, Proceed(t)
  PROVE  \/ TrafficWorks(t)
         \/ /\ \E other \in Unused : Picks(t, other) /\ child' = [child EXCEPT ![t] = other]
            /\ pc' = [pc EXCEPT ![t] = "count"] /\ \A q \in Threads \ {t} : after'[q] = after[q]
            /\ after'[t] \in {"post", "leave"} /\ mode = "client"
            /\ UNCHANGED <<config, runNow, runNext, counts, flags, jobs, bounds>> /\ Structure'
<1>1. CASE UNCHANGED starts /\ \E then \in {"post", "leave"} : pc' = [pc EXCEPT ![t] = then]
  BY <1>1 DEF TrafficWorks
<1>2. CASE StartReversed(t)
  <2>1. PICK other \in OneOf(Unused), then \in {"post", "leave"} :
             /\ mode = "client"
             /\ child' = [child EXCEPT ![t] = other]
             /\ after' = [after EXCEPT ![t] = then]
             /\ pc' = [pc EXCEPT ![t] = "count"]
             /\ UNCHANGED <<runNow, runNext>>
    BY <1>2 DEF StartReversed
  <2>2. other \in Unused BY DEF OneOf
  <2>3. pc[t] = "connected" /\ mode' = mode /\ UNCHANGED <<config, counts, flags, jobs, bounds>>
    BY DEF Proceed, config
  <2>4. Picks(t, other) /\ Structure' BY <2>1, <2>2, <2>3, ProceedPicks
  <2>5. after'[t] \in {"post", "leave"} /\ \A q \in Threads \ {t} : after'[q] = after[q]
    BY <2>1, ThreadsHas DEF Structure, Places
  <2> QED BY <2>1, <2>2, <2>3, <2>4, <2>5
<1> QED BY <1>1, <1>2 DEF Proceed

LEMMA ExactSpawn ==
  ASSUME Structure, Exact, Spawn
  PROVE  Exact' /\ Counted' = Counted
<1>1. PICK t \in Unused : /\ Picks("listener", t) /\ after' = after
                          /\ pc' = [pc EXCEPT !["listener"] = "count"]
  BY SpawnStep
<1>2. pc["listener"] = "accepted" /\ UNCHANGED <<sNum, trfc, nonterm, signals>> BY DEF Spawn, counts, bounds
<1>3. pc'["listener"] = "count" BY <1>1, ThreadsHas DEF Structure, Places
<1>4. after'["listener"] = "chain" BY <1>1, <1>2 DEF Structure, Afters
<1>5. "listener" \in Threads \ {"main"} BY ThreadsHas
<1>6. Counted' = Counted BY <1>1, <1>2, <1>4, <1>5, CountedPicks
<1>7. Listed' <=> Listed BY <1>2, <1>3 DEF Listed, Registered
<1> QED BY <1>2, <1>6, <1>7, ExactSame

LEMMA ExactCalm ==
  ASSUME Structure, Exact,
         \/ \E t \in Traffic : TrafficWorks(t)
         \/ ListenerWorks \/ ReporterWorks
         \/ (StartRelease \/ JoinAll \/ Interrupt \/ Alarm) /\ ~Exited'
  PROVE  Structure' /\ Exact' /\ Counted' = Counted /\ UNCHANGED starts
<1>1. Places BY DEF Structure
<1>2. KindKept /\ (\A q \in Threads : Calm(q)) /\ UNCHANGED <<config, starts>>
  <2>1. ASSUME NEW t \in Traffic, TrafficWorks(t) PROVE KindKept /\ (\A q \in Threads : Calm(q)) /\ UNCHANGED <<config, starts>>
    BY <1>1, <2>1, TrafficCalm, ElsewhereTraffic
  <2>2. CASE ListenerWorks BY <1>1, <2>2, ListenerCalm, Elsewhere
  <2>3. CASE ReporterWorks BY <1>1, <2>3, ReporterCalm, Elsewhere
  <2>4. CASE (StartRelease \/ JoinAll \/ Interrupt \/ Alarm) /\ ~Exited' BY <1>1, <2>4, MainCalm, Elsewhere
  <2> QED BY <2>1, <2>2, <2>3, <2>4
<1>3. Structure' BY <1>2, CalmStructure
<1>4. after' = after BY <1>2 DEF starts
<1>5. Counted' = Counted BY <1>2, <1>4, CountedCalm
<1> SUFFICES Exact' BY <1>2, <1>3, <1>5
<1>6. CASE UNCHANGED <<counts, signals>> /\ pc'["listener"] = pc["listener"]
  BY <1>5, <1>6, ListedSame, ExactSame DEF counts
<1>7. ASSUME NEW t \in Traffic, TrafficWorks(t) PROVE Exact'
  BY <1>1, <1>6, <1>7, ElsewhereTraffic DEF bounds
<1>8. CASE ReporterWorks
  <2>1. UNCHANGED <<counts, signals>> BY <1>1, <1>8, Elsewhere DEF bounds
  <2>2. pc'["listener"] = pc["listener"] BY <1>1, <1>8, Elsewhere, ThreadsHas
  <2> QED BY <1>6, <2>1, <2>2
<1>9. CASE ListenerWorks
  <2>1. signals' = signals /\ trfc' = trfc BY <1>1, <1>9, Elsewhere DEF bounds
  <2>2. (Counted \cap Traffic)' = Counted \cap Traffic BY <1>5
  <2>3. CASE Register
    <3>1. pc["listener"] = "begin" /\ pc'["listener"] = "listen" /\ nonterm' = nonterm + 1 /\ sNum' = sNum
      BY <2>3, <1>1, ThreadsHas DEF Register, Places
    <3>2. ~Listed /\ Listed' BY <3>1 DEF Listed, Registered
    <3>3. nonterm = 0 /\ nonterm' = 1 BY <3>1, <3>2 DEF Exact
    <3>4. ~Uncounted /\ ~Uncounted' BY <3>2, <3>3 DEF Uncounted
    <3> QED BY <1>5, <2>1, <2>2, <3>1, <3>2, <3>3, <3>4 DEF Exact
  <2>4. CASE Unregister
    <3>1. /\ pc["listener"] = "unregister" /\ pc'["listener"] = "leave"
          /\ nonterm = 0 => nonterm' = nonterm /\ sNum' = sNum + 1
          /\ nonterm # 0 => nonterm' = nonterm - 1 /\ sNum' = sNum
      BY <2>4, <1>1, ThreadsHas DEF Unregister, Places
    <3>2. Listed /\ ~Listed' BY <3>1 DEF Listed, Registered
    <3>3. nonterm' = 0 BY <3>1 DEF Exact
    <3>4. ~Uncounted' /\ (Uncounted <=> nonterm = 0) BY <3>2 DEF Uncounted
    <3>5. sNum' = Cardinality(Counted) BY <3>1, <3>4, CountedFinite DEF Exact
    <3> QED BY <1>5, <2>1, <2>2, <3>2, <3>3, <3>4, <3>5, CountedFinite DEF Exact
  <2>5. CASE Listen \/ Serve \/ Reject \/ AcceptNothing \/ Accept \/ Destroy("listener")
    <3>1. UNCHANGED counts BY <2>5 DEF Listen, Serve, Reject, AcceptNothing, Accept, Destroy
    <3>2. \/ /\ pc["listener"] \in {"listen", "serve", "accepted", "accept"}
             /\ pc'["listener"] \in {"serve", "unregister", "accept", "accepted"}
          \/ pc["listener"] = "destroy" /\ pc'["listener"] = "gone"
      <4>1. CASE Listen \/ Reject BY <4>1, <1>1, ThreadsHas DEF Listen, Reject, Places
      <4>2. CASE Serve BY <4>2, <1>1, ThreadsHas DEF Serve, Places
      <4>3. CASE AcceptNothing BY <4>3, <1>1, ThreadsHas DEF AcceptNothing, Places
      <4>4. CASE Accept BY <4>4, <1>1, ThreadsHas DEF Accept, Places
      <4>5. CASE Destroy("listener") BY <4>5, <1>1, ThreadsHas DEF Destroy, Places
      <4> QED BY <2>5, <4>1, <4>2, <4>3, <4>4, <4>5
    <3>3. Listed' <=> Listed BY <3>2 DEF Listed, Registered
    <3> QED BY <1>5, <2>1, <3>1, <3>3, ExactSame DEF counts
  <2> QED BY <1>9, <2>3, <2>4, <2>5 DEF ListenerWorks
<1>10. CASE (StartRelease \/ JoinAll \/ Alarm) /\ ~Exited'
  <2>1. UNCHANGED <<counts, signals>> BY <1>10 DEF StartRelease, JoinAll, Alarm, bounds
  <2>2. pc'["listener"] = pc["listener"] BY <1>1, <1>10, Elsewhere, ThreadsHas
  <2> QED BY <1>6, <2>1, <2>2
<1>11. CASE Interrupt /\ ~Exited'
  <2>1. /\ sNum' = sNum - nonterm /\ nonterm' = 0 /\ trfc' = trfc /\ signals' = signals + 1
    BY <1>11 DEF Interrupt
  <2>2. Listed' <=> Listed
    <3>1. pc'["listener"] = pc["listener"] BY <1>1, <1>11, Elsewhere, ThreadsHas
    <3> QED BY <3>1, ListedSame
  <2>3. (Counted \cap Traffic)' = Counted \cap Traffic BY <1>5
  <2>4. Uncounted' <=> Listed BY <2>1, <2>2 DEF Uncounted
  <2>5. sNum' = Cardinality(Counted) - (IF Listed THEN 1 ELSE 0)
    <3>1. nonterm = 1 => Listed /\ ~Uncounted BY DEF Exact, Uncounted
    <3>2. nonterm # 1 => nonterm = 0 /\ (Uncounted <=> Listed) BY DEF Exact, Uncounted
    <3>3. sNum = Cardinality(Counted) - (IF Uncounted THEN 1 ELSE 0) BY DEF Exact
    <3> QED BY <2>1, <3>1, <3>2, <3>3, CountedFinite
  <2>6. signals' \in Nat /\ signals' # 0 BY <2>1 DEF Exact
  <2> QED BY <1>5, <2>1, <2>3, <2>4, <2>5, <2>6 DEF Exact
<1> QED BY <1>7, <1>8, <1>9, <1>10, <1>11
-----------------------------------------------------------------------------
(* Before the start.                                                       *)

\* A step that starts nobody and keeps the flags in their order.
LEMMA BootCalm ==
  ASSUME Structure, Boot, UNCHANGED <<config, starts>>, \A q \in Threads : Calm(q) \/ Stops(q),
         {begun, ready, interrupted}' \subseteq BOOLEAN, ready' => begun', ready => ready',
         pc'["main"] \in {"count", "failing", "chain", "release"} <=> ~begun',
         pc'["reporter"] \in {"root", "nap", "users", "work", "leave", "destroy", "gone"} => ready',
         mode = "client" => \A t \in ToSet(parallel) : pc'[t] = pc[t] \/ pc'[t] = "stopped" \/ ready
  PROVE  Boot'
<1>1. UNCHANGED <<mode, parallel, child, runNow, runNext>> BY DEF config, starts
<1>2. \A q \in Threads : (Starter(q)' <=> Starter(q)) /\ (pc[q] = "idle" => pc'[q] = "idle")
  BY DEF Calm, Stops, Starter, Quiet
<1>3. \A q \in Threads \ {"main"} : Starter(q)' => child'[q] \in Traffic BY <1>1, <1>2 DEF Boot
<1>4. ASSUME mode = "client"
      PROVE  /\ pc'["listener"] = "idle"
             /\ \A t \in ToSet(parallel) : pc'[t] \in {"idle", "counted", "failed", "begin", "stopped"} \/ ready'
             /\ Starter("main")' => child'["main"] \in {"reporter"} \cup ToSet(parallel)
  BY <1>1, <1>2, <1>4, ThreadsHas DEF Boot
<1>5. mode = "server" => (Starter("main")' => child'["main"] \in {"reporter", "listener"})
  BY <1>1, <1>2, ThreadsHas DEF Boot
<1> QED BY <1>1, <1>3, <1>4, <1>5 DEF Boot

\* A step that starts a thread, or picks the one that is started next.
LEMMA BootMoves ==
  ASSUME Boot, UNCHANGED <<mode, parallel, begun, ready, interrupted>>,
         pc'["main"] \in {"count", "failing", "chain", "release"}
           <=> pc["main"] \in {"count", "failing", "chain", "release"},
         pc'["reporter"] \in {"idle", "counted", "failed", "begin", pc["reporter"]} \/ ready,
         runNow'["listener"] = None, \A p \in Traffic : runNow'[p] \in Traffic \cup {None},
         \A p \in Threads : runNext'[p] \in Traffic \cup {None},
         \A p \in Threads \ {"main"} : Starter(p)' => child'[p] \in Traffic,
         mode = "client" =>
           /\ pc'["listener"] = "idle" /\ \A p \in Threads : runNow'[p] = runNow[p]
           /\ \A t \in ToSet(parallel) :
                pc'[t] \in {"idle", "counted", "failed", "begin", "stopped", pc[t]} \/ ready,
         mode = "server" => runNow'["reporter"] = runNow["reporter"],
         Starter("main")' => (Starter("main") /\ child'["main"] \in {child["main"], runNow[child["main"]]} \ {None})
  PROVE  Boot'
<1>1. ASSUME mode = "client", Starter("main")' PROVE child'["main"] \in {"reporter"} \cup ToSet(parallel)
  <2>1. child["main"] \in {"reporter"} \cup ToSet(parallel) BY <1>1 DEF Boot
  <2>2. child["main"] \in Threads BY <2>1, ThreadsHas DEF Boot
  <2>3. runNow[child["main"]] \in ToSet(parallel) \cup {None} BY <1>1, <2>2 DEF Boot
  <2> QED BY <1>1, <2>1, <2>3
<1>2. ASSUME mode = "server", Starter("main")' PROVE child'["main"] \in {"reporter", "listener"}
  <2>1. child["main"] \in {"reporter", "listener"} BY <1>2 DEF Boot
  <2>2. runNow[child["main"]] \in {"listener", None} BY <1>2, <2>1 DEF Boot
  <2> QED BY <1>2, <2>1, <2>2
<1>3. ASSUME mode = "client"
      PROVE  /\ \A p \in Threads : runNow'[p] \in ToSet(parallel) \cup {None}
             /\ \A t \in ToSet(parallel) : pc'[t] \in {"idle", "counted", "failed", "begin", "stopped"} \/ ready'
  BY <1>3 DEF Boot
<1> QED BY <1>1, <1>2, <1>3 DEF Boot

LEMMA BootStarts ==
  ASSUME Structure, Boot, NEW p \in Threads, Start(p) \/ StartFails(p) \/ StartUndone(p)
  PROVE  Boot'
<1>1. PICK a, b : Hands(p, a, b) BY HandsOver
<1>2. UNCHANGED <<config, starts>> BY HandsOver
<1>3. UNCHANGED <<mode, parallel, child, runNow, runNext, begun, ready, interrupted>>
  BY <1>2 DEF config, starts, Start, StartFails, StartUndone, flags
<1> DEFINE c == child[p]
<1>4. /\ c \in Threads \ {"main"} /\ c # p /\ p # "reporter"
      /\ pc' = [q \in Threads |-> IF q = c THEN b ELSE IF q = p THEN a ELSE pc[q]]
  BY <1>1, HandsPlaces
<1>5. /\ pc[p] \in {"count", "failing"} /\ b \in {"begin", "counted", "failed"}
      /\ a \in {"chain", "post", "leave", "destroy", "failing"} /\ (a # "failing" => a = after[p])
  BY <1>1 DEF Hands, Structure, Places
<1>6. \A q \in Threads : pc'[q] = IF q = c THEN b ELSE IF q = p THEN a ELSE pc[q] BY <1>4
<1>7. \A q \in Threads : Starter(q)' => Starter(q) BY <1>5, <1>6 DEF Starter
<1>8. pc'["main"] \in {"count", "failing", "chain", "release"}
        <=> pc["main"] \in {"count", "failing", "chain", "release"}
  <2>1. p = "main" => a \in {"chain", "failing"} BY <1>5 DEF Structure, Afters
  <2> QED BY <1>4, <1>5, <1>6, <2>1, ThreadsHas
<1>9. c \in {"reporter", "listener"} \cup Traffic /\ (mode = "client" => c # "listener")
  <2>1. CASE p = "main"
    <3>1. Starter("main") BY <1>5, <2>1 DEF Starter
    <3> QED BY <2>1, <3>1, ThreadsAssumption DEF Boot
  <2>2. CASE p # "main"
    <3>1. Starter(p) BY <1>5 DEF Starter
    <3> QED BY <2>2, <3>1, ThreadsAssumption DEF Boot
  <2> QED BY <2>1, <2>2
<1>10. pc'["reporter"] \in {"idle", "counted", "failed", "begin", pc["reporter"]}
  BY <1>4, <1>5, <1>6, ThreadsHas
<1>11. ASSUME mode = "client"
       PROVE  /\ pc'["listener"] = "idle"
              /\ \A t \in ToSet(parallel) :
                   pc'[t] \in {"idle", "counted", "failed", "begin", "stopped", pc[t]} \/ ready
  <2>1. pc["listener"] = "idle" /\ p # "listener" BY <1>5, <1>11 DEF Boot
  <2>2. p \in ToSet(parallel) => ready BY <1>5, <1>11 DEF Boot
  <2>3. ToSet(parallel) \subseteq Threads BY ThreadsHas DEF Boot
  <2> QED BY <1>5, <1>6, <1>9, <1>11, <2>1, <2>2, <2>3, ThreadsHas
<1>12. \A q \in Threads \ {"main"} : Starter(q)' => child'[q] \in Traffic BY <1>3, <1>7 DEF Boot
<1>13. Starter("main")' => (Starter("main") /\ child'["main"] \in {child["main"], runNow[child["main"]]} \ {None})
  <2>1. Starter("main") => child["main"] \in Threads BY ThreadsHas DEF Structure, Children
  <2>2. None \notin Threads BY ThreadsAssumption DEF Threads
  <2> QED BY <1>3, <1>7, <2>1, <2>2, ThreadsHas
<1> QED BY <1>3, <1>8, <1>10, <1>11, <1>12, <1>13, BootMoves DEF Boot

LEMMA BootPicks ==
  ASSUME Structure, Boot, NEW p \in Threads \ {"main", "reporter"}, NEW n \in Traffic, Picks(p, n),
         UNCHANGED <<parallel, begun, ready, interrupted>>,
         \A q \in {"reporter", "listener"} : runNow'[q] = runNow[q],
         \A q \in Traffic : runNow'[q] \in Traffic \cup {None},
         \A q \in Threads : runNext'[q] \in Traffic \cup {None},
         mode = "client" => p # "listener" /\ runNow' = runNow
  PROVE  Boot'
<1>1. /\ pc[p] \in {"chain", "leave", "accepted", "connected"} /\ pc'[p] = "count" /\ mode' = mode
      /\ \A q \in Threads \ {p} : pc'[q] = pc[q] \/ (q = "main" /\ pc[q] = "joinwait" /\ pc'[q] = "join")
  BY DEF Picks
<1>2. child' = [q \in Threads |-> IF q = p THEN n ELSE child[q]] BY DEF Picks, Structure, Places
<1>3. \A q \in Threads \ {p} : Starter(q)' <=> Starter(q) BY <1>1 DEF Starter
<1>4. pc'["main"] \in {"count", "failing", "chain", "release"}
        <=> pc["main"] \in {"count", "failing", "chain", "release"}
  BY <1>1, ThreadsHas
<1>5. pc'["reporter"] = pc["reporter"] BY <1>1, ThreadsHas
<1>6. \A q \in Threads \ {"main"} : Starter(q)' => child'[q] \in Traffic BY <1>2, <1>3 DEF Boot
<1>7. Starter("main")' => (Starter("main") /\ child'["main"] \in {child["main"], runNow[child["main"]]} \ {None})
  <2>1. Starter("main") => child["main"] \in Threads BY ThreadsHas DEF Structure, Children
  <2>2. None \notin Threads BY ThreadsAssumption DEF Threads
  <2> QED BY <1>2, <1>3, <2>1, <2>2, ThreadsHas
<1>8. ASSUME mode = "client"
      PROVE  /\ pc'["listener"] = "idle"
             /\ \A t \in ToSet(parallel) :
                  pc'[t] \in {"idle", "counted", "failed", "begin", "stopped", pc[t]} \/ ready
  <2>1. pc'["listener"] = "idle" BY <1>1, <1>8, ThreadsHas DEF Boot
  <2>2. ASSUME NEW t \in ToSet(parallel)
        PROVE  pc'[t] \in {"idle", "counted", "failed", "begin", "stopped", pc[t]} \/ ready
    <3>1. t \in Threads /\ t # "main" BY ThreadsHas, ThreadsAssumption DEF Boot
    <3>2. CASE t = p BY <1>1, <1>8, <3>2 DEF Boot
    <3> QED BY <1>1, <3>1, <3>2
  <2> QED BY <2>1, <2>2
<1> QED BY <1>1, <1>4, <1>5, <1>6, <1>7, <1>8, BootMoves DEF Boot

LEMMA BootChain ==
  ASSUME Structure, Boot, NEW p \in {"main", "listener"}, StartChain(p)
  PROVE  Boot'
<1>1. /\ p \in Threads /\ pc[p] = "chain" /\ UNCHANGED <<mode, parallel, runNow, runNext, begun, ready, interrupted>>
      /\ \E b \in {"release", "serve", "count"} :
           pc' = [pc EXCEPT ![p] = b] /\ (p = "main" => b # "serve") /\ (b = "count" <=> runNow[child[p]] # None)
      /\ runNow[child[p]] = None => child' = child
      /\ runNow[child[p]] # None => child' = [child EXCEPT ![p] = runNow[child[p]]]
  BY ThreadsHas DEF StartChain, config, flags
<1>2. /\ \A q \in Threads \ {p} : pc'[q] = pc[q] /\ child'[q] = child[q]
      /\ pc'[p] \in {"release", "serve", "count"} /\ (p = "main" => pc'[p] # "serve")
      /\ pc'[p] = "count" <=> runNow[child[p]] # None
      /\ runNow[child[p]] # None => child'[p] = runNow[child[p]]
  BY <1>1 DEF Structure, Places
<1>3. Starter(p) /\ (Starter(p)' <=> runNow[child[p]] # None) BY <1>1, <1>2 DEF Starter
<1>4. \A q \in Threads \ {p} : Starter(q)' <=> Starter(q) BY <1>2 DEF Starter
<1>5. pc'["main"] \in {"count", "failing", "chain", "release"}
        <=> pc["main"] \in {"count", "failing", "chain", "release"}
  BY <1>1, <1>2, ThreadsHas
<1>6. pc'["reporter"] = pc["reporter"] BY <1>2, ThreadsHas
<1>7. \A q \in Threads \ {"main"} : Starter(q)' => child'[q] \in Traffic
  <2>1. ASSUME p = "listener", Starter(p)' PROVE child'[p] \in Traffic
    <3>1. child[p] \in Traffic BY <1>1, <1>3, <2>1 DEF Boot
    <3> QED BY <1>2, <1>3, <2>1, <3>1 DEF Boot
  <2> QED BY <1>2, <1>4, <2>1 DEF Boot
<1>8. Starter("main")' => (Starter("main") /\ child'["main"] \in {child["main"], runNow[child["main"]]} \ {None})
  <2>1. Starter("main") => child["main"] \in Threads BY ThreadsHas DEF Structure, Children
  <2>2. None \notin Threads BY ThreadsAssumption DEF Threads
  <2> QED BY <1>2, <1>3, <1>4, <2>1, <2>2, ThreadsHas
<1>9. ASSUME mode = "client"
      PROVE  /\ pc'["listener"] = "idle"
             /\ \A t \in ToSet(parallel) :
                  pc'[t] \in {"idle", "counted", "failed", "begin", "stopped", pc[t]} \/ ready
  <2>1. p # "listener" BY <1>1, <1>9 DEF Boot
  <2>2. ToSet(parallel) \subseteq Threads \ {"main"} BY ThreadsHas, ThreadsAssumption DEF Boot
  <2> QED BY <1>2, <1>9, <2>1, <2>2, ThreadsHas DEF Boot
<1> QED BY <1>1, <1>5, <1>6, <1>7, <1>8, <1>9, BootMoves DEF Boot

LEMMA BootLeave ==
  ASSUME Structure, Boot, NEW p \in Threads \ {"main"}, Leave(p)
  PROVE  Boot'
<1>1. pc[p] = "leave" /\ UNCHANGED <<mode, parallel, runNow, runNext, begun, ready, interrupted>>
  BY DEF Leave, config, flags
<1>2. CASE runNext[p] = None
  <2>1. /\ pc' = [Signalled(pc) EXCEPT ![p] = "destroy"] /\ child' = [child EXCEPT ![p] = None]
    BY <1>2 DEF Leave
  <2>2. /\ pc'[p] = "destroy"
        /\ \A q \in Threads \ {p} : /\ pc'[q] = pc[q] \/ (q = "main" /\ pc[q] = "joinwait" /\ pc'[q] = "join")
                                    /\ child'[q] = child[q]
    BY <2>1, ThreadsHas DEF Signalled, Structure, Places
  <2>3. \A q \in Threads : Starter(q)' => Starter(q) /\ q # p BY <2>2 DEF Starter
  <2>4. pc'["main"] \in {"count", "failing", "chain", "release"}
          <=> pc["main"] \in {"count", "failing", "chain", "release"}
    BY <2>2, ThreadsHas
  <2>5. pc'["reporter"] = pc["reporter"] \/ ready BY <1>1, <2>2, ThreadsHas DEF Boot
  <2>6. \A q \in Threads \ {"main"} : Starter(q)' => child'[q] \in Traffic BY <2>2, <2>3 DEF Boot
  <2>7. Starter("main")' => (Starter("main") /\ child'["main"] \in {child["main"], runNow[child["main"]]} \ {None})
    <3>1. Starter("main") => child["main"] \in Threads BY ThreadsHas DEF Structure, Children
    <3>2. None \notin Threads BY ThreadsAssumption DEF Threads
    <3> QED BY <2>2, <2>3, <3>1, <3>2, ThreadsHas
  <2>8. ASSUME mode = "client"
        PROVE  /\ pc'["listener"] = "idle"
               /\ \A t \in ToSet(parallel) :
                    pc'[t] \in {"idle", "counted", "failed", "begin", "stopped", pc[t]} \/ ready
    <3>1. p # "listener" /\ (p \in ToSet(parallel) => ready) BY <1>1, <2>8 DEF Boot
    <3>2. ToSet(parallel) \subseteq Threads \ {"main"} BY ThreadsHas, ThreadsAssumption DEF Boot
    <3> QED BY <2>2, <2>8, <3>1, <3>2, ThreadsHas DEF Boot
  <2> QED BY <1>1, <2>4, <2>5, <2>6, <2>7, <2>8, BootMoves DEF Boot
<1>3. CASE runNext[p] # None
  <2>1. p \in Traffic BY <1>3 DEF Structure, Afters, Threads
  <2>2. Picks(p, runNext[p]) BY <1>3, <2>1, LeavePicks
  <2>3. p \in Threads \ {"main", "reporter", "listener"} BY <2>1, ThreadsHas, ThreadsAssumption
  <2>4. runNext[p] \in Traffic BY <1>3 DEF Boot
  <2> QED BY <1>1, <2>2, <2>3, <2>4, BootPicks DEF Boot
<1> QED BY <1>2, <1>3

LEMMA BootSpawn ==
  ASSUME Structure, Boot, Spawn
  PROVE  Boot'
<1>1. PICK t \in Unused : Linked(t) /\ Picks("listener", t) BY SpawnStep
<1>2. UNCHANGED <<parallel, begun, ready, interrupted>> /\ pc["listener"] = "accepted"
  BY DEF Spawn, config, flags
<1>3. mode # "client" BY <1>2 DEF Boot
<1>4. /\ t \in Traffic /\ t \notin {"reporter", "listener"}
      /\ \A u \in Unused : u \in Traffic
  BY UnusedFree
<1>5. /\ \A q \in Threads : runNow'[q] = runNow[q] \/ (q = t /\ runNow'[q] \in Traffic)
      /\ \A q \in Threads : runNext'[q] = runNext[q] \/ (q = t /\ runNext'[q] \in Traffic)
  BY <1>1, <1>4 DEF Linked, Structure, Places
<1>6. \A q \in {"reporter", "listener"} : runNow'[q] = runNow[q] BY <1>4, <1>5, ThreadsHas
<1>7. \A q \in Traffic : runNow'[q] \in Traffic \cup {None} BY <1>5, ThreadsHas DEF Boot
<1>8. \A q \in Threads : runNext'[q] \in Traffic \cup {None} BY <1>5 DEF Boot
<1>9. "listener" \in Threads \ {"main", "reporter"} BY ThreadsHas
<1> QED BY <1>1, <1>2, <1>3, <1>4, <1>6, <1>7, <1>8, <1>9, BootPicks

LEMMA BootProceed ==
  ASSUME Structure, Boot, NEW t \in Traffic, NEW other \in Unused, Picks(t, other),
         UNCHANGED <<config, runNow, runNext, flags>>
  PROVE  Boot'
<1>1. t \in Threads \ {"main", "reporter", "listener"} BY ThreadsHas, ThreadsAssumption
<1>2. UNCHANGED <<parallel, begun, ready, interrupted>> BY DEF config, flags
<1>3. other \in Traffic BY UnusedFree
<1> QED BY <1>1, <1>2, <1>3, BootPicks DEF Boot

LEMMA BootStop ==
  ASSUME Structure, Exact, Boot, NEW p \in Threads, Stop(p)
  PROVE  Boot'
<1>1. /\ UNCHANGED <<config, starts>> /\ \A q \in Threads : Calm(q) \/ Stops(q)
      /\ p \in Traffic \cup {"listener"} /\ pc'[p] = "stopped"
      /\ \A q \in Threads \ {p, "main"} : pc'[q] = pc[q]
  BY ExactStop
<1>2. UNCHANGED <<begun, ready, interrupted>> BY DEF Stop, flags
<1>3. p \notin {"main", "reporter"} BY <1>1, ThreadsAssumption
<1>4. pc'["main"] \in {"count", "failing", "chain", "release"}
        <=> pc["main"] \in {"count", "failing", "chain", "release"}
  <2>1. pc' = [Signalled(pc) EXCEPT ![p] = "stopped"] BY DEF Stop
  <2> QED BY <1>3, <2>1, ThreadsHas DEF Structure, Places, Signalled
<1>5. pc'["reporter"] = pc["reporter"] BY <1>1, <1>3, ThreadsHas
<1>6. mode = "client" => \A t \in ToSet(parallel) : pc'[t] = pc[t] \/ pc'[t] = "stopped" \/ ready
  BY <1>1, ThreadsHas, ThreadsAssumption DEF Boot
<1> QED BY <1>1, <1>2, <1>4, <1>5, <1>6, BootCalm DEF Boot

LEMMA BootWorks ==
  ASSUME Structure, Exact, Boot,
         \/ \E t \in Traffic : TrafficWorks(t)
         \/ ListenerWorks \/ ReporterWorks
         \/ (StartRelease \/ JoinAll \/ Interrupt \/ Alarm) /\ ~Exited'
  PROVE  Boot'
<1>1. Places BY DEF Structure
<1>2. ASSUME NEW t \in Traffic, TrafficWorks(t) PROVE Boot'
  <2>1. \A q \in Threads : Calm(q) BY <1>1, <1>2, TrafficCalm
  <2>2. /\ \A q \in {"main", "reporter", "listener"} : pc'[q] = pc[q]
        /\ UNCHANGED <<config, starts, begun, ready, interrupted>>
    BY <1>1, <1>2, ElsewhereTraffic
  <2>3. ASSUME mode = "client", NEW u \in ToSet(parallel), ~ready PROVE pc'[u] = pc[u]
    <3>1. u \in Threads BY ThreadsHas DEF Boot
    <3>2. CASE u # t
      <4>1. ~Connect(t) BY <2>3 DEF Connect
      <4>2. \E b : pc' = [pc EXCEPT ![t] = b]
        BY <1>2, <4>1 DEF TrafficWorks, BarrierTimeout, Receive, PostData, EndJob, EndJobDone, Destroy
      <4> QED BY <3>1, <3>2, <4>2 DEF Structure, Places
    <3>3. CASE u = t
      <4>1. pc[t] \in {"idle", "counted", "failed", "begin", "stopped"} BY <2>3, <3>3 DEF Boot
      <4>2. IsClient(t) BY <2>3, <3>3 DEF IsClient
      <4> QED BY <1>2, <2>3, <4>1, <4>2 DEF TrafficWorks, Connect, BarrierTimeout, Receive, PostData, EndJob, EndJobDone,
                                           Destroy, Proceed
    <3> QED BY <3>2, <3>3
  <2> QED BY <2>1, <2>2, <2>3, BootCalm DEF Boot
<1>3. CASE ListenerWorks
  <2>1. \A q \in Threads : Calm(q) BY <1>1, <1>3, ListenerCalm
  <2>2. /\ \A q \in Threads \ {"listener"} : pc'[q] = pc[q]
        /\ UNCHANGED <<config, starts, begun, ready, interrupted>>
    BY <1>1, <1>3, Elsewhere
  <2>3. \A u \in ToSet(parallel) : pc'[u] = pc[u] BY <2>2, ThreadsHas, ThreadsAssumption DEF Boot
  <2> QED BY <2>1, <2>2, <2>3, BootCalm, ThreadsHas DEF Boot
<1>4. CASE ReporterWorks
  <2>1. \A q \in Threads : Calm(q) BY <1>1, <1>4, ReporterCalm
  <2>2. /\ \A q \in Threads \ {"reporter"} : pc'[q] = pc[q]
        /\ UNCHANGED <<config, starts, begun>>
    BY <1>1, <1>4, Elsewhere
  <2>3. \A u \in ToSet(parallel) : pc'[u] = pc[u] BY <2>2, ThreadsHas, ThreadsAssumption DEF Boot
  <2>4. {begun, ready, interrupted}' \subseteq BOOLEAN /\ (ready' => begun') /\ (ready => ready')
    <3>1. CASE ReporterReady BY <3>1 DEF ReporterReady, Boot
    <3>2. CASE SetRoot BY <3>2 DEF SetRoot, Boot
    <3>3. CASE Nap \/ Users \/ Process \/ Destroy("reporter") BY <3>3 DEF Nap, Users, Process, Destroy, flags, Boot
    <3> QED BY <1>4, <3>1, <3>2, <3>3 DEF ReporterWorks
  <2>5. ready'
    <3>1. CASE ReporterReady BY <3>1 DEF ReporterReady
    <3>2. CASE SetRoot \/ Nap \/ Users \/ Process \/ Destroy("reporter")
      <4>1. pc["reporter"] \in {"root", "nap", "users", "work", "destroy"}
        BY <3>2 DEF SetRoot, Nap, Users, Process, Destroy
      <4> QED BY <2>4, <4>1 DEF Boot
    <3> QED BY <1>4, <3>1, <3>2 DEF ReporterWorks
  <2>6. pc'["main"] = pc["main"] BY <2>2, ThreadsHas
  <2> QED BY <2>1, <2>2, <2>3, <2>4, <2>5, <2>6, BootCalm DEF Boot
<1>5. CASE (StartRelease \/ JoinAll \/ Interrupt \/ Alarm) /\ ~Exited'
  <2>1. \A q \in Threads : Calm(q) BY <1>1, <1>5, MainCalm
  <2>2. /\ \A q \in Threads \ {"main"} : pc'[q] = pc[q]
        /\ UNCHANGED <<config, starts, ready>>
    BY <1>1, <1>5, Elsewhere
  <2>3. \A u \in ToSet(parallel) : pc'[u] = pc[u] BY <2>2, ThreadsHas, ThreadsAssumption DEF Boot
  <2>4. pc'["reporter"] = pc["reporter"] BY <2>2, ThreadsHas
  <2>5. /\ {begun, ready, interrupted}' \subseteq BOOLEAN /\ (ready' => begun')
        /\ pc'["main"] \in {"count", "failing", "chain", "release"} <=> ~begun'
    <3>1. CASE StartRelease BY <3>1, <2>2, ThreadsHas DEF StartRelease, Boot, Structure, Places
    <3>2. CASE JoinAll
      <4>1. pc'["main"] = "joinwait" /\ pc["main"] = "join" /\ UNCHANGED <<begun, interrupted>>
        BY <1>5, <3>2, ThreadsHas DEF JoinAll, Exited, flags, Structure, Places
      <4> QED BY <2>2, <4>1 DEF Boot
    <3>3. CASE Interrupt
      <4>1. /\ begun' = begun /\ interrupted' = TRUE
            /\ pc'["main"] = IF pc["main"] = "joinwait" THEN "join" ELSE pc["main"]
        BY <3>3, ThreadsHas DEF Interrupt, Signalled, Structure, Places
      <4> QED BY <2>2, <4>1 DEF Boot
    <3>4. CASE Alarm BY <3>4, <2>2 DEF Alarm, Boot
    <3> QED BY <1>5, <3>1, <3>2, <3>3, <3>4
  <2> QED BY <2>1, <2>2, <2>3, <2>4, <2>5, BootCalm DEF Boot
<1> QED BY <1>2, <1>3, <1>4, <1>5
-----------------------------------------------------------------------------
(* The last to leave.                                                      *)

\* As long as nothing is started late, a thread that starts another is counted.
LEMMA StarterCounted ==
  ASSUME Structure, NoLateStart, NEW p \in Threads \ {"main"}, pc[p] = "count"
  PROVE  p \in Counted
<1>1. child[p] \in Threads BY DEF Structure, Children, Starter
<1>2. None \notin Threads BY ThreadsAssumption DEF Threads
<1>3. after[p] # "destroy" BY <1>1, <1>2 DEF Structure, Afters, NoLateStart
<1> QED BY <1>3 DEF Counted

LEMMA StillOrderly ==
  ASSUME Exact, UNCHANGED runNext, signals' = signals \/ signals' = signals + 1
  PROVE  NoLateStart' => NoLateStart
  BY DEF NoLateStart, Exact

LEMMA AloneShrinks ==
  ASSUME Alone, NoLateStart' => NoLateStart, Counted' \subseteq Counted,
         pc'["reporter"] \in {"leave", "destroy", "gone"} => pc["reporter"] \in {"leave", "destroy", "gone"}
  PROVE  Alone'
  BY DEF Alone

LEMMA AloneStarts ==
  ASSUME Structure, Exact, Boot, Alone, NEW p \in Threads, Start(p) \/ StartFails(p) \/ StartUndone(p)
  PROVE  Alone' /\ (NoLateStart' => NoLateStart)
<1>1. PICK a, b : Hands(p, a, b) BY HandsOver
<1>2. UNCHANGED <<config, starts>> BY HandsOver
<1>3. NoLateStart' => NoLateStart
  <2>1. runNext' = runNext BY <1>2 DEF starts
  <2>2. signals' = signals BY DEF Start, StartFails, StartUndone, bounds
  <2> QED BY <2>1, <2>2, StillOrderly
<1> DEFINE c == child[p]
<1>4. /\ c \in Threads \ {"main"} /\ c # p /\ p # "reporter"
      /\ pc' = [q \in Threads |-> IF q = c THEN b ELSE IF q = p THEN a ELSE pc[q]]
  BY <1>1, HandsPlaces
<1>5. b \in {"begin", "counted", "failed"} BY <1>1 DEF Hands
<1>6. pc'["reporter"] \in {"leave", "destroy", "gone"} => pc["reporter"] \in {"leave", "destroy", "gone"}
  BY <1>4, <1>5, ThreadsHas
<1>7. CASE StartUndone(p)
  <2>1. b = "failed" BY <1>1, <1>7 DEF Hands, StartUndone
  <2>2. Counted' \subseteq Counted BY <1>1, <1>2, <2>1, CountedHands DEF starts
  <2> QED BY <1>3, <1>6, <2>2, AloneShrinks
<1>8. CASE Start(p) \/ StartFails(p)
  <2>1. pc[p] = "count" BY <1>8 DEF Start, StartFails
  <2>2. ASSUME NoLateStart, pc["reporter"] \in {"leave", "destroy", "gone"} PROVE FALSE
    <3>1. p # "main" BY <2>1, <2>2 DEF Boot
    <3>2. p \in Counted BY <2>1, <2>2, <3>1, StarterCounted
    <3> QED BY <1>4, <2>2, <3>2 DEF Alone
  <2> QED BY <1>3, <1>6, <2>2 DEF Alone
<1> QED BY <1>3, <1>7, <1>8

\* The reporter leaves when the count says that it is alone.
LEMMA AloneWorks ==
  ASSUME Structure, Exact, Boot, Alone,
         \/ \E t \in Traffic : TrafficWorks(t)
         \/ ListenerWorks \/ ReporterWorks
         \/ (StartRelease \/ JoinAll \/ Interrupt \/ Alarm) /\ ~Exited'
  PROVE  Alone' /\ (NoLateStart' => NoLateStart)
<1>1. Places BY DEF Structure
<1>2. Counted' = Counted /\ runNext' = runNext BY ExactCalm DEF starts
<1>3. NoLateStart' => NoLateStart
  <2>1. signals' = signals \/ signals' = signals + 1
    <3>1. ASSUME NEW t \in Traffic, TrafficWorks(t) PROVE signals' = signals
      BY <1>1, <3>1, ElsewhereTraffic DEF bounds
    <3>2. CASE ListenerWorks \/ ReporterWorks BY <1>1, <3>2, Elsewhere DEF bounds
    <3>3. CASE StartRelease \/ JoinAll \/ Alarm BY <3>3 DEF StartRelease, JoinAll, Alarm, bounds
    <3>4. CASE Interrupt BY <3>4 DEF Interrupt
    <3> QED BY <3>1, <3>2, <3>3, <3>4
  <2> QED BY <1>2, <2>1, StillOrderly
<1>4. CASE pc'["reporter"] \in {"leave", "destroy", "gone"} => pc["reporter"] \in {"leave", "destroy", "gone"}
  BY <1>2, <1>3, <1>4, AloneShrinks
<1>5. CASE pc'["reporter"] = pc["reporter"] BY <1>4, <1>5
<1>6. ASSUME NEW t \in Traffic, TrafficWorks(t) PROVE Alone' BY <1>1, <1>3, <1>5, <1>6, ElsewhereTraffic
<1>7. CASE ListenerWorks
  <2>1. pc'["reporter"] = pc["reporter"] BY <1>1, <1>7, Elsewhere, ThreadsHas
  <2> QED BY <1>5, <2>1
<1>8. CASE (StartRelease \/ JoinAll \/ Interrupt \/ Alarm) /\ ~Exited'
  <2>1. pc'["reporter"] = pc["reporter"] BY <1>1, <1>8, Elsewhere, ThreadsHas
  <2> QED BY <1>5, <2>1
<1>9. CASE Users
  <2>1. pc["reporter"] = "users" BY <1>9 DEF Users
  <2>2. pc'["reporter"] = IF sNum > 1 THEN "root" ELSE "leave" BY <1>9, ThreadsHas DEF Users, Structure, Places
  <2>3. signals' = signals BY <1>9 DEF Users, bounds
  <2>4. CASE sNum > 1 BY <1>4, <2>2, <2>4
  <2>5. CASE ~(sNum > 1)
    <3> SUFFICES ASSUME NoLateStart PROVE Counted \subseteq {"reporter"}
      BY <1>2, <1>3 DEF Alone
    <3>1. sNum = Cardinality(Counted) BY CountedFinite DEF Exact, NoLateStart
    <3>2. Cardinality(Counted) =< 1 BY <2>5, <3>1, CountedFinite
    <3>3. "reporter" \in Counted BY <2>1, ThreadsHas DEF Counted
    <3>4. Cardinality(Counted \ {"reporter"}) = Cardinality(Counted) - 1 /\ IsFiniteSet(Counted \ {"reporter"})
      BY <3>3, CountedFinite, FS_RemoveElement
    <3>5. Cardinality(Counted \ {"reporter"}) \in Nat BY <3>4, FS_CardinalityType
    <3>6. Cardinality(Counted \ {"reporter"}) = 0 BY <3>2, <3>4, <3>5, CountedFinite
    <3>7. Counted \ {"reporter"} = {} BY <3>4, <3>6, FS_EmptySet
    <3> QED BY <3>7
  <2> QED BY <1>3, <2>4, <2>5
<1>10. CASE ReporterReady \/ SetRoot \/ Nap \/ Process \/ Destroy("reporter")
  <2>1. pc'["reporter"] \in {"leave", "destroy", "gone"} => pc["reporter"] \in {"leave", "destroy", "gone"}
    <3>1. CASE ReporterReady BY <3>1, <1>1, ThreadsHas DEF ReporterReady, Places
    <3>2. CASE SetRoot BY <3>2, <1>1, ThreadsHas DEF SetRoot, TakePending, Places
    <3>3. CASE Nap BY <3>3, <1>1, ThreadsHas DEF Nap, TakePending, Places
    <3>4. CASE Process BY <3>4, <1>1, ThreadsHas DEF Process, Places
    <3>5. CASE Destroy("reporter") BY <3>5, <1>1, ThreadsHas DEF Destroy, Places
    <3> QED BY <1>10, <3>1, <3>2, <3>3, <3>4, <3>5
  <2> QED BY <1>4, <2>1
<1> QED BY <1>3, <1>6, <1>7, <1>8, <1>9, <1>10 DEF ReporterWorks

LEMMA AloneRest ==
  ASSUME Structure, Exact, Boot, Alone,
         \/ \E p \in {"main", "listener"} : StartChain(p)
         \/ \E p \in Threads \ {"main"} : Leave(p)
         \/ \E p \in Threads : Stop(p)
         \/ Spawn
  PROVE  Alone' /\ (NoLateStart' => NoLateStart)
<1>1. ASSUME NEW p \in {"main", "listener"}, StartChain(p) PROVE Alone' /\ (NoLateStart' => NoLateStart)
  <2>1. Counted' = Counted BY <1>1, ExactChain
  <2>2. UNCHANGED <<runNext, signals>> BY <1>1 DEF StartChain, bounds
  <2>3. NoLateStart' => NoLateStart BY <2>2, StillOrderly
  <2>4. pc'["reporter"] = pc["reporter"] BY <1>1, ThreadsHas DEF StartChain, Structure, Places
  <2> QED BY <2>1, <2>3, <2>4, AloneShrinks
<1>2. ASSUME NEW p \in Threads \ {"main"}, Leave(p) PROVE Alone' /\ (NoLateStart' => NoLateStart)
  <2>1. Counted' = Counted \ {p} BY <1>2, ExactLeave
  <2>2. UNCHANGED <<runNext, signals>> /\ pc[p] = "leave" BY <1>2 DEF Leave, bounds
  <2>3. NoLateStart' => NoLateStart BY <2>2, StillOrderly
  <2>4. pc'["reporter"] = pc["reporter"] \/ p = "reporter"
    BY <1>2, ThreadsHas DEF Leave, Signalled, Structure, Places
  <2>5. pc'["reporter"] \in {"leave", "destroy", "gone"} => pc["reporter"] \in {"leave", "destroy", "gone"}
    BY <2>2, <2>4
  <2> QED BY <2>1, <2>3, <2>5, AloneShrinks
<1>3. ASSUME NEW p \in Threads, Stop(p) PROVE Alone' /\ (NoLateStart' => NoLateStart)
  <2>1. /\ Counted' = Counted \ {p} /\ UNCHANGED starts /\ p \in Traffic \cup {"listener"}
        /\ \A q \in Threads \ {p, "main"} : pc'[q] = pc[q]
    BY <1>3, ExactStop
  <2>2. UNCHANGED <<runNext, signals>> BY <1>3, <2>1 DEF Stop, starts
  <2>3. NoLateStart' => NoLateStart BY <2>2, StillOrderly
  <2>4. pc'["reporter"] = pc["reporter"] BY <2>1, ThreadsHas, ThreadsAssumption
  <2> QED BY <2>1, <2>3, <2>4, AloneShrinks
<1>4. CASE Spawn
  <2>1. Counted' = Counted BY <1>4, ExactSpawn
  <2>2. signals' = signals BY <1>4 DEF Spawn, bounds
  <2>3. PICK t \in Unused : Linked(t) /\ pc' = [pc EXCEPT !["listener"] = "count"] BY <1>4, SpawnStep
  <2>4. \A u \in Unused : u \in Threads /\ u # None
    BY UnusedFree, ThreadsAssumption DEF Threads
  <2>5. runNext' = runNext \/ runNext'[t] # None
    BY <2>3, <2>4 DEF Linked, Structure, Places
  <2>6. NoLateStart' => NoLateStart BY <2>2, <2>4, <2>5 DEF NoLateStart
  <2>7. pc'["reporter"] = pc["reporter"] BY <2>3, ThreadsHas DEF Structure, Places
  <2> QED BY <2>1, <2>6, <2>7, AloneShrinks
<1> QED BY <1>1, <1>2, <1>3, <1>4

LEMMA OtherDirection ==
  ASSUME Structure, Exact, Alone, NEW t \in Traffic, NEW other \in Unused, Picks(t, other),
         pc' = [pc EXCEPT ![t] = "count"], after'[t] \in {"post", "leave"},
         UNCHANGED <<runNow, runNext, counts, bounds>>
  PROVE  Exact' /\ Alone' /\ Counted' = Counted
<1>1. t \in Threads \ {"main", "reporter", "listener"} BY ThreadsHas, ThreadsAssumption
<1>2. Counted' = Counted
  <2>1. CASE pc[t] # "leave" BY <1>1, <2>1, CountedPicks
  <2>2. CASE pc[t] = "leave"
    <3>1. pc'[t] = "count" BY DEF Picks
    <3>2. \A q \in Threads \ {t, "main"} : pc'[q] = pc[q] /\ after'[q] = after[q]
      BY DEF Picks, Structure, Places
    <3>3. \A q \in Threads \ {"main"} : q \in Counted' <=> q \in Counted BY <2>2, <3>1, <3>2 DEF Counted
    <3>4. Counted \subseteq Threads \ {"main"} /\ Counted' \subseteq Threads \ {"main"} BY DEF Counted
    <3> QED BY <3>3, <3>4
  <2> QED BY <2>1, <2>2
<1>3. pc'["listener"] = pc["listener"] /\ pc'["reporter"] = pc["reporter"]
  BY <1>1, ThreadsHas DEF Structure, Places
<1>4. UNCHANGED <<sNum, trfc, nonterm, signals>> BY DEF counts, bounds
<1>5. Exact' BY <1>2, <1>3, <1>4, ListedSame, ExactSame
<1>6. NoLateStart' => NoLateStart BY <1>4, StillOrderly
<1> QED BY <1>2, <1>3, <1>5, <1>6, AloneShrinks
-----------------------------------------------------------------------------
(* One client at a time.                                                   *)

\* Nobody links a server that is not about to be started.
Ahead == mode = "server" => \A t \in Traffic : pc[t] = "idle" /\ runNow[t] # None
                              => pc["listener"] = "count" /\ child["listener"] = t

LEMMA SingleSplit == Single <=>
  /\ single => mode = "server"
  /\ Ahead
  /\ single /\ NoLateStart =>
       /\ pc["listener"] \in {"accept", "accepted"} => Counted \cap Traffic = {}
       /\ \/ ~Starter("listener") /\ Counted \cap Traffic = {}
          \/ \E t \in Traffic :
               /\ Serving(t)
               /\ Starter("listener") =>
                    child["listener"] = t \/ (child["listener"] = runNow[t] /\ runNow[runNow[t]] = None)
  BY DEF Single, Ahead

LEMMA SingleShrinks ==
  ASSUME Single, UNCHANGED <<mode, single, runNow>>, NoLateStart' => NoLateStart, Ahead',
         pc'["listener"] \in {"accept", "accepted"} => pc["listener"] \in {"accept", "accepted"},
         Counted' \cap Traffic \subseteq Counted \cap Traffic,
         Starter("listener")' => Starter("listener") /\ child'["listener"] = child["listener"]
  PROVE  Single'
<1>1. single => mode = "server" BY DEF Single
<1> SUFFICES ASSUME single, NoLateStart
             PROVE  /\ pc'["listener"] \in {"accept", "accepted"} => Counted' \cap Traffic = {}
                    /\ \/ ~Starter("listener")' /\ Counted' \cap Traffic = {}
                       \/ \E t \in Traffic :
                            /\ Serving(t)'
                            /\ Starter("listener")' =>
                                 child'["listener"] = t \/ (child'["listener"] = runNow[t] /\ runNow[runNow[t]] = None)
  BY <1>1 DEF Single, Ahead
<1>2. pc'["listener"] \in {"accept", "accepted"} => Counted' \cap Traffic = {} BY DEF Single
<1>3. CASE ~Starter("listener") /\ Counted \cap Traffic = {} BY <1>2, <1>3
<1>4. ASSUME NEW t \in Traffic, Serving(t),
             Starter("listener") =>
               child["listener"] = t \/ (child["listener"] = runNow[t] /\ runNow[runNow[t]] = None)
      PROVE  /\ Serving(t)'
             /\ Starter("listener")' =>
                  child'["listener"] = t \/ (child'["listener"] = runNow[t] /\ runNow[runNow[t]] = None)
  BY <1>4 DEF Serving
<1> QED BY <1>2, <1>3, <1>4 DEF Single

LEMMA AheadStarts ==
  ASSUME Structure, Boot, Ahead, NEW p \in Threads, Start(p) \/ StartFails(p) \/ StartUndone(p)
  PROVE  Ahead'
<1>1. PICK a, b : Hands(p, a, b) BY HandsOver
<1>2. UNCHANGED <<mode, child, runNow>> BY HandsOver DEF config, starts
<1> DEFINE c == child[p]
<1>3. /\ c \in Threads \ {"main"} /\ c # p /\ p # "reporter"
      /\ pc' = [q \in Threads |-> IF q = c THEN b ELSE IF q = p THEN a ELSE pc[q]]
  BY <1>1, HandsPlaces
<1>4. b \in {"begin", "counted", "failed"} /\ a \in {"chain", "post", "leave", "destroy", "failing"}
      /\ pc[p] \in {"count", "failing"} /\ pc[c] \in {"idle", "counted"}
  BY <1>1 DEF Hands, Structure, Places, Children
<1> SUFFICES ASSUME mode = "server", NEW t \in Traffic, pc'[t] = "idle", runNow[t] # None
             PROVE  pc'["listener"] = "count" /\ child["listener"] = t
  BY <1>2 DEF Ahead
<1>5. t \in Threads BY ThreadsHas
<1>6. pc[t] = "idle" /\ t # c BY <1>3, <1>4, <1>5
<1>7. pc["listener"] = "count" /\ child["listener"] = t BY <1>6 DEF Ahead
<1>8. p # "listener" /\ c # "listener" BY <1>4, <1>6, <1>7
<1> QED BY <1>3, <1>7, <1>8, ThreadsHas

LEMMA SingleStarts ==
  ASSUME Structure, Exact, Boot, Alone, Single, NEW p \in Threads, Start(p) \/ StartFails(p) \/ StartUndone(p)
  PROVE  Single'
<1>1. PICK a, b : Hands(p, a, b) BY HandsOver
<1>2. UNCHANGED <<config, starts>> BY HandsOver
<1>3. UNCHANGED <<mode, single, child, after, runNow, runNext>> BY <1>2 DEF config, starts
<1>4. NoLateStart' => NoLateStart BY AloneStarts
<1>5. Ahead' BY SingleSplit, AheadStarts
<1> DEFINE c == child[p]
<1>6. /\ c \in Threads \ {"main"} /\ c # p /\ p # "reporter"
      /\ pc' = [q \in Threads |-> IF q = c THEN b ELSE IF q = p THEN a ELSE pc[q]]
  BY <1>1, HandsPlaces
<1>7. b \in {"begin", "counted", "failed"} /\ a \in {"chain", "post", "leave", "destroy", "failing"}
      /\ pc[p] \in {"count", "failing"} /\ pc[c] \in {"idle", "counted"}
  BY <1>1 DEF Hands, Structure, Places, Children
<1>8. pc'["listener"] = IF "listener" = c THEN b ELSE IF "listener" = p THEN a ELSE pc["listener"]
  BY <1>6, ThreadsHas
<1>9. pc'["listener"] \in {"accept", "accepted"} => pc["listener"] \in {"accept", "accepted"} BY <1>7, <1>8
<1>10. Starter("listener")' => Starter("listener") BY <1>7, <1>8 DEF Starter
<1>11. CASE Counted' \cap Traffic \subseteq Counted \cap Traffic
  BY <1>3, <1>4, <1>5, <1>9, <1>10, <1>11, SingleShrinks
<1>12. CASE b = "failed" BY <1>1, <1>3, <1>11, <1>12, CountedHands
<1>13. ASSUME b # "failed" PROVE pc[p] = "count" /\ Counted' = Counted \cup {c}
  BY <1>1, <1>3, <1>13, CountedHands DEF Hands
<1>14. CASE ~single BY <1>3, <1>5, <1>14 DEF Single, Ahead
<1>15. CASE ~NoLateStart BY <1>3, <1>4, <1>5, <1>15 DEF Single, Ahead
<1>16. CASE c \notin Traffic BY <1>11, <1>12, <1>13, <1>16
<1>17. CASE single /\ NoLateStart /\ c \in Traffic /\ b # "failed"
  <2>1. mode = "server" /\ pc[p] = "count" /\ Counted' = Counted \cup {c} BY <1>13, <1>17 DEF Single
  <2>2. p = "listener"
    <3>1. p # "main" BY <1>17, <2>1, ThreadsAssumption DEF Boot, Starter
    <3>2. p \notin Traffic
      <4>1. ASSUME p \in Traffic PROVE FALSE
        <5>1. after[p] = "destroy" BY <2>1, <4>1 DEF Structure, Afters, Starter
        <5>2. c = None BY <1>17, <2>1, <5>1 DEF Structure, Afters, NoLateStart
        <5> QED BY <1>6, <5>2, ThreadsAssumption DEF Threads
      <4> QED BY <4>1
    <3> QED BY <1>6, <3>1, <3>2 DEF Threads
  <2>3. Starter("listener") BY <2>1, <2>2 DEF Starter
  <2>4. PICK t \in Traffic :
          /\ Serving(t)
          /\ child["listener"] = t \/ (child["listener"] = runNow[t] /\ runNow[runNow[t]] = None)
    BY <1>17, <2>3 DEF Single
  <2>5. Serving(t)' BY <1>3, <2>1, <2>2, <2>4 DEF Serving
  <2>6. pc'["listener"] \notin {"accept", "accepted"} BY <1>6, <1>7, <1>8, <2>2
  <2> QED BY <1>3, <1>5, <2>1, <2>4, <2>5, <2>6 DEF Single, Ahead
<1> QED BY <1>12, <1>14, <1>15, <1>16, <1>17

\* Ahead, for a step that does not touch what the listener is starting.
LEMMA AheadKept ==
  ASSUME Ahead, UNCHANGED <<mode, runNow>>, \A t \in Traffic : pc'[t] = "idle" => pc[t] = "idle",
         pc["listener"] = "count" => pc'["listener"] = "count" /\ child'["listener"] = child["listener"]
  PROVE  Ahead'
  BY DEF Ahead

LEMMA SingleChain ==
  ASSUME Structure, Exact, Boot, Alone, Single, NEW p \in {"main", "listener"}, StartChain(p)
  PROVE  Single'
<1>1. /\ p \in Threads /\ pc[p] = "chain" /\ UNCHANGED <<mode, single, runNow, runNext, after>>
      /\ \E b \in {"release", "serve", "count"} :
           pc' = [pc EXCEPT ![p] = b] /\ (p # "main" => b # "release")
           /\ (b = "count" <=> runNow[child[p]] # None)
      /\ runNow[child[p]] = None => child' = child
      /\ runNow[child[p]] # None => child' = [child EXCEPT ![p] = runNow[child[p]]]
  BY ThreadsHas DEF StartChain, config
<1>2. /\ \A q \in Threads \ {p} : pc'[q] = pc[q] /\ child'[q] = child[q]
      /\ pc'[p] \in {"release", "serve", "count"}
      /\ pc'[p] = "count" <=> runNow[child[p]] # None
      /\ runNow[child[p]] # None => child'[p] = runNow[child[p]]
  BY <1>1 DEF Structure, Places
<1>3. Counted' = Counted BY ExactChain
<1>4. NoLateStart' => NoLateStart BY AloneRest
<1>5. Ahead'
  <2>1. \A t \in Traffic : pc'[t] = "idle" => pc[t] = "idle" BY <1>2, ThreadsHas
  <2>2. pc["listener"] = "count" => pc'["listener"] = "count" /\ child'["listener"] = child["listener"]
    BY <1>1, <1>2, ThreadsHas
  <2> QED BY <1>1, <2>1, <2>2, AheadKept, SingleSplit
<1>6. pc'["listener"] \in {"accept", "accepted"} => pc["listener"] \in {"accept", "accepted"}
  BY <1>2, ThreadsHas
<1>7. CASE p = "main" \/ runNow[child[p]] = None
  <2>1. Starter("listener")' => Starter("listener") /\ child'["listener"] = child["listener"]
    BY <1>1, <1>2, <1>7, ThreadsHas DEF Starter
  <2> QED BY <1>1, <1>3, <1>4, <1>5, <1>6, <2>1, SingleShrinks
<1>8. CASE p = "listener" /\ runNow[child[p]] # None
  <2> DEFINE c == child["listener"]
  <2>1. Starter("listener") /\ pc'["listener"] = "count" /\ child'["listener"] = runNow[c] /\ runNow[c] # None
    BY <1>1, <1>2, <1>8 DEF Starter
  <2>2. c \in Traffic BY <2>1, ThreadsHas DEF Boot
  <2>3. ASSUME mode = "server" PROVE runNow[runNow[c]] = None
    <3>1. Open(c)
      <4>1. after["listener"] = "chain" BY <1>1, <1>8 DEF Structure, Afters
      <4> QED BY <1>1, <1>8, <2>1, <4>1 DEF Open
    <3>2. pc[runNow[c]] = "idle" BY <2>1, <2>2, <3>1, ThreadsHas DEF Structure, Links, Claimed
    <3>3. runNow[c] \in Traffic BY <2>1, <2>2 DEF Boot
    <3>4. pc["listener"] # "count" BY <1>1, <1>8
    <3> QED BY <2>3, <3>2, <3>3, <3>4 DEF Single
  <2>4. CASE ~(single /\ NoLateStart) BY <1>1, <1>4, <1>5, <2>4 DEF Single, Ahead
  <2>5. CASE single /\ NoLateStart
    <3>1. PICK t \in Traffic : Serving(t) /\ (c = t \/ (c = runNow[t] /\ runNow[c] = None))
      BY <2>1, <2>5 DEF Single
    <3>2. c = t BY <2>1, <3>1
    <3>3. Serving(t)' BY <1>1, <1>3, <3>1 DEF Serving
    <3>4. child'["listener"] = runNow[t] /\ runNow[runNow[t]] = None BY <2>1, <2>3, <2>5, <3>2 DEF Single
    <3>5. pc'["listener"] \notin {"accept", "accepted"} BY <2>1
    <3> QED BY <1>1, <1>5, <2>5, <3>3, <3>4, <3>5 DEF Single, Ahead
  <2> QED BY <2>4, <2>5
<1> QED BY <1>7, <1>8

LEMMA SingleLeave ==
  ASSUME Structure, Exact, Boot, Alone, Single, NEW p \in Threads \ {"main"}, Leave(p)
  PROVE  Single'
<1>1. pc[p] = "leave" /\ UNCHANGED <<mode, single, runNow>> BY DEF Leave, config
<1>2. Counted' = Counted \ {p} BY ExactLeave
<1>3. NoLateStart' => NoLateStart BY AloneRest
<1>4. /\ \A q \in Threads \ {p} : /\ pc'[q] = pc[q] \/ (q = "main" /\ pc[q] = "joinwait" /\ pc'[q] = "join")
                                  /\ child'[q] = child[q]
      /\ pc'[p] \in {"destroy", "count"} /\ (runNext[p] = None => pc'[p] = "destroy")
  BY ThreadsHas DEF Leave, Signalled, Structure, Places
<1>5. p = "listener" => pc'[p] = "destroy" BY <1>4 DEF Structure, Afters
<1>6. /\ pc'["listener"] \in {"accept", "accepted"} => pc["listener"] \in {"accept", "accepted"}
      /\ pc["listener"] = "count" => pc'["listener"] = "count" /\ child'["listener"] = child["listener"]
      /\ Starter("listener")' => Starter("listener") /\ child'["listener"] = child["listener"]
  BY <1>1, <1>4, <1>5, ThreadsHas DEF Starter
<1>7. \A t \in Traffic : pc'[t] = "idle" => pc[t] = "idle" BY <1>4, ThreadsHas, ThreadsAssumption
<1>8. Ahead' BY <1>1, <1>6, <1>7, AheadKept, SingleSplit
<1> QED BY <1>1, <1>2, <1>3, <1>6, <1>8, SingleShrinks

LEMMA SingleStop ==
  ASSUME Structure, Exact, Boot, Alone, Single, NEW p \in Threads, Stop(p)
  PROVE  Single'
<1>1. /\ Counted' = Counted \ {p} /\ UNCHANGED <<config, starts>>
      /\ p \in Traffic \cup {"listener"} /\ pc'[p] = "stopped"
      /\ \A q \in Threads \ {p, "main"} : pc'[q] = pc[q]
  BY ExactStop
<1>2. UNCHANGED <<mode, single, runNow, child>> BY <1>1 DEF config, starts
<1>3. NoLateStart' => NoLateStart BY AloneRest
<1>4. /\ pc'["listener"] \in {"accept", "accepted"} => pc["listener"] \in {"accept", "accepted"}
      /\ pc["listener"] = "count" => pc'["listener"] = "count" /\ child'["listener"] = child["listener"]
      /\ Starter("listener")' => Starter("listener") /\ child'["listener"] = child["listener"]
  <2>1. p = "listener" => pc["listener"] = "listen" BY ThreadsAssumption DEF Stop
  <2> QED BY <1>1, <1>2, <2>1, ThreadsHas DEF Starter
<1>5. \A t \in Traffic : pc'[t] = "idle" => pc[t] = "idle" BY <1>1, ThreadsHas, ThreadsAssumption
<1>6. Ahead' BY <1>2, <1>4, <1>5, AheadKept, SingleSplit
<1> QED BY <1>1, <1>2, <1>3, <1>4, <1>6, SingleShrinks

\* The listener has waited until there is no traffic.
LEMMA SingleSpawn ==
  ASSUME Structure, Exact, Boot, Alone, Single, Spawn
  PROVE  Single'
<1>1. PICK t \in Unused : Linked(t) /\ child' = [child EXCEPT !["listener"] = t]
                          /\ pc' = [pc EXCEPT !["listener"] = "count"]
  BY SpawnStep
<1>2. pc["listener"] = "accepted" /\ UNCHANGED <<mode, single>> BY DEF Spawn, config
<1>3. t \in Traffic /\ t \in Threads \ {"main", "reporter", "listener"} BY UnusedFree
<1>4. pc'["listener"] = "count" /\ child'["listener"] = t /\ \A q \in Traffic : pc'[q] = pc[q]
  BY <1>1, ThreadsHas, ThreadsAssumption DEF Structure, Places
<1>5. Ahead'
  <2>1. \A q \in Traffic \ {t} : runNow'[q] = runNow[q]
    BY <1>1, ThreadsHas DEF Linked, Structure, Places
  <2> QED BY <1>2, <1>4, <2>1 DEF Single, Ahead
<1>6. Counted' = Counted BY ExactSpawn
<1>7. NoLateStart' => NoLateStart BY AloneRest
<1>8. single /\ NoLateStart => Counted' \cap Traffic = {} BY <1>2, <1>6 DEF Single
<1>9. single /\ NoLateStart' => Serving(t)' BY <1>7, <1>8 DEF Serving
<1>10. pc'["listener"] \notin {"accept", "accepted"} BY <1>4
<1> QED BY <1>2, <1>3, <1>4, <1>5, <1>9, <1>10 DEF Single, Ahead

LEMMA SingleWorks ==
  ASSUME Structure, Exact, Boot, Alone, Single,
         \/ \E t \in Traffic : TrafficWorks(t)
         \/ ListenerWorks \/ ReporterWorks
         \/ (StartRelease \/ JoinAll \/ Interrupt \/ Alarm) /\ ~Exited'
  PROVE  Single'
<1>1. Places BY DEF Structure
<1>2. /\ KindKept /\ \A q \in Threads : Calm(q)
      /\ UNCHANGED config
  <2>1. ASSUME NEW t \in Traffic, TrafficWorks(t) PROVE KindKept /\ (\A q \in Threads : Calm(q)) /\ UNCHANGED config
    BY <1>1, <2>1, TrafficCalm, ElsewhereTraffic
  <2>2. CASE ListenerWorks BY <1>1, <2>2, ListenerCalm, Elsewhere
  <2>3. CASE ReporterWorks BY <1>1, <2>3, ReporterCalm, Elsewhere
  <2>4. CASE (StartRelease \/ JoinAll \/ Interrupt \/ Alarm) /\ ~Exited' BY <1>1, <2>4, MainCalm, Elsewhere
  <2> QED BY <2>1, <2>2, <2>3, <2>4
<1>3. Counted' = Counted /\ UNCHANGED <<mode, single, runNow, child>> BY <1>2, ExactCalm DEF config, starts
<1>4. NoLateStart' => NoLateStart BY AloneWorks
<1>5. /\ \A t \in Threads : (pc'[t] = "idle" => pc[t] = "idle") /\ (pc[t] = "count" => pc'[t] = "count")
      /\ \A t \in Threads : Starter(t)' => Starter(t)
  BY <1>2 DEF Calm, Quiet, Starter
<1>6. Ahead' BY <1>3, <1>5, AheadKept, SingleSplit, ThreadsHas
<1>7. Starter("listener")' => Starter("listener") /\ child'["listener"] = child["listener"]
  BY <1>3, <1>5, ThreadsHas
<1>8. CASE pc'["listener"] \in {"accept", "accepted"} => pc["listener"] \in {"accept", "accepted"}
  BY <1>3, <1>4, <1>6, <1>7, <1>8, SingleShrinks
<1>9. CASE pc'["listener"] = pc["listener"] BY <1>8, <1>9
<1>10. ASSUME NEW t \in Traffic, TrafficWorks(t) PROVE Single' BY <1>1, <1>9, <1>10, ElsewhereTraffic
<1>11. CASE ReporterWorks BY <1>1, <1>9, <1>11, Elsewhere, ThreadsHas
<1>12. CASE (StartRelease \/ JoinAll \/ Interrupt \/ Alarm) /\ ~Exited' BY <1>1, <1>9, <1>12, Elsewhere, ThreadsHas
<1>13. CASE Serve
  <2>1. pc["listener"] = "serve" /\ (interrupted \/ mCount = 0 \/ ~single \/ trfc = 0) BY <1>13 DEF Serve
  <2>2. pc'["listener"] = IF interrupted \/ mCount = 0 THEN "unregister" ELSE "accept"
    BY <1>1, <1>13, ThreadsHas DEF Serve, Places
  <2>3. CASE interrupted \/ mCount = 0 BY <1>8, <2>2, <2>3
  <2>4. CASE ~(interrupted \/ mCount = 0)
    <3>1. single => trfc = 0 BY <2>1, <2>4
    <3>2. single => Counted \cap Traffic = {} BY <3>1, CountedFinite, FS_EmptySet DEF Exact
    <3>3. single => Counted' \cap Traffic = {} BY <1>3, <3>2
    <3>4. ~Starter("listener")' BY <2>2 DEF Starter
    <3> QED BY <1>3, <1>4, <1>6, <3>3, <3>4 DEF Single, Ahead
  <2> QED BY <2>3, <2>4
<1>14. CASE Register \/ Listen \/ Reject \/ Unregister \/ AcceptNothing \/ Accept \/ Destroy("listener")
  <2>1. CASE Register \/ Listen \/ Reject \/ Unregister
    <3>1. pc'["listener"] \in {"listen", "serve", "leave"}
      BY <1>1, <2>1, ThreadsHas DEF Register, Listen, Reject, Unregister, Places
    <3> QED BY <1>8, <3>1
  <2>2. CASE AcceptNothing
    <3>1. pc'["listener"] \in {"serve", "unregister"} BY <1>1, <2>2, ThreadsHas DEF AcceptNothing, Places
    <3> QED BY <1>8, <3>1
  <2>3. CASE Accept
    <3>1. pc["listener"] = "accept" BY <2>3 DEF Accept
    <3> QED BY <1>8, <3>1
  <2>4. CASE Destroy("listener")
    <3>1. pc'["listener"] = "gone" BY <1>1, <2>4, ThreadsHas DEF Destroy, Places
    <3> QED BY <1>8, <3>1
  <2> QED BY <1>14, <2>1, <2>2, <2>3, <2>4
<1> QED BY <1>10, <1>11, <1>12, <1>13, <1>14 DEF ListenerWorks
-----------------------------------------------------------------------------
(* The queues.                                                             *)

LEMMA QueuesKept ==
  ASSUME Queues, UNCHANGED <<parallel, item, root>>,
         mCount' \in 0 .. Unlimited, connects' \in 0 .. Len(parallel),
         pending' = pending \/ \E r \in Traffic \cup {Note} : pending' = Append(pending, r),
         pc'["listener"] = "accept" => mCount' > 0,
         pc'["reporter"] = "work" => pc["reporter"] = "work"
  PROVE  Queues'
<1>1. pending' \in Seq(Traffic \cup {Note})
  <2>1. pending \in Seq(Traffic \cup {Note}) BY DEF Queues
  <2> QED BY <2>1, AppendProperties
<1> QED BY <1>1 DEF Queues

LEMMA QueuesTraffic ==
  ASSUME Structure, Queues, NEW t \in Traffic, TrafficWorks(t)
  PROVE  Queues'
<1>1. /\ \A q \in {"main", "reporter", "listener"} : pc'[q] = pc[q]
      /\ UNCHANGED <<config, mCount>>
  BY ElsewhereTraffic DEF Structure
<1>2. UNCHANGED <<item, root>> /\ (pending' = pending \/ \E r \in Traffic \cup {Note} : pending' = Append(pending, r))
  BY DEF TrafficWorks, Connect, BarrierTimeout, Receive, PostData, EndJob, EndJobDone, Destroy, Proceed, Post, jobs
<1>3. connects' = connects \/ connects' = IF connects = 0 THEN 0 ELSE connects - 1
  BY DEF TrafficWorks, Connect, Arrive, BarrierTimeout, Receive, PostData, EndJob, EndJobDone, Destroy, Proceed, flags
<1>4. Len(parallel) \in Nat BY LenProperties DEF Queues
<1>5. connects' \in 0 .. Len(parallel) BY <1>3, <1>4 DEF Queues
<1> QED BY <1>1, <1>2, <1>5, QueuesKept DEF Queues, config

LEMMA QueuesListener ==
  ASSUME Structure, Queues, ListenerWorks \/ Spawn
  PROVE  Queues'
<1>1. pc \in [Threads -> Positions] /\ "listener" \in Threads /\ "reporter" \in Threads
  BY ThreadsHas DEF Structure, Places
<1>2. /\ UNCHANGED <<parallel, item, root, connects>>
      /\ pending' = pending \/ \E r \in Traffic \cup {Note} : pending' = Append(pending, r)
  BY DEF ListenerWorks, Spawn, Register, Listen, Serve, Reject, Unregister, AcceptNothing, Accept, Destroy, Post,
         jobs, flags, config
<1>3. pc'["reporter"] = pc["reporter"]
  BY <1>1 DEF ListenerWorks, Spawn, Register, Listen, Serve, Reject, Unregister, AcceptNothing, Accept, Destroy
<1>4. mCount' \in 0 .. Unlimited /\ (pc'["listener"] = "accept" => mCount' > 0)
  <2>1. CASE Accept
    <3>1. mCount' = (IF mCount = Unlimited THEN Unlimited ELSE mCount - 1) /\ pc["listener"] = "accept"
      BY <2>1 DEF Accept
    <3>2. pc'["listener"] # "accept" BY <1>1, <2>1 DEF Accept
    <3>3. mCount \in 0 .. Unlimited /\ mCount > 0 BY <3>1 DEF Queues
    <3> QED BY <3>1, <3>2, <3>3 DEF Unlimited
  <2>2. CASE Serve
    <3>1. mCount' = mCount /\ pc'["listener"] = IF interrupted \/ mCount = 0 THEN "unregister" ELSE "accept"
      BY <1>1, <2>2 DEF Serve, flags
    <3>2. mCount \in 0 .. Unlimited BY DEF Queues
    <3>3. pc'["listener"] = "accept" => mCount # 0 BY <3>1
    <3> QED BY <3>1, <3>2, <3>3 DEF Unlimited
  <2>3. CASE Spawn \/ Register \/ Listen \/ Reject \/ Unregister
    <3>1. mCount' = mCount /\ pc'["listener"] \in {"count", "listen", "serve", "leave"}
      BY <1>1, <2>3 DEF Spawn, Register, Listen, Reject, Unregister, flags
    <3> QED BY <3>1 DEF Queues
  <2>4. CASE AcceptNothing \/ Destroy("listener")
    <3>1. mCount' = mCount BY <2>4 DEF AcceptNothing, Destroy, flags
    <3>2. pc'["listener"] \in {"serve", "unregister", "gone"} BY <1>1, <2>4 DEF AcceptNothing, Destroy
    <3> QED BY <3>1, <3>2 DEF Queues
  <2> QED BY <2>1, <2>2, <2>3, <2>4 DEF ListenerWorks
<1> QED BY <1>2, <1>3, <1>4, QueuesKept DEF Queues

LEMMA QueuesReporter ==
  ASSUME Structure, Queues, ReporterWorks
  PROVE  Queues'
<1>1. pc \in [Threads -> Positions] /\ "listener" \in Threads /\ "reporter" \in Threads
  BY ThreadsHas DEF Structure, Places
<1>2. UNCHANGED <<parallel, mCount, connects>> /\ pc'["listener"] = pc["listener"]
  BY <1>1, Elsewhere DEF Structure, config
<1> DEFINE S == Seq(Traffic \cup {Note})
<1>3. pending \in S /\ root \in S BY DEF Queues
<1>4. ASSUME root' \in S, pending' \in S, pc'["reporter"] = "work" => item' \in 1 .. Len(root') PROVE Queues'
  BY <1>2, <1>4 DEF Queues
<1>5. ASSUME TakePending PROVE Queues'
  <2>1. root' = pending \o root /\ pending' = <<>> /\ item' = 1 BY <1>5 DEF TakePending
  <2>2. pc'["reporter"] = IF root' = <<>> THEN "users" ELSE "work" BY <1>1, <1>5 DEF TakePending
  <2>3. root' \in S BY <1>3, <2>1, ConcatProperties
  <2>4. pending' \in S BY <2>1, EmptySeq
  <2>5. root' # <<>> => Len(root') \in Nat /\ Len(root') # 0 BY <2>3, EmptySeq, LenProperties
  <2>6. pc'["reporter"] = "work" => item' \in 1 .. Len(root') BY <2>1, <2>2, <2>5
  <2> QED BY <1>4, <2>3, <2>4, <2>6
<1>6. CASE SetRoot
  <2>1. CASE TakePending BY <1>5, <2>1
  <2>2. CASE UNCHANGED jobs /\ pc' = [pc EXCEPT !["reporter"] = "nap"]
    <3>1. pc'["reporter"] = "nap" BY <1>1, <2>2
    <3> QED BY <1>3, <1>4, <2>2, <3>1 DEF jobs
  <2> QED BY <1>6, <2>1, <2>2 DEF SetRoot
<1>7. CASE Nap BY <1>5, <1>7 DEF Nap
<1>8. CASE ReporterReady \/ Users \/ Destroy("reporter")
  <2>1. UNCHANGED jobs BY <1>8 DEF ReporterReady, Users, Destroy
  <2>2. pc'["reporter"] \in {"root", "leave", "gone"} BY <1>1, <1>8 DEF ReporterReady, Users, Destroy
  <2> QED BY <1>3, <1>4, <2>1, <2>2 DEF jobs
<1>9. CASE Process
  <2>1. pc["reporter"] = "work" /\ item \in 1 .. Len(root) BY <1>9 DEF Process, Queues
  <2>2. pending' = pending /\ (root' = root \/ root' = RemoveAt(root, item)) BY <1>9 DEF Process
  <2>3. RemoveAt(root, item) \in S
    <3>1. SubSeq(root, 1, item - 1) \in S /\ SubSeq(root, item + 1, Len(root)) \in S
      BY <1>3, <2>1, SubSeqProperties
    <3> QED BY <3>1, ConcatProperties DEF RemoveAt
  <2>4. root' \in S BY <1>3, <2>2, <2>3
  <2>5. Len(root') \in Nat /\ item \in Nat /\ item > 0 BY <2>1, <2>4, LenProperties
  <2>6. CASE item + 1 > Len(root')
    <3>1. pc'["reporter"] = "root" BY <1>1, <1>9, <2>6 DEF Process
    <3> QED BY <1>3, <1>4, <2>2, <2>4, <3>1
  <2>7. CASE ~(item + 1 > Len(root'))
    <3>1. item' = item + 1 BY <1>9, <2>7 DEF Process
    <3>2. item' \in 1 .. Len(root') BY <2>5, <2>7, <3>1
    <3> QED BY <1>3, <1>4, <2>2, <2>4, <3>2
  <2> QED BY <2>6, <2>7
<1> QED BY <1>6, <1>7, <1>8, <1>9 DEF ReporterWorks

LEMMA QueuesRest ==
  ASSUME Structure, Queues, UNCHANGED <<parallel, mCount, connects, pending, root, item>>,
         pc'["listener"] = "accept" => pc["listener"] = "accept",
         pc'["reporter"] = "work" => pc["reporter"] = "work"
  PROVE  Queues'
  BY QueuesKept DEF Queues
-----------------------------------------------------------------------------
(* The beginning.                                                          *)

\* The links of the settings: each thread of the chain but the first has one
\* thread that starts it.
LEMMA ChainLinks ==
  ASSUME mode \in {"client", "server"}, mode = "client" => parallel \in Parallels
  PROVE  LET linked == IF mode = "client" THEN ToSet(parallel) ELSE {"listener"} IN
         /\ linked \subseteq Threads \ {"main", "reporter"} /\ (mode = "client" => linked \subseteq Traffic)
         /\ \A p : ChainLink(p) \in linked \cup {None}
         /\ \A p, q : ChainLink(p) = ChainLink(q) /\ ChainLink(p) # None => p = q
         /\ \A p : ChainLink(p) # None => p = "reporter" \/ (p \in linked /\ mode = "client")
<1> DEFINE Q == IF mode = "client" THEN parallel ELSE <<"listener">>
           linked == IF mode = "client" THEN ToSet(parallel) ELSE {"listener"}
<1>1. /\ Q \in Seq(Threads) /\ Q # <<>> /\ Len(Q) \in Nat /\ Len(Q) >= 1
      /\ \A i \in 1 .. Len(Q) : Q[i] \in linked
      /\ \A i, j \in 1 .. Len(Q) : Q[i] = Q[j] => i = j
      /\ linked \subseteq Threads \ {"main", "reporter"} /\ (mode = "client" => linked \subseteq Traffic)
  <2>1. CASE mode = "client"
    <3>1. /\ Q = parallel /\ linked = ToSet(parallel) /\ Q \in Seq(Traffic) /\ Q # <<>>
          /\ \A i, j \in 1 .. Len(Q) : Q[i] = Q[j] => i = j
      BY <2>1, ThreadsAssumption
    <3>2. Len(Q) \in Nat /\ DOMAIN Q = 1 .. Len(Q) /\ Len(Q) # 0 BY <3>1, LenProperties, EmptySeq
    <3>3. \A i \in 1 .. Len(Q) : Q[i] \in Traffic BY <3>1, ElementOfSeq
    <3>4. linked = {Q[i] : i \in 1 .. Len(Q)} BY <3>1, <3>2 DEF ToSet
    <3>5. linked \subseteq Traffic BY <3>3, <3>4
    <3>6. \A i \in 1 .. Len(Q) : Q[i] \in linked BY <3>4
    <3>7. Q \in Seq(Threads)
      <4>1. Q \in [1 .. Len(Q) -> Threads] BY <3>1, <3>2, <3>3, ThreadsHas, LenProperties
      <4> QED BY <3>2, <4>1, SeqDef
    <3> HIDE DEF Q, linked
    <3> QED BY <2>1, <3>1, <3>2, <3>5, <3>6, <3>7, ThreadsHas, ThreadsAssumption
  <2>2. CASE mode # "client"
    <3>1. Q = <<"listener">> /\ linked = {"listener"} BY <2>2
    <3>2. Q \in Seq(Threads) /\ Q # <<>> /\ Len(Q) = 1 /\ Q[1] = "listener" BY <3>1, ThreadsHas
    <3> HIDE DEF Q
    <3>3. \A i \in 1 .. Len(Q) : i = 1 BY <3>2
    <3> QED BY <2>2, <3>1, <3>2, <3>3, ThreadsHas
  <2> QED BY <2>1, <2>2
<1>2. /\ Len(Chain) = Len(Q) + 1 /\ Chain[1] = "reporter"
      /\ \A i \in 1 .. Len(Q) : Chain[i + 1] = Q[i]
  <2>1. Chain = <<"reporter">> \o Q BY DEF Chain
  <2>2. <<"reporter">> \in Seq(Threads) /\ Len(<<"reporter">>) = 1 /\ <<"reporter">>[1] = "reporter" BY ThreadsHas
  <2> HIDE DEF Q
  <2>3. /\ Len(Chain) = 1 + Len(Q)
        /\ \A i \in 1 .. 1 + Len(Q) : Chain[i] = IF i <= 1 THEN <<"reporter">>[i] ELSE Q[i - 1]
    BY <1>1, <2>1, <2>2, ConcatProperties
  <2>4. Chain[1] = "reporter" BY <1>1, <2>2, <2>3
  <2>5. ASSUME NEW i \in 1 .. Len(Q) PROVE Chain[i + 1] = Q[i]
    <3>1. i + 1 \in 1 .. 1 + Len(Q) /\ ~(i + 1 <= 1) /\ (i + 1) - 1 = i BY <1>1
    <3> QED BY <2>3, <3>1
  <2> QED BY <1>1, <2>3, <2>4, <2>5
<1> HIDE DEF Q
<1> DEFINE At(p) == \E i \in 1 .. Len(Q) : Chain[i] = p
           place(p) == CHOOSE i \in 1 .. Len(Q) : Chain[i] = p
<1>3. \A p : /\ At(p) => place(p) \in 1 .. Len(Q) /\ Chain[place(p)] = p /\ ChainLink(p) = Q[place(p)]
             /\ ~At(p) => ChainLink(p) = None
  <2> SUFFICES ASSUME NEW p
               PROVE  /\ At(p) => place(p) \in 1 .. Len(Q) /\ Chain[place(p)] = p /\ ChainLink(p) = Q[place(p)]
                      /\ ~At(p) => ChainLink(p) = None
    OBVIOUS
  <2>1. Len(Chain) - 1 = Len(Q) BY <1>1, <1>2
  <2>2. ChainLink(p) = IF At(p) THEN Chain[1 + place(p)] ELSE None BY <2>1 DEF ChainLink
  <2>3. At(p) => place(p) \in 1 .. Len(Q) /\ Chain[place(p)] = p OBVIOUS
  <2> HIDE DEF At, place
  <2>4. At(p) => Chain[1 + place(p)] = Q[place(p)]
    <3>1. At(p) => 1 + place(p) = place(p) + 1 BY <1>1, <2>3
    <3> QED BY <1>2, <2>3, <3>1
  <2> QED BY <2>2, <2>3, <2>4
<1> HIDE DEF At, place, linked
<1>4. None \notin linked BY <1>1, ThreadsAssumption DEF Threads
<1>5. \A p : ChainLink(p) \in linked \cup {None} BY <1>1, <1>3
<1>6. \A p, q : ChainLink(p) = ChainLink(q) /\ ChainLink(p) # None => p = q BY <1>1, <1>3
<1>7. \A p : ChainLink(p) # None => p = "reporter" \/ (p \in linked /\ mode = "client")
  <2> SUFFICES ASSUME NEW p, At(p) PROVE p = "reporter" \/ (p \in linked /\ mode = "client") BY <1>3
  <2> DEFINE k == place(p)
  <2>1. k \in 1 .. Len(Q) /\ Chain[k] = p BY <1>3
  <2> HIDE DEF k
  <2>2. CASE k = 1 BY <1>2, <2>1, <2>2
  <2>3. CASE k # 1
    <3>1. k - 1 \in 1 .. Len(Q) /\ (k - 1) + 1 = k BY <1>1, <2>1, <2>3
    <3>2. p = Q[k - 1] BY <1>2, <2>1, <3>1
    <3>3. mode = "client"
      <4>1. ASSUME mode # "client" PROVE FALSE
        <5>1. Len(Q) = 1 BY <4>1 DEF Q
        <5> QED BY <2>1, <2>3, <5>1
      <4> QED BY <4>1
    <3> QED BY <1>1, <3>1, <3>2, <3>3
  <2> QED BY <2>2, <2>3
<1> QED BY <1>1, <1>5, <1>6, <1>7 DEF linked

LEMMA InitStructure ==
  ASSUME Init
  PROVE  Structure /\ Boot
<1> DEFINE linked == IF mode = "client" THEN ToSet(parallel) ELSE {"listener"}
<1>1. mode \in {"client", "server"} /\ (mode = "client" => parallel \in Parallels)
  BY BoundsAssumption DEF Init
<1>2. /\ linked \subseteq Threads \ {"main", "reporter"} /\ (mode = "client" => linked \subseteq Traffic)
      /\ \A p : ChainLink(p) \in linked \cup {None}
      /\ \A p, q : ChainLink(p) = ChainLink(q) /\ ChainLink(p) # None => p = q
      /\ \A p : ChainLink(p) # None => p = "reporter" \/ (p \in linked /\ mode = "client")
  BY <1>1, ChainLinks
<1>3. /\ pc = [p \in Threads |-> IF p = "main" THEN "count" ELSE "idle"]
      /\ child = [p \in Threads |-> IF p = "main" THEN "reporter" ELSE None]
      /\ after = [p \in Threads |-> "chain"]
      /\ runNow = [p \in Threads |-> ChainLink(p)] /\ runNext = [p \in Threads |-> None]
  BY DEF Init
<1>4. /\ \A p \in Threads : pc[p] = IF p = "main" THEN "count" ELSE "idle"
      /\ child["main"] = "reporter" /\ \A p \in Threads : after[p] = "chain" /\ runNow[p] = ChainLink(p) /\ runNext[p] = None
      /\ {"main", "reporter", "listener"} \subseteq Threads /\ Traffic \subseteq Threads \ {"main", "reporter", "listener"}
  BY <1>3, ThreadsHas, ThreadsAssumption
<1>5. \A p \in Threads : Starter(p) <=> p = "main" BY <1>4 DEF Starter
<1>6. None \notin Threads BY ThreadsAssumption DEF Threads
<1> HIDE DEF linked
<1>7. Places
  <2>1. pc \in [Threads -> Positions] BY <1>3 DEF Positions
  <2>2. child \in [Threads -> Threads \cup {None}] /\ after \in [Threads -> {"chain", "post", "leave", "destroy"}]
    BY <1>3, <1>4
  <2>3. runNow \in [Threads -> Threads \cup {None}] /\ runNext \in [Threads -> Threads \cup {None}]
    BY <1>2, <1>3
  <2> QED BY <1>4, <2>1, <2>2, <2>3 DEF Places, MainPlaces, ReporterPlaces, ListenerPlaces, TrafficPlaces
<1>8. Afters BY <1>4, <1>5 DEF Afters
<1>9. Children BY <1>4, <1>5 DEF Children, Starter
<1>10. Links
  <2>1. \A t \in Threads \ {"main", "reporter"} : Claimed(t) BY <1>4, <1>5 DEF Claimed, Starter
  <2>2. \A p \in Threads : runNow[p] \in (Threads \ {"main", "reporter"}) \cup {None} /\ runNext[p] = None
    BY <1>2, <1>4
  <2> QED BY <1>2, <1>4, <1>6, <2>1, <2>2 DEF Links
<1>11. Boot
  <2>1. ToSet(parallel) \subseteq Traffic
    <3>1. CASE mode = "client" BY <1>2, <3>1 DEF linked
    <3>2. CASE mode # "client"
      <4>1. parallel = <<>> BY <3>2 DEF Init
      <4> QED BY <4>1 DEF ToSet
    <3> QED BY <3>1, <3>2
  <2>2. begun = FALSE /\ ready = FALSE /\ interrupted = FALSE BY DEF Init
  <2>3. runNow["listener"] = None
    <3>1. "listener" \notin linked \/ mode # "client" BY <1>2, <1>4
    <3> QED BY <1>2, <1>4, <3>1
  <2>4. \A p \in Traffic : runNow[p] \in Traffic \cup {None} BY <1>2, <1>4
  <2>5. ASSUME mode = "client"
        PROVE  /\ \A p \in Threads : runNow[p] \in ToSet(parallel) \cup {None}
               /\ \A t \in ToSet(parallel) : pc[t] = "idle"
    BY <1>2, <1>4, <2>1, <2>5 DEF linked
  <2>6. mode = "server" => runNow["reporter"] \in {"listener", None} BY <1>2, <1>4 DEF linked
  <2> QED BY <1>1, <1>4, <1>5, <2>1, <2>2, <2>3, <2>4, <2>5, <2>6 DEF Boot
<1> QED BY <1>7, <1>8, <1>9, <1>10, <1>11 DEF Structure

LEMMA InitRunning ==
  ASSUME Init
  PROVE  Running
<1>1. Structure /\ Boot BY InitStructure
<1>2. /\ \A p \in Threads : pc[p] = IF p = "main" THEN "count" ELSE "idle"
      /\ {"main", "reporter", "listener"} \subseteq Threads /\ Traffic \subseteq Threads \ {"main"}
      /\ sNum = 0 /\ trfc = 0 /\ nonterm = 0 /\ signals = 0
  BY ThreadsHas, ThreadsAssumption DEF Init
<1>3. Counted = {} BY <1>2 DEF Counted
<1>4. Exact
  <2>1. Cardinality(Counted) = 0 /\ Cardinality(Counted \cap Traffic) = 0
    <3>1. Counted \cap Traffic = {} BY <1>3
    <3> QED BY <1>3, <3>1, FS_EmptySet
  <2>2. ~Listed BY <1>2 DEF Listed, Registered
  <2>3. ~Uncounted BY <2>2 DEF Uncounted
  <2>4. trfc = Cardinality(Counted \cap Traffic) BY <1>2, <2>1
  <2>5. sNum = Cardinality(Counted) - 0 BY <1>2, <2>1
  <2>6. (IF Uncounted THEN 1 ELSE 0) = 0 BY <2>3
  <2>7. sNum = Cardinality(Counted) - (IF Uncounted THEN 1 ELSE 0) BY <2>5, <2>6
  <2>8. nonterm \in {0, 1} /\ nonterm # 1 /\ signals \in Nat BY <1>2
  <2> QED BY <2>3, <2>4, <2>7, <2>8 DEF Exact
<1>5. Alone BY <1>3 DEF Alone
<1>6. Single
  <2>1. single => mode = "server"
    <3>1. single \in IF mode = "server" THEN BOOLEAN ELSE {FALSE} BY DEF Init
    <3> QED BY <3>1
  <2>2. Ahead
    <3>1. mode \in {"client", "server"} /\ (mode = "client" => parallel \in Parallels)
      BY BoundsAssumption DEF Init
    <3>2. mode = "server" => \A p : ChainLink(p) # None => p = "reporter" BY <3>1, ChainLinks
    <3>3. \A p \in Threads : runNow[p] = ChainLink(p) BY DEF Init
    <3> QED BY <3>2, <3>3, ThreadsHas, ThreadsAssumption DEF Ahead
  <2>3. ~Starter("listener") /\ Counted \cap Traffic = {} BY <1>2, <1>3 DEF Starter
  <2> QED BY <2>1, <2>2, <2>3, SingleSplit
<1>7. Queues
  <2>1. parallel \in Seq(Traffic)
    <3>1. parallel \in Parallels \/ parallel = <<>> BY DEF Init
    <3>2. <<>> \in Seq(Traffic) BY EmptySeq
    <3> QED BY <3>1, <3>2, ThreadsAssumption
  <2>2. Len(parallel) \in Nat BY <2>1, LenProperties
  <2>3. connects \in 0 .. Len(parallel)
    <3>1. connects = 0 \/ connects = (IF Len(parallel) > 1 THEN Len(parallel) ELSE 0) BY DEF Init
    <3> QED BY <2>2, <3>1
  <2>4. mCount \in 0 .. Unlimited
    <3>1. PICK n \in Counts : mCount = IF n = 0 THEN Unlimited ELSE n BY DEF Init
    <3>2. n \in 0 .. Unlimited - 1 BY BoundsAssumption
    <3> QED BY <3>1, <3>2 DEF Unlimited
  <2>5. pending = <<>> /\ root = <<>> BY DEF Init
  <2>6. pending \in Seq(Traffic \cup {Note}) /\ root \in Seq(Traffic \cup {Note}) BY <2>5, EmptySeq
  <2> QED BY <1>2, <2>1, <2>3, <2>4, <2>6 DEF Queues
<1> QED BY <1>1, <1>4, <1>5, <1>6, <1>7 DEF Running
-----------------------------------------------------------------------------
(* Every step.                                                             *)

Works ==
  \/ \E t \in Traffic : TrafficWorks(t)
  \/ ListenerWorks \/ ReporterWorks
  \/ StartRelease \/ JoinAll \/ Interrupt \/ Alarm

LEMMA NextCases ==
  ASSUME Next
  PROVE  \/ \E p \in Threads : Start(p) \/ StartFails(p) \/ StartUndone(p)
         \/ \E p \in {"main", "listener"} : StartChain(p)
         \/ \E p \in Threads \ {"main"} : Leave(p)
         \/ \E p \in Threads : Stop(p)
         \/ Spawn
         \/ \E t \in Traffic : Proceed(t)
         \/ Works
         \/ SignalExit
<1>1. {"main", "reporter", "listener"} \subseteq Threads /\ Traffic \subseteq Threads \ {"main"}
  BY ThreadsHas, ThreadsAssumption
<1>2. CASE Main BY <1>1, <1>2 DEF Main, Starting, Works
<1>3. CASE Listener BY <1>1, <1>3 DEF Listener, Starting, Works, ListenerWorks
<1>4. CASE Peers BY <1>4 DEF Peers, Works, ListenerWorks
<1>5. CASE Reporter BY <1>1, <1>5 DEF Reporter, Works, ReporterWorks
<1>6. CASE Environment BY <1>6 DEF Environment, Works
<1>7. ASSUME NEW t \in Traffic, TrafficThread(t) \/ BarrierTimeout(t)
      PROVE  \/ Start(t) \/ StartUndone(t) \/ Leave(t) \/ Proceed(t) \/ TrafficWorks(t)
  BY <1>7 DEF TrafficThread, TrafficWorks
<1> QED BY <1>1, <1>2, <1>3, <1>4, <1>5, <1>6, <1>7 DEF Next, Works

\* Only main, and the second interrupt, end the process.
LEMMA WorksExit ==
  ASSUME Places, Works, Exited'
  PROVE  JoinAll /\ pc' = Exit
<1>1. pc'["main"] = "exited" BY ThreadsHas DEF Exited, Exit
<1>2. pc' = Exit BY DEF Exited, Exit
<1>3. pc["main"] \in MainPlaces /\ pc["main"] # "exited" /\ "main" \in Threads /\ "main" \notin {"reporter", "listener"}
  BY ThreadsHas DEF Places, MainPlaces
<1>4. ASSUME NEW t \in Traffic, TrafficWorks(t) PROVE FALSE BY <1>1, <1>3, <1>4, ElsewhereTraffic
<1>5. ~ListenerWorks /\ ~ReporterWorks BY <1>1, <1>3, Elsewhere
<1>6. ~StartRelease BY <1>1, <1>3 DEF StartRelease, Places
<1>7. ~Interrupt BY <1>1, <1>3 DEF Interrupt, Signalled, Places
<1>8. ~Alarm BY <1>1, <1>3 DEF Alarm
<1> QED BY <1>2, <1>4, <1>5, <1>6, <1>7, <1>8 DEF Works

LEMMA RunningWorks ==
  ASSUME Running, Works, ~Exited'
  PROVE  Running'
<1>1. Structure /\ Exact /\ Boot /\ Alone /\ Single /\ Queues /\ Places BY DEF Running, Structure
<1>2. Structure' /\ Exact' BY <1>1, ExactCalm DEF Works
<1>3. Boot' BY <1>1, BootWorks DEF Works
<1>4. Alone' BY <1>1, AloneWorks DEF Works
<1>5. Single' BY <1>1, SingleWorks DEF Works
<1>6. Queues'
  <2>1. CASE \E t \in Traffic : TrafficWorks(t) BY <1>1, <2>1, QueuesTraffic
  <2>2. CASE ListenerWorks BY <1>1, <2>2, QueuesListener
  <2>3. CASE ReporterWorks BY <1>1, <2>3, QueuesReporter
  <2>4. CASE StartRelease \/ JoinAll \/ Interrupt \/ Alarm
    <3>1. /\ \A q \in Threads \ {"main"} : pc'[q] = pc[q]
          /\ UNCHANGED <<config, mCount, connects, jobs>>
      BY <1>1, <2>4, Elsewhere
    <3>2. pc'["listener"] = pc["listener"] /\ pc'["reporter"] = pc["reporter"] BY <3>1, ThreadsHas
    <3>3. UNCHANGED <<parallel, mCount, connects, pending, root, item>> BY <3>1 DEF config, jobs
    <3> QED BY <1>1, <3>2, <3>3, QueuesRest
  <2> QED BY <2>1, <2>2, <2>3, <2>4 DEF Works
<1> QED BY <1>2, <1>3, <1>4, <1>5, <1>6 DEF Running

LEMMA RunningStarts ==
  ASSUME Running, NEW p \in Threads, Start(p) \/ StartFails(p) \/ StartUndone(p)
  PROVE  Running'
<1>1. Structure /\ Exact /\ Boot /\ Alone /\ Single /\ Queues BY DEF Running
<1>2. PICK a, b : Hands(p, a, b) BY HandsOver
<1>3. UNCHANGED <<config, starts>> BY HandsOver
<1>4. Structure' BY <1>1, <1>2, <1>3, HandsStructure
<1>5. Exact' /\ Boot' /\ Alone' /\ Single' BY <1>1, ExactStarts, BootStarts, AloneStarts, SingleStarts
<1>6. Queues'
  <2>1. UNCHANGED <<parallel, mCount, connects, pending, root, item>>
    BY <1>3 DEF config, Start, StartFails, StartUndone, flags, jobs
  <2>2. /\ pc' = [q \in Threads |-> IF q = child[p] THEN b ELSE IF q = p THEN a ELSE pc[q]]
        /\ b \in {"begin", "counted", "failed"} /\ a \in {"chain", "post", "leave", "destroy", "failing"}
    BY <1>1, <1>2, HandsPlaces DEF Hands, Structure, Places
  <2>3. /\ pc'["listener"] = "accept" => pc["listener"] = "accept"
        /\ pc'["reporter"] = "work" => pc["reporter"] = "work"
    BY <2>2, ThreadsHas
  <2> QED BY <1>1, <2>1, <2>3, QueuesRest
<1> QED BY <1>4, <1>5, <1>6 DEF Running

LEMMA RunningRest ==
  ASSUME Running,
         \/ \E p \in {"main", "listener"} : StartChain(p)
         \/ \E p \in Threads \ {"main"} : Leave(p)
         \/ \E p \in Threads : Stop(p)
         \/ Spawn
  PROVE  Running'
<1>1. Structure /\ Exact /\ Boot /\ Alone /\ Single /\ Queues /\ pc \in [Threads -> Positions]
  BY DEF Running, Structure, Places
<1>2. Alone' BY <1>1, AloneRest
<1>3. CASE UNCHANGED <<parallel, mCount, connects, jobs>>
           /\ (pc'["listener"] = "accept" => pc["listener"] = "accept")
           /\ (pc'["reporter"] = "work" => pc["reporter"] = "work")
           /\ Structure' /\ Exact' /\ Boot' /\ Single'
  <2>1. Queues' BY <1>1, <1>3, QueuesRest DEF jobs
  <2> QED BY <1>2, <1>3, <2>1 DEF Running
<1>4. ASSUME NEW p \in {"main", "listener"}, StartChain(p) PROVE Running'
  <2>1. Structure' /\ Exact' /\ Boot' /\ Single'
    BY <1>1, <1>4, ChainStructure, ExactChain, BootChain, SingleChain
  <2>2. UNCHANGED <<parallel, mCount, connects, jobs>> BY <1>4 DEF StartChain, config, flags
  <2>3. pc'["listener"] # "accept" \/ pc'["listener"] = pc["listener"]
    BY <1>1, <1>4, ThreadsHas DEF StartChain
  <2>4. pc'["reporter"] = pc["reporter"] BY <1>1, <1>4, ThreadsHas DEF StartChain
  <2> QED BY <1>3, <2>1, <2>2, <2>3, <2>4
<1>5. ASSUME NEW p \in Threads \ {"main"}, Leave(p) PROVE Running'
  <2>1. Structure'
    <3>1. CASE runNext[p] = None BY <1>1, <1>5, <3>1, LeaveAlone
    <3>2. CASE runNext[p] # None
      <4>1. p \in Traffic BY <1>1, <3>2 DEF Structure, Afters, Threads
      <4> QED BY <1>1, <1>5, <3>2, <4>1, LeavePicks
    <3> QED BY <3>1, <3>2
  <2>2. Exact' /\ Boot' /\ Single' BY <1>1, <1>5, ExactLeave, BootLeave, SingleLeave
  <2>3. UNCHANGED <<parallel, mCount, connects, jobs>> BY <1>5 DEF Leave, config, flags
  <2>4. \A q \in {"listener", "reporter"} : pc'[q] = pc[q] \/ pc'[q] \in {"destroy", "count"}
    BY <1>1, <1>5, ThreadsHas DEF Leave, Signalled
  <2> QED BY <1>3, <2>1, <2>2, <2>3, <2>4
<1>6. ASSUME NEW p \in Threads, Stop(p) PROVE Running'
  <2>1. /\ Exact' /\ KindKept /\ UNCHANGED <<config, starts>>
        /\ p \in Traffic \cup {"listener"} /\ pc'[p] = "stopped"
        /\ \A q \in Threads \ {p, "main"} : pc'[q] = pc[q]
        /\ \A q \in Threads : Calm(q) \/ Stops(q)
    BY <1>1, <1>6, ExactStop
  <2>2. Structure' BY <1>1, <2>1, CalmStructure
  <2>3. Boot' /\ Single' BY <1>1, <1>6, BootStop, SingleStop
  <2>4. UNCHANGED <<parallel, mCount, connects, jobs>> BY <1>6 DEF Stop, config, flags
  <2>5. \A q \in {"listener", "reporter"} : pc'[q] = pc[q] \/ pc'[q] = "stopped" BY <2>1, ThreadsHas
  <2> QED BY <1>3, <2>1, <2>2, <2>3, <2>4, <2>5
<1>7. CASE Spawn
  <2>1. Structure' BY <1>1, <1>7, SpawnStep
  <2>2. Exact' /\ Boot' /\ Single' /\ Queues' BY <1>1, <1>7, ExactSpawn, BootSpawn, SingleSpawn, QueuesListener
  <2> QED BY <1>2, <2>1, <2>2 DEF Running
<1> QED BY <1>4, <1>5, <1>6, <1>7

LEMMA RunningProceed ==
  ASSUME Running, NEW t \in Traffic, Proceed(t), ~Exited'
  PROVE  Running'
<1>1. Structure /\ Exact /\ Boot /\ Alone /\ Single /\ Queues /\ pc \in [Threads -> Positions]
  BY DEF Running, Structure, Places
<1>2. CASE TrafficWorks(t) BY <1>2, RunningWorks DEF Works
<1>3. CASE /\ \E other \in Unused : Picks(t, other) /\ child' = [child EXCEPT ![t] = other]
           /\ pc' = [pc EXCEPT ![t] = "count"] /\ \A q \in Threads \ {t} : after'[q] = after[q]
           /\ after'[t] \in {"post", "leave"} /\ mode = "client"
           /\ UNCHANGED <<config, runNow, runNext, counts, flags, jobs, bounds>> /\ Structure'
  <2>1. PICK other \in Unused : Picks(t, other) BY <1>3
  <2>2. Exact' /\ Alone' BY <1>1, <1>3, <2>1, OtherDirection
  <2>3. Boot' BY <1>1, <1>3, <2>1, BootProceed
  <2>4. Single' BY <1>1, <1>3 DEF Single, config
  <2>5. pc'["listener"] = pc["listener"] /\ pc'["reporter"] = pc["reporter"]
    BY <1>1, <1>3, ThreadsHas, ThreadsAssumption
  <2>6. Queues'
    <3>1. UNCHANGED <<parallel, mCount, connects, pending, root, item>> BY <1>3 DEF config, flags, jobs
    <3> QED BY <1>1, <2>5, <3>1, QueuesRest
  <2> QED BY <1>3, <2>2, <2>3, <2>4, <2>6 DEF Running
<1> QED BY <1>1, <1>2, <1>3, ProceedStep

LEMMA RunningTypes ==
  ASSUME Running
  PROVE  TypeOK
<1>1. Places /\ Exact /\ Boot /\ Queues BY DEF Running, Structure
<1>2. sNum \in -1 .. Cardinality(Threads)
  <2>1. sNum = Cardinality(Counted) - (IF Uncounted THEN 1 ELSE 0) BY <1>1 DEF Exact
  <2>2. Cardinality(Threads) \in Nat BY ThreadsFinite, FS_CardinalityType
  <2> QED BY <2>1, <2>2, CountedFinite
<1>3. trfc \in 0 .. Cardinality(Traffic)
  <2>1. trfc = Cardinality(Counted \cap Traffic) BY <1>1 DEF Exact
  <2>2. Cardinality(Traffic) \in Nat BY ThreadsAssumption, FS_CardinalityType
  <2> QED BY <2>1, <2>2, CountedFinite
<1>4. nonterm \in {0, 1} BY <1>1 DEF Exact
<1>5. pc \in [Threads -> Positions] /\ child \in [Threads -> Threads \cup {None}] BY <1>1 DEF Places
<1>6. {begun, ready, interrupted} \subseteq BOOLEAN BY <1>1 DEF Boot
<1>7. /\ mCount \in 0 .. Unlimited /\ connects \in 0 .. Len(parallel)
      /\ pc["reporter"] = "work" => item \in 1 .. Len(root)
      /\ pending \in Seq(Traffic \cup {Note}) /\ root \in Seq(Traffic \cup {Note})
  BY <1>1 DEF Queues
<1> QED BY <1>2, <1>3, <1>4, <1>5, <1>6, <1>7 DEF TypeOK

LEMMA RunningTypesNext == Running' => TypeOK'
<1>1. Running => TypeOK BY RunningTypes
<1> QED BY <1>1, PTL

\* Everything else stands still when the process ends.
LEMMA ExitTypes ==
  ASSUME TypeOK, pc' = Exit, UNCHANGED <<config, counts, starts, flags, jobs>>
  PROVE  TypeOK' /\ Exited'
<1>1. Exited' BY DEF Exited, Exit
<1>2. pc' \in [Threads -> Positions] /\ pc'["reporter"] = "exited"
  BY ThreadsHas DEF Exit, Positions
<1>3. UNCHANGED <<child, sNum, trfc, nonterm, mCount, connects, parallel, item, root, pending, begun, ready, interrupted>>
  BY DEF config, counts, starts, flags, jobs
<1> QED BY <1>1, <1>2, <1>3 DEF TypeOK

\* An ended process takes no step.
LEMMA ExitedStays ==
  ASSUME Exited
  PROVE  ~Next
<1> SUFFICES ASSUME Next PROVE FALSE OBVIOUS
<1>1. /\ \A p \in Threads : pc[p] = "exited"
      /\ {"main", "reporter", "listener"} \subseteq Threads /\ Traffic \subseteq Threads
  BY ThreadsHas DEF Exited, Exit
<1>2. \A p \in Threads : ~Start(p) /\ ~StartFails(p) /\ ~StartUndone(p) /\ ~StartChain(p) /\ ~Leave(p) /\ ~Stop(p)
  BY <1>1 DEF Start, StartFails, StartUndone, StartChain, Leave, Stop
<1>3. ~Spawn BY <1>1 DEF Spawn
<1>4. \A t \in Traffic : ~Proceed(t) /\ ~TrafficWorks(t)
  BY <1>1 DEF TrafficWorks, Connect, BarrierTimeout, Receive, PostData, EndJob, EndJobDone, Destroy, Proceed
<1>5. ~ListenerWorks
  BY <1>1 DEF ListenerWorks, Register, Listen, Serve, Reject, Unregister, AcceptNothing, Accept, Destroy
<1>6. ~ReporterWorks BY <1>1 DEF ReporterWorks, ReporterReady, SetRoot, Nap, Users, Process, Destroy
<1>7. ~StartRelease /\ ~JoinAll /\ ~Interrupt /\ ~SignalExit
  BY <1>1 DEF StartRelease, JoinAll, Interrupt, SignalExit
<1>8. ~Alarm BY <1>1 DEF Alarm
<1> QED BY <1>1, <1>2, <1>3, <1>4, <1>5, <1>6, <1>7, <1>8, NextCases DEF Works

LEMMA Initially ==
  ASSUME Init
  PROVE  IInv
  BY InitRunning, RunningTypes DEF IInv

\* The invariant over a step that changes nothing.
LEMMA Stuttering ==
  ASSUME IInv, UNCHANGED vars
  PROVE  IInv'
<1>1. UNCHANGED <<mode, parallel, single, pc, child, after, runNow, runNext, sNum, trfc, nonterm, begun, ready, interrupted,
                  mCount, connects, pending, root, item, final, done, faults, signals>>
  BY DEF vars, config, counts, starts, flags, jobs, bounds
<1>2. TypeOK' BY <1>1 DEF IInv, TypeOK
<1>3. Exited' <=> Exited BY <1>1 DEF Exited
<1>4. ASSUME Running PROVE Running'
  <2>1. Structure /\ Exact /\ Boot /\ Alone /\ Single /\ Queues BY <1>4 DEF Running
  <2>2. (\A q \in Threads : Calm(q)) /\ KindKept
    BY <1>1, <2>1 DEF Calm, KindKept, Structure, Places
  <2>3. UNCHANGED <<config, starts>> BY <1>1 DEF config, starts
  <2>4. Structure' BY <2>1, <2>2, <2>3, CalmStructure
  <2>5. Counted' = Counted BY <1>1, <2>2, CountedCalm
  <2>6. Exact' BY <1>1, <2>1, <2>5, ListedSame, ExactSame
  <2>7. Boot' BY <1>1, <2>1 DEF Boot, Starter
  <2>8. NoLateStart' => NoLateStart BY <1>1 DEF NoLateStart
  <2>9. Alone' BY <1>1, <2>1, <2>5, <2>8, AloneShrinks
  <2>10. Ahead' BY <1>1, <2>1, AheadKept, SingleSplit
  <2>11. Starter("listener")' => Starter("listener") BY <1>1 DEF Starter
  <2>12. Single' BY <1>1, <2>1, <2>5, <2>8, <2>10, <2>11, SingleShrinks
  <2>13. Queues' BY <1>1, <2>1, QueuesRest
  <2> QED BY <2>4, <2>6, <2>7, <2>9, <2>12, <2>13 DEF Running
<1> QED BY <1>2, <1>3, <1>4 DEF IInv

LEMMA Inductive ==
  ASSUME IInv, [Next]_vars
  PROVE  IInv'
<1>1. CASE UNCHANGED vars BY <1>1, Stuttering
<1>2. CASE Next /\ Running
  <2>1. Running' => TypeOK' BY RunningTypesNext
  <2>2. CASE Running' BY <2>1, <2>2 DEF IInv
  <2>3. Places BY <1>2 DEF Running, Structure
  <2>4. CASE Works
    <3>1. CASE ~Exited' BY <1>2, <2>2, <2>4, <3>1, RunningWorks
    <3>2. CASE Exited'
      <4>1. JoinAll /\ pc' = Exit BY <2>3, <2>4, <3>2, WorksExit
      <4> QED BY <4>1, ExitTypes DEF IInv, JoinAll
    <3> QED BY <3>1, <3>2
  <2>5. CASE SignalExit BY <2>5, ExitTypes DEF IInv, SignalExit
  <2>6. ASSUME NEW t \in Traffic, Proceed(t) PROVE IInv'
    <3>1. pc'["main"] = pc["main"]
      <4>1. \E b : pc' = [pc EXCEPT ![t] = b] BY <2>6 DEF Proceed, StartReversed
      <4> QED BY <2>3, <4>1, ThreadsHas, ThreadsAssumption DEF Places
    <3>2. ~Exited' BY <2>3, <3>1, ThreadsHas DEF Places, MainPlaces, Exited, Exit
    <3> QED BY <1>2, <2>2, <2>6, <3>2, RunningProceed
  <2> QED BY <1>2, <2>2, <2>4, <2>5, <2>6, NextCases, RunningStarts, RunningRest
<1>3. CASE Next /\ Exited BY <1>3, ExitedStays
<1> QED BY <1>1, <1>2, <1>3 DEF IInv
-----------------------------------------------------------------------------
(* What holds in every behaviour.                                          *)

\* The process has ended, or all its threads are where the invariant has them.
THEOREM Invariance == Spec => []IInv
<1>1. Init => IInv BY Initially
<1>2. IInv /\ [Next]_vars => IInv' BY Inductive
<1> QED BY <1>1, <1>2, PTL DEF Spec

\* The count of threads that main and the reporter end by, and the count of
\* traffic threads that --singleclient waits for, are exact at every moment,
\* and with --singleclient one client is served at a time.
THEOREM Counts_Sound == Spec => []ThreadsSound
<1>1. IInv => ThreadsSound
  <2> SUFFICES ASSUME IInv PROVE CountsExact /\ OneClientAtATime BY DEF IInv, ThreadsSound
  <2>1. CASE Exited
    <3>1. \A p \in Threads : pc[p] = "exited" BY <2>1 DEF Exited, Exit
    <3>2. Counted = {} BY <3>1 DEF Counted
    <3> QED BY <2>1, <3>2 DEF CountsExact, OneClientAtATime
  <2>2. CASE Running
    <3>1. Exact /\ Single BY <2>2 DEF Running
    <3>2. CountsExact
      <4>1. pc["listener"] # "stopped" => (Released <=> Uncounted) BY DEF Released, Uncounted, Listed
      <4> QED BY <3>1, <4>1 DEF CountsExact, Exact
    <3>3. OneClientAtATime
      <4> SUFFICES ASSUME single, NoLateStart, NEW t \in Counted \cap Traffic, NEW u \in Counted \cap Traffic
                   PROVE  u \in {t, runNow[t]} \/ t = runNow[u]
        BY DEF OneClientAtATime
      <4>1. PICK s \in Traffic : Serving(s) BY <3>1 DEF Single
      <4> QED BY <4>1 DEF Serving
    <3> QED BY <3>2, <3>3
  <2> QED BY <2>1, <2>2 DEF IInv
<1> QED BY <1>1, Invariance, PTL

\* The reporter does not leave before a thread that still has, or will have,
\* a final packet to be acknowledged.
THEOREM EndJob_Served == Spec => []EndJobServed
<1>1. IInv => EndJobServed
  <2> SUFFICES ASSUME IInv, NoLateStart, NEW t \in Traffic, pc[t] \in Working,
                      pc["reporter"] \in {"leave", "destroy", "gone"}
               PROVE  FALSE
    BY DEF EndJobServed
  <2>1. t \in Threads \ {"main", "reporter"} BY ThreadsHas, ThreadsAssumption
  <2>2. ~Exited BY <2>1 DEF Exited, Exit, Working
  <2>3. Counted \subseteq {"reporter"} BY <2>2 DEF IInv, Running, Alone
  <2>4. t \in Counted BY <2>1 DEF Counted, Working
  <2> QED BY <2>1, <2>3, <2>4
<1> QED BY <1>1, Invariance, PTL

\* main has read the link of a client before the client can free it: no client
\* gets past the start before main has started them all.
THEOREM Chain_Alive == Spec => []ChainAlive
<1>1. IInv => ChainAlive
  <2> SUFFICES ASSUME IInv, pc["main"] = "chain", child["main"] \in Traffic PROVE pc[child["main"]] # "gone"
    BY DEF ChainAlive
  <2>1. ~Exited BY ThreadsHas DEF Exited, Exit
  <2>2. Boot BY <2>1 DEF IInv, Running
  <2>3. Starter("main") /\ ~ready BY <2>2 DEF Starter, Boot
  <2>4. mode = "client" /\ child["main"] \in ToSet(parallel) BY <2>2, <2>3, ThreadsAssumption DEF Boot
  <2> QED BY <2>2, <2>3, <2>4 DEF Boot
<1> QED BY <1>1, Invariance, PTL
=============================================================================
