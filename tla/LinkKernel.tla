----------------------------- MODULE LinkKernel -----------------------------
(***************************************************************************)
(* The part of the kernel that tlink configures, and what the iptables, tc *)
(* and sysctl commands it runs do to it: the MARK rules of mangle          *)
(* PREROUTING and, on each of the two devices, an htb qdisc with classes,  *)
(* netem qdiscs below them and fw filters.  These programs are not in the  *)
(* repository: they are modelled as runtime/trunks.go uses them.           *)
(*                                                                         *)
(* A command is a record with its name in "op".  Class 1:n is the number n *)
(* and class 1:0 the root.  Two filters that select the same class for the *)
(* same mark count as one.                                                 *)
(***************************************************************************)
EXTENDS Integers, Sequences

Devices == {"ST", "GW"}

Other(dev) == IF dev = "ST" THEN "GW" ELSE "ST"

\* The DSCP values tlink tells apart.
Dscps == {"0x2c", "0x2e", "other"}

\* The default qdisc of a device, and an empty configuration.
NoTree == [htb |-> FALSE, default |-> 0, class |-> {}, netem |-> {},
           filter |-> {}]

Empty ==
  [forward |-> FALSE, mangle |-> <<>>, tree |-> [d \in Devices |-> NoTree]]

HasClass(tree, id) == \E c \in tree.class : c.id = id

\* A "delay" without its value, which tc cannot parse.
Malformed == -1

\* Whether the kernel or the program carries the command out; what exists
\* already, or is below something that does not exist, cannot be added.
Accepted(k, cmd) ==
  CASE cmd.op \in {"sysctl", "mark", "flushMarks"} -> TRUE
    [] cmd.op \in {"delFilters", "delRoot"} -> k.tree[cmd.dev].htb
    [] cmd.op = "addRoot" -> ~k.tree[cmd.dev].htb
    [] cmd.op = "addClass" ->
         /\ k.tree[cmd.dev].htb
         /\ cmd.parent = 0 \/ HasClass(k.tree[cmd.dev], cmd.parent)
         /\ ~HasClass(k.tree[cmd.dev], cmd.id)
         /\ cmd.rate > 0
    [] cmd.op = "addNetem" ->
         /\ HasClass(k.tree[cmd.dev], cmd.class)
         /\ \A n \in k.tree[cmd.dev].netem : n.class # cmd.class
         /\ cmd.delay # Malformed
    [] cmd.op = "addFilter" -> k.tree[cmd.dev].htb

Effect(k, cmd) ==
  CASE cmd.op = "sysctl" -> [k EXCEPT !.forward = TRUE]
    [] cmd.op = "mark" -> [k EXCEPT !.mangle = Append(@, cmd)]
    [] cmd.op = "flushMarks" -> [k EXCEPT !.mangle = <<>>]
    [] cmd.op = "delFilters" -> [k EXCEPT !.tree[cmd.dev].filter = {}]
    [] cmd.op = "delRoot" -> [k EXCEPT !.tree[cmd.dev] = NoTree]
    [] cmd.op = "addRoot" ->
         [k EXCEPT !.tree[cmd.dev].htb = TRUE,
                   !.tree[cmd.dev].default = cmd.default]
    [] cmd.op = "addClass" -> [k EXCEPT !.tree[cmd.dev].class = @ \cup {cmd}]
    [] cmd.op = "addNetem" -> [k EXCEPT !.tree[cmd.dev].netem = @ \cup {cmd}]
    [] cmd.op = "addFilter" -> [k EXCEPT !.tree[cmd.dev].filter = @ \cup {cmd}]

After(k, cmd) == IF Accepted(k, cmd) THEN Effect(k, cmd) ELSE k
-----------------------------------------------------------------------------
(* How a forwarded packet fares.                                           *)

\* A MARK rule does not end the traversal: the last one that matches counts.
MarkOf(k, dev, dscp) ==
  LET matching == {i \in 1 .. Len(k.mangle) :
                     /\ k.mangle[i].nic = dev
                     /\ k.mangle[i].dscp \in {"any", dscp}}
  IN IF matching = {} THEN 0
     ELSE k.mangle[CHOOSE i \in matching : \A j \in matching : j <= i].mark

\* The class of the outgoing device a mark selects; 0 when the packet leaves
\* unshaped, because no filter matches and the default class does not exist.
ClassOf(tree, mark) ==
  LET selected == {f.class : f \in {g \in tree.filter : g.mark = mark}}
      known    == {id \in selected \cup {tree.default} : HasClass(tree, id)}
  IN CASE selected \cap known # {} -> CHOOSE id \in selected \cap known : TRUE
       [] selected \cap known = {} /\ known # {} -> tree.default
       [] OTHER -> 0

Unshaped == [rate |-> 0, delay |-> 0, jitter |-> 0, limit |-> 0]

\* What becomes of a packet that comes in on dev and goes out on the other
\* device: the rate of its class and the delay of the netem below it.
Treatment(k, dev, dscp) ==
  LET tree == k.tree[Other(dev)]
      id   == ClassOf(tree, MarkOf(k, dev, dscp))
      rate == (CHOOSE c \in tree.class : c.id = id).rate
      below == {n \in tree.netem : n.class = id}
  IN IF id = 0 THEN Unshaped
     ELSE IF below = {} THEN [Unshaped EXCEPT !.rate = rate]
     ELSE LET n == CHOOSE n \in below : TRUE
          IN [rate |-> rate, delay |-> n.delay, jitter |-> n.jitter,
              limit |-> n.limit]
=============================================================================
