------------------------------- MODULE Ziffy -------------------------------
(***************************************************************************)
(* src/cmd/ziffy: a sender traces the path of several flows by sending PTP *)
(* packets with growing hop limits, a goroutine reads the ICMP replies of  *)
(* the switches and of the receiver and starts a handler for each, and the *)
(* table printed at the end says which switches add to the packet's        *)
(* correction field.  A packet carries the index of its route and its hop  *)
(* number, so that a late reply can be filed where it belongs.             *)
(*                                                                         *)
(* The network (switches, loss, delay, duplicate replies, other ICMP       *)
(* traffic of the host) is external.                                       *)
(***************************************************************************)
EXTENDS Integers, Sequences, FiniteSets, FiniteSetsExt

CONSTANTS
  Settings,      \* the runs considered: -portcount, -ipcount, -maxhop, -type,
                 \* and Path[f], the switches on the way to flow f's target
  HopMin, ContReached, QueueCap, PTPRecvHandlers,
  cfThreshold,
  TC,            \* the switches that are transparent clocks
  MaxInFlight,   \* bound: probes and replies on their way to inputQueue
  MaxFaults      \* bound: traces that fail, packets that come twice, and other
                 \* ICMP packets while the sender traces

Foreign == "foreign"
HostsOf(c) == UNION {{c.Path[f][i] : i \in DOMAIN c.Path[f]} : f \in DOMAIN c.Path}
FlowsOf(c) == c.PortCount + c.PortCount * c.IPCount

ASSUME ZiffyAssumption ==
  /\ \A c \in Settings :
       /\ c.PortCount \in Nat \ {0} /\ c.IPCount \in Nat
       /\ c.HopMax \in Nat
       /\ c.MessageType \in {"sync", "signaling"}
       /\ DOMAIN c.Path = 1 .. FlowsOf(c)
       /\ {"receiver", "sweep", Foreign} \cap HostsOf(c) = {}
       /\ \A f \in DOMAIN c.Path : c.Path[f] \in Seq(HostsOf(c))
  /\ HopMin \in Nat \ {0}
  /\ ContReached \in BOOLEAN /\ QueueCap \in Nat /\ PTPRecvHandlers \in Nat
  /\ cfThreshold \in Nat
  /\ TC \subseteq UNION {HostsOf(c) : c \in Settings}
  /\ MaxInFlight \in Nat /\ MaxFaults \in Nat

VARIABLES
  config,
  \* Sender: the main goroutine
  pc,            \* "begin", "probe", "wait", "pop", "late", "stop", "print", "done"
  routes,        \* for every flow begun the set of SwitchTrafficInfo filed there
  currentRoute, hop, destReached, destHop,
  inputQueue,
  table,         \* what computeInfo makes of the cleared paths
  \* Sender: monitorIcmp and its handlers
  monitor,       \* "select", "read" or "gone"
  buf,           \* the packet in the one buffer all handlers read, Other when
                 \* no handler is left to read it
  handlers,      \* packets whose handler has yet to decode buf
  blocked,       \* decoded, waiting for room in inputQueue
  \* Receiver
  receiver, runningHandlers, receiving,
  \* network
  toReceiver, icmp,
  faults,        \* failures, other ICMP packets and duplicates so far
  \* history
  failed,        \* a trace has failed
  overwritten,   \* a handler read a packet other than its own
  stale          \* a trace took the target's answer to an earlier trace

traceVars == <<routes, currentRoute, hop, destReached, destHop>>
icmpVars == <<monitor, buf, handlers, blocked>>
receiverVars == <<receiver, runningHandlers, receiving>>
netVars == <<toReceiver, icmp, faults>>
histVars == <<failed, overwritten, stale>>
vars == <<config, pc, traceVars, inputQueue, table, icmpVars, receiverVars,
          netVars, histVars>>

Flows == FlowsOf(config)
Hosts == HostsOf(config)
HopMax == config.HopMax
Path == config.Path
flow == Len(routes)
sweep == flow > config.PortCount

\* The addresses of the sweep are others in the receiver's rack; nobody
\* answers there.
Dest(f) == IF f <= config.PortCount THEN "receiver" ELSE "sweep"

\* Where the packet of flow f with hop limit h ends, and the corrections the
\* transparent clocks before it have made.
EndOf(f, h) == IF h <= Len(Path[f]) THEN Path[f][h] ELSE Dest(f)
Residence(f, h) ==
  Cardinality({i \in DOMAIN Path[f] : i < h /\ Path[f][i] \in TC})

Reply(f, h, r, c) == [flow |-> f, hop |-> h, route |-> r, copy |-> c]
Other == Reply(0, 0, 0, 0)     \* no time exceeded message
General == Reply(0, 0, 0, 1)   \* one about a PTP packet of another kind
Noise == {Other, General}

Init ==
  /\ config \in Settings
  /\ pc = "begin" /\ routes = <<>> /\ currentRoute = 0 /\ hop = 0
  /\ destReached = FALSE /\ destHop = 0 /\ inputQueue = <<>> /\ table = {}
  /\ monitor = "read" /\ buf = Other /\ handlers = {} /\ blocked = {}
  /\ receiver = "up" /\ runningHandlers = 0 /\ receiving = {}
  /\ toReceiver = {} /\ icmp = {} /\ faults = 0
  /\ failed = FALSE /\ overwritten = FALSE /\ stale = FALSE

(***************************************************************************)
(* Sender.Start, sweepRackPrefix and traceRoute.                           *)
(***************************************************************************)
Begin ==
  /\ pc = "begin" /\ flow < Flows
  /\ routes' = Append(routes, {})
  /\ hop' = HopMin /\ destReached' = FALSE /\ pc' = "probe"
  /\ UNCHANGED <<config, currentRoute, destHop, inputQueue, table, icmpVars,
                 receiverVars, netVars, histVars>>

\* The socket cannot be made or bound: continue, with the route appended and
\* currentRoute as it was.
BeginFails ==
  /\ pc = "begin" /\ flow < Flows /\ faults < MaxFaults
  /\ routes' = Append(routes, {})
  /\ failed' = TRUE /\ faults' = faults + 1
  /\ UNCHANGED <<config, pc, currentRoute, hop, destReached, destHop,
                 inputQueue, table, icmpVars, receiverVars, toReceiver, icmp,
                 overwritten, stale>>

hopMax == IF sweep /\ destHop > 0 THEN destHop - 1 ELSE HopMax

GoesOn == hop <= hopMax /\ (~destReached \/ ContReached)

\* Probes and replies under way; the network loses what is more.
inFlight == Cardinality(toReceiver \cup receiving) + Cardinality(icmp)
              + Cardinality(handlers) + Cardinality(blocked)

\* The network takes the probe: it is lost, or it comes once or twice to the
\* receiver, or back as the reply of a switch.
Forward(f, h, r) ==
  \/ UNCHANGED netVars
  \/ \E more \in {0, 1} :
       LET copies == {Reply(f, h, r, c) : c \in 0 .. more}
       IN  /\ faults + more <= MaxFaults /\ inFlight + more < MaxInFlight
           /\ faults' = faults + more
           /\ \/ /\ EndOf(f, h) = "receiver"
                 /\ toReceiver' = toReceiver \cup copies
                 /\ UNCHANGED icmp
              \/ /\ EndOf(f, h) \in Hosts
                 /\ icmp' = icmp \cup copies
                 /\ UNCHANGED toReceiver

\* formSyncPacket, formSignalingPacket: the hop in SequenceID, the route in
\* PortNumber.
SendProbe ==
  /\ pc = "probe" /\ GoesOn
  /\ Forward(flow, hop, currentRoute)
  /\ pc' = "wait"
  /\ UNCHANGED <<config, traceVars, inputQueue, table, icmpVars, receiverVars,
                 histVars>>

SendFails ==
  /\ pc = "probe" /\ GoesOn /\ faults < MaxFaults
  /\ failed' = TRUE /\ faults' = faults + 1
  /\ pc' = "begin"
  /\ UNCHANGED <<config, traceVars, inputQueue, table, icmpVars, receiverVars,
                 toReceiver, icmp, overwritten, stale>>

\* What is filed after a handler has read another's packet may be anything;
\* no property speaks of it and the model leaves it out.
File(sw) == IF overwritten THEN routes
            ELSE [routes EXCEPT ![sw.route + 1] = @ \cup {sw}]

\* Mutant of TakeReply: the destination's distance is counted from zero.
TakeReplyShort ==
  /\ pc = "wait" /\ inputQueue # <<>>
  /\ LET sw == Head(inputQueue)
         reached == sw.ip = Dest(flow)
     IN  /\ routes' = File(sw)
         /\ destReached' = (destReached \/ reached)
         /\ destHop' = IF reached THEN hop - HopMin ELSE destHop
         /\ stale' = (stale \/ (reached /\ sw.flow # flow))
  /\ inputQueue' = Tail(inputQueue)
  /\ hop' = hop + 1 /\ pc' = "probe"
  /\ UNCHANGED <<config, currentRoute, table, icmpVars, receiverVars, netVars,
                 failed, overwritten>>

\* Mutant of TakeReply: every reply is filed with the route being traced.
TakeReplyHere ==
  /\ pc = "wait" /\ inputQueue # <<>>
  /\ LET sw == Head(inputQueue)
         reached == sw.ip = Dest(flow)
     IN  /\ routes' = [routes EXCEPT ![flow] = @ \cup {sw}]
         /\ destReached' = (destReached \/ reached)
         /\ destHop' = IF reached THEN hop ELSE destHop
         /\ stale' = (stale \/ (reached /\ sw.flow # flow))
  /\ inputQueue' = Tail(inputQueue)
  /\ hop' = hop + 1 /\ pc' = "probe"
  /\ UNCHANGED <<config, currentRoute, table, icmpVars, receiverVars, netVars,
                 failed, overwritten>>

\* Whatever reply comes first, perhaps to an earlier probe.
TakeReply ==
  /\ pc = "wait" /\ inputQueue # <<>>
  /\ LET sw == Head(inputQueue)
         reached == sw.ip = Dest(flow)
     IN  /\ routes' = File(sw)
         /\ destReached' = (destReached \/ reached)
         /\ destHop' = IF reached THEN hop ELSE destHop
         /\ stale' = (stale \/ (reached /\ sw.flow # flow))
  /\ inputQueue' = Tail(inputQueue)
  /\ hop' = hop + 1 /\ pc' = "probe"
  /\ UNCHANGED <<config, currentRoute, table, icmpVars, receiverVars, netVars,
                 failed, overwritten>>

Timeout ==
  /\ pc = "wait"
  /\ hop' = hop + 1 /\ pc' = "probe"
  /\ UNCHANGED <<config, routes, currentRoute, destReached, destHop, inputQueue,
                 table, icmpVars, receiverVars, netVars, histVars>>

TraceEnds ==
  /\ pc = "probe" /\ ~GoesOn
  /\ currentRoute' = currentRoute + 1
  /\ pc' = "pop"
  /\ UNCHANGED <<config, routes, hop, destReached, destHop, inputQueue, table,
                 icmpVars, receiverVars, netVars, histVars>>

Pop ==
  /\ pc \in {"pop", "late"} /\ inputQueue # <<>>
  /\ routes' = File(Head(inputQueue))
  /\ inputQueue' = Tail(inputQueue)
  /\ UNCHANGED <<config, pc, currentRoute, hop, destReached, destHop, table,
                 icmpVars, receiverVars, netVars, histVars>>

Popped ==
  /\ pc \in {"pop", "late"} /\ inputQueue = <<>>
  /\ pc' = IF pc = "pop" THEN "begin" ELSE "stop"
  /\ UNCHANGED <<config, traceVars, inputQueue, table, icmpVars, receiverVars,
                 netVars, histVars>>

\* All flows are traced: sleep for IcmpReplyTime, then pop once more.
SleepForLate ==
  /\ pc = "begin" /\ flow = Flows
  /\ pc' = "late"
  /\ UNCHANGED <<config, traceVars, inputQueue, table, icmpVars, receiverVars,
                 netVars, histVars>>

\* icmpDone has no buffer: the sender waits for monitorIcmp to come back from
\* reading.
StopMonitor ==
  /\ pc = "stop" /\ monitor = "select"
  /\ pc' = "print" /\ monitor' = "gone"
  /\ UNCHANGED <<config, traceVars, inputQueue, table, buf, handlers, blocked,
                 receiverVars, netVars, histVars>>

(***************************************************************************)
(* clearPaths, and computeInfo of the table.                               *)
(***************************************************************************)
HopsOf(route) == {sw.hop : sw \in route}

\* A cleared path has the hops in order, each once; sort.Slice is not stable,
\* so which of several replies for one hop stays is open.
clearPath(route) ==
  {p \in [HopsOf(route) -> route] : \A h \in HopsOf(route) : p[h].hop = h}

\* Mutant of isLast: subtracts whatever comes next.
isLastNoGap(p, h) == p[h].ip = p[Max(DOMAIN p)].ip

\* No difference can be taken: the path ends here, or the next hop is missing.
isLast(p, h) == p[h].ip = p[Max(DOMAIN p)].ip \/ h + 1 \notin DOMAIN p

nextHop(p, h) == Min({g \in DOMAIN p : g > h})
corrField(p, h) == IF isLast(p, h) THEN 0 ELSE p[nextHop(p, h)].cf - p[h].cf

\* Division of Go, which rounds towards zero.
Quotient(a, b) == IF a >= 0 THEN a \div b ELSE -((-a) \div b)

\* What is known of a switch after one more path through it: the first one
\* decides whether it has an average at all.
Counted(sw, p, h) ==
  IF sw.routes = 0
    THEN [totalCF |-> corrField(p, h), divRoutes |-> 1, routes |-> 1, last |-> isLast(p, h)]
    ELSE [totalCF |-> sw.totalCF + corrField(p, h),
          divRoutes |-> sw.divRoutes + IF isLast(p, h) THEN 0 ELSE 1,
          routes |-> sw.routes + 1, last |-> sw.last]

\* The loop over the routes, for the switch host at hop h.
discovered(paths, host, h) ==
  LET after[r \in 0 .. flow] ==
        IF r = 0 THEN [totalCF |-> 0, divRoutes |-> 0, routes |-> 0, last |-> FALSE]
        ELSE IF h \in DOMAIN paths[r] /\ paths[r][h].ip = host
          THEN Counted(after[r - 1], paths[r], h)
          ELSE after[r - 1]
  IN  after[flow]

Row(paths, host, h) ==
  LET sw == discovered(paths, host, h)
      avg == Quotient(sw.totalCF, sw.divRoutes)
  IN  [host |-> host, hop |-> h, routes |-> sw.routes,
       tc |-> IF sw.last THEN "Unknown"
              ELSE IF avg > cfThreshold \/ -avg > cfThreshold THEN "On" ELSE "Off"]

computeInfo(paths) ==
  {Row(paths, k[1], k[2]) :
     k \in UNION {{<<paths[r][h].ip, h>> : h \in DOMAIN paths[r]} : r \in DOMAIN paths}}

PrintTable ==
  /\ pc = "print"
  /\ \E paths \in [1 .. flow -> UNION {clearPath(routes[r]) : r \in 1 .. flow}] :
       /\ \A r \in 1 .. flow : paths[r] \in clearPath(routes[r])
       /\ table' = computeInfo(paths)
  /\ pc' = "done"
  /\ UNCHANGED <<config, traceVars, inputQueue, icmpVars, receiverVars, netVars,
                 histVars>>

(***************************************************************************)
(* monitorIcmp and handleIcmpPacket.                                       *)
(***************************************************************************)
\* Mutant of AfterRead: icmpDone is not looked at.
AfterReadOn == "read"

\* Back at the select: its default is to read again, unless the sender waits.
AfterRead == IF pc = "stop" THEN "select" ELSE "read"

\* Where the steps of the others are interleaved with the sender's: what it
\* does elsewhere concerns only itself, and from "stop" on it files no more.
Filing == pc \in {"wait", "pop", "late"}

ReadReply ==
  /\ monitor = "read" /\ Filing
  /\ \E p \in icmp : icmp' = icmp \ {p} /\ buf' = p /\ handlers' = handlers \cup {p}
  /\ monitor' = AfterRead
  /\ UNCHANGED <<config, pc, traceVars, inputQueue, table, blocked, receiverVars,
                 toReceiver, faults, histVars>>

\* The handler of an Other packet only looks at buf and returns.
ReadNoise ==
  /\ monitor = "read"
  /\ (Filing /\ faults < MaxFaults) \/ pc = "stop"
  /\ faults' = IF pc = "stop" THEN faults ELSE faults + 1
  /\ \E p \in IF pc = "stop" THEN {Other} ELSE Noise :
       /\ buf' = IF p = Other /\ handlers = {} THEN buf ELSE p
       /\ handlers' = handlers \cup ({p} \ {Other})
  /\ monitor' = AfterRead
  /\ UNCHANGED <<config, pc, traceVars, inputQueue, table, blocked, receiverVars,
                 toReceiver, icmp, histVars>>

Source(p) == IF p = General THEN Foreign ELSE EndOf(p.flow, p.hop)

\* Mutant of Decoded: the route is counted from one.
DecodedNext(p) ==
  IF buf = General THEN [ip |-> Source(p), cf |-> 0, hop |-> 0, route |-> 0,
                           flow |-> 0]
  ELSE [ip |-> Source(p), cf |-> Residence(buf.flow, buf.hop), hop |-> buf.hop,
        route |-> buf.route + 1, flow |-> buf.flow]

\* The sender's address came with the packet, the rest is in buf.  Another
\* kind of PTP packet is filed under route 0, hop 0.
Decoded(p) ==
  IF buf = General THEN [ip |-> Source(p), cf |-> 0, hop |-> 0, route |-> 0,
                           flow |-> 0]
  ELSE [ip |-> Source(p), cf |-> Residence(buf.flow, buf.hop), hop |-> buf.hop,
        route |-> buf.route, flow |-> buf.flow]

\* A handler decodes and sends to inputQueue.  One that is slow between the
\* two is one whose packet came later.
HandleIcmp(p) ==
  /\ Filing
  /\ handlers' = handlers \ {p}
  /\ overwritten' = (overwritten \/ buf # p)
  /\ IF buf = Other THEN UNCHANGED <<inputQueue, blocked>>
     ELSE IF Len(inputQueue) < QueueCap
       THEN inputQueue' = Append(inputQueue, Decoded(p)) /\ UNCHANGED blocked
       ELSE blocked' = blocked \cup {Decoded(p)} /\ UNCHANGED inputQueue
  /\ buf' = IF handlers' = {} THEN Other ELSE buf
  /\ UNCHANGED <<config, pc, traceVars, table, monitor, receiverVars, netVars,
                 failed, stale>>

Unblock(sw) ==
  /\ Filing /\ Len(inputQueue) < QueueCap
  /\ inputQueue' = Append(inputQueue, sw)
  /\ blocked' = blocked \ {sw}
  /\ UNCHANGED <<config, pc, traceVars, table, monitor, buf, handlers,
                 receiverVars, netVars, histVars>>

(***************************************************************************)
(* Receiver.                                                               *)
(***************************************************************************)
Admits == PTPRecvHandlers > runningHandlers

ReceiverStart(p) ==
  /\ receiver = "up" /\ Filing
  /\ toReceiver' = toReceiver \ {p}
  /\ IF Admits
       THEN runningHandlers' = runningHandlers + 1 /\ receiving' = receiving \cup {p}
       ELSE UNCHANGED <<runningHandlers, receiving>>
  /\ UNCHANGED <<config, pc, traceVars, inputQueue, table, icmpVars, receiver,
                 icmp, faults, histVars>>

\* The handler answers, if it can, and counts itself out.  parseSyncPacket
\* takes any PTP packet for a SyncDelayReq.
HandlePacket(p) ==
  /\ receiver = "up" /\ Filing
  /\ receiving' = receiving \ {p}
  /\ IF config.MessageType = "signaling"
       THEN receiver' = "crashed" /\ UNCHANGED <<runningHandlers, icmp>>
       ELSE /\ icmp' \in {icmp, icmp \cup {p}}
            /\ runningHandlers' = runningHandlers - 1
            /\ UNCHANGED receiver
  /\ UNCHANGED <<config, pc, traceVars, inputQueue, table, icmpVars, toReceiver,
                 faults, histVars>>

Main == \/ Begin \/ BeginFails \/ SendProbe \/ SendFails \/ TakeReply \/ Timeout
        \/ TraceEnds \/ Pop \/ Popped \/ SleepForLate \/ StopMonitor \/ PrintTable

Monitor == ReadReply \/ ReadNoise

Next ==
  \/ Main \/ Monitor
  \/ \E p \in handlers : HandleIcmp(p)
  \/ \E sw \in blocked : Unblock(sw)
  \/ \E p \in toReceiver : ReceiverStart(p)
  \/ \E p \in receiving : HandlePacket(p)

\* The goroutines run on.  Of the network only this is assumed: some ICMP
\* packet arrives while the sender waits for monitorIcmp, as neighbour
\* discovery sees to on an IPv6 link.
Spec == Init /\ [][Next]_vars /\ WF_vars(Main) /\ WF_vars(Monitor)

(***************************************************************************)
(* Properties.                                                             *)
(***************************************************************************)
Packets == [flow : 1 .. Flows, hop : HopMin .. HopMax, route : 0 .. Flows - 1,
            copy : {0, 1}]
Infos == [ip : Hosts \cup {"receiver", Foreign}, cf : 0 .. HopMax, hop : 0 .. HopMax,
          route : 0 .. Flows - 1, flow : 0 .. Flows]

\* Type correctness.  No index is out of range and no limit exceeded: however
\* late a reply, its route is one begun before (a probe carries the index of
\* a route that exists when it is sent); and the receiver's counter is the
\* number of its handlers, so that its check for a negative count cannot fire.
TypeOK ==
  /\ pc \in {"begin", "probe", "wait", "pop", "late", "stop", "print", "done"}
  /\ flow <= Flows /\ \A r \in 1 .. flow : routes[r] \subseteq Infos
  /\ currentRoute \in 0 .. flow
  /\ hop \in (0 .. HopMax + 1) \cup {HopMin} /\ destHop \in 0 .. HopMax
  /\ destReached \in BOOLEAN
  /\ Len(inputQueue) <= QueueCap
  /\ \A i \in DOMAIN inputQueue : inputQueue[i] \in Infos
  /\ blocked \subseteq Infos
  /\ monitor \in {"select", "read", "gone"} /\ buf \in Packets \cup Noise
  /\ handlers \subseteq Packets \cup {General}
  /\ toReceiver \cup receiving \cup icmp \subseteq Packets
  /\ pc \in {"wait", "pop", "late"} =>
       \A i \in DOMAIN inputQueue : inputQueue[i].route < flow
  /\ receiver = "up" =>
       /\ runningHandlers = Cardinality(receiving)
       /\ runningHandlers <= PTPRecvHandlers

\* A reply is filed with the flow whose probe caused it, even if it arrives
\* while another flow is traced, unless an earlier trace failed (currentRoute
\* then lags behind the routes) or the shared buffer was overwritten before
\* the reply's handler looked at it.
OwnRoute ==
  (~failed /\ ~overwritten) =>
    \A r \in 1 .. flow : \A sw \in routes[r] : sw.flow \in {0, r}

\* Stopping at the destination leaves out no switch before it: a trace stops
\* early only when it has probed the destination itself, and the sweep, whose paths
\* are as long, probes every switch on the way to the rack; unless a trace
\* took the destination's answer to an earlier trace for its own.
WholePathProbed ==
  (pc \in {"probe", "wait"} /\ ~stale /\ ~overwritten) =>
    /\ destReached => hop - 1 > Len(Path[flow])
    /\ hopMax >= HopMax \/ hopMax >= Len(Path[flow])

\* The table is right about every switch it has a verdict on: with replies
\* lost, late, repeated and out of order, a switch shown as a transparent
\* clock is one and a switch shown as none is none, if no trace failed and
\* no handler read another's packet.
VerdictRight ==
  (pc = "done" /\ ~failed /\ ~overwritten) =>
    \A row \in table : /\ row.tc = "On" => row.host \in TC
                       /\ row.tc = "Off" => row.host \notin TC

\* The sender always finishes, whatever is lost.
Terminates == <>(pc = "done")

=============================================================================
