---------------------------- MODULE ZiffyProofs ----------------------------
(***************************************************************************)
(* Proofs of the safety properties of Ziffy for any flows, paths, hop      *)
(* limits and queue capacity, and whatever the network loses, delays or    *)
(* repeats.                                                                *)
(***************************************************************************)
EXTENDS Ziffy, FiniteSetTheorems, SequenceTheorems, TLAPS

-----------------------------------------------------------------------------
(* The inductive invariant                                                 *)
-----------------------------------------------------------------------------
Tracing == pc \in {"probe", "wait"}

TypeInv ==
  /\ config \in Settings
  /\ pc \in {"begin", "probe", "wait", "pop", "late", "stop", "print", "done"}
  /\ routes \in Seq(SUBSET Infos) /\ flow <= Flows
  /\ hop \in (0 .. HopMax + 1) \cup {HopMin} /\ destHop \in 0 .. HopMax
  /\ destReached \in BOOLEAN /\ failed \in BOOLEAN
  /\ overwritten \in BOOLEAN /\ stale \in BOOLEAN
  /\ monitor \in {"select", "read", "gone"}

(* Where the trace is: once one has failed, currentRoute lags behind.       *)
Trace ==
  /\ currentRoute \in 0 .. flow
  /\ Tracing => currentRoute < flow /\ hop >= HopMin
  /\ pc = "wait" => hop <= HopMax
  /\ pc # "begin" => flow >= 1
  /\ ~failed => currentRoute = IF Tracing THEN flow - 1 ELSE flow

(* The trace has come past hop h of flow f.                                 *)
Past(f, h) ==
  /\ f <= flow
  /\ f = flow => (pc = "probe" => h < hop) /\ (pc = "wait" => h <= hop)

(* A packet under way was sent by a trace, with its number and hop.         *)
Sent(p) ==
  /\ p \in Packets /\ Past(p.flow, p.hop) /\ p.route < flow
  /\ ~failed => p.route + 1 = p.flow
  /\ EndOf(p.flow, p.hop) \in Hosts \cup {"receiver"}

(* What a handler decoded is true of some probe, its switch and the         *)
(* correction made before it, or is of another kind of packet ...           *)
Genuine(sw) ==
  \/ sw.flow = 0 /\ sw.ip = Foreign /\ sw.hop = 0 /\ sw.cf = 0
  \/ /\ sw.flow >= 1 /\ sw.hop >= 1
     /\ sw.ip = EndOf(sw.flow, sw.hop) /\ sw.cf = Residence(sw.flow, sw.hop)

(* ... and the probe was sent by a trace, if the packet was the handler's   *)
(* own.                                                                    *)
Own(sw) ==
  /\ Genuine(sw)
  /\ sw.flow # 0 => Past(sw.flow, sw.hop) /\ (~failed => sw.route + 1 = sw.flow)
Read(sw) == sw \in Infos /\ sw.route < flow /\ (~overwritten => Own(sw))

Underway ==
  /\ \A p \in toReceiver \cup receiving \cup icmp : Sent(p)
  /\ \A p \in handlers : p = General \/ Sent(p)
  /\ \A p \in {buf} : p \in Noise \/ Sent(p)

Queued ==
  /\ inputQueue \in Seq(Infos) /\ Len(inputQueue) <= QueueCap
  /\ \A i \in 1 .. Len(inputQueue) : Read(inputQueue[i])
  /\ \A sw \in blocked : Read(sw)

Receiving ==
  /\ receiver \in {"up", "crashed"} /\ runningHandlers \in Int
  /\ toReceiver \cap receiving = {} /\ IsFiniteSet(receiving)
  /\ receiver = "up" => /\ runningHandlers = Cardinality(receiving)
                        /\ runningHandlers <= PTPRecvHandlers

(* The target is taken for reached only past the end of the path, and the   *)
(* distance noted is beyond the end of the path of some port's flow.        *)
Reached ==
  (~stale /\ ~overwritten) =>
    /\ (Tracing /\ destReached) => hop - 1 > Len(Path[flow])
    /\ destHop > 0 => \E g \in 1 .. config.PortCount : destHop > Len(Path[g])

(* What is filed says of its switch what is true of it.                     *)
Filed == ~overwritten => \A r \in 1 .. flow : \A sw \in routes[r] : Genuine(sw)

IInv == /\ TypeInv /\ Trace /\ Underway /\ Queued /\ Receiving
        /\ OwnRoute /\ Filed /\ Reached

(* The way to the rack's other addresses is no longer than the receiver's.  *)
SweepNoLonger ==
  \A c \in Settings : \A f \in 1 .. c.PortCount :
    \A g \in (c.PortCount + 1) .. FlowsOf(c) : Len(c.Path[g]) <= Len(c.Path[f])

-----------------------------------------------------------------------------
(* Facts about the operators                                               *)
-----------------------------------------------------------------------------
\* The numbers of a run.
LEMMA ConfigFacts ==
  ASSUME config \in Settings
  PROVE  /\ config.PortCount \in Nat \ {0} /\ HopMax \in Nat
         /\ Flows \in Nat \ {0} /\ config.PortCount <= Flows
         /\ HopMin \in Nat \ {0} /\ QueueCap \in Nat /\ PTPRecvHandlers \in Nat
         /\ \A f \in 1 .. Flows : Path[f] \in Seq(Hosts)
         /\ "receiver" \notin Hosts /\ "sweep" \notin Hosts /\ Foreign \notin Hosts
<1>1. /\ config.PortCount \in Nat \ {0} /\ config.IPCount \in Nat /\ config.HopMax \in Nat
      /\ DOMAIN config.Path = 1 .. FlowsOf(config)
      /\ {"receiver", "sweep", Foreign} \cap HostsOf(config) = {}
      /\ HopMin \in Nat \ {0} /\ QueueCap \in Nat /\ PTPRecvHandlers \in Nat
      /\ \A f \in DOMAIN config.Path : config.Path[f] \in Seq(HostsOf(config))
  BY ZiffyAssumption, Zenon
<1>2. config.PortCount * config.IPCount \in Nat
  BY <1>1
<1>3. Flows \in Nat \ {0} /\ config.PortCount <= Flows
  BY <1>1, <1>2 DEF Flows, FlowsOf
<1>4. \A f \in 1 .. Flows : Path[f] \in Seq(Hosts)
  BY <1>1, Zenon DEF Flows, Path, Hosts
<1>5. QED
  BY <1>1, <1>3, <1>4, Zenon DEF HopMax, Hosts

\* A packet is corrected once by each transparent clock before its last hop.
LEMMA ResidenceType ==
  ASSUME config \in Settings, NEW f \in 1 .. Flows, NEW h \in 1 .. HopMax
  PROVE  Residence(f, h) \in 0 .. HopMax
<1>1. /\ HopMax \in Nat /\ Flows \in Nat /\ Path[f] \in Seq(Hosts)
  BY ConfigFacts, Zenon
<1> DEFINE S == {i \in DOMAIN Path[f] : i < h /\ Path[f][i] \in TC}
<1>2. S \subseteq 1 .. (h - 1)
  BY <1>1
<1>3. IsFiniteSet(1 .. (h - 1)) /\ Cardinality(1 .. (h - 1)) = h - 1
  <2>1. h - 1 \in Nat
    BY <1>1
  <2>2. QED
    BY <2>1, FS_Interval
<1>4. Cardinality(S) \in Nat /\ Cardinality(S) <= h - 1
  BY <1>2, <1>3, FS_Subset, FS_CardinalityType, Zenon
<1>5. Residence(f, h) = Cardinality(S)
  BY Zenon DEF Residence
<1>6. QED
  BY <1>1, <1>4, <1>5

\* Where a probe ends.
LEMMA EndOfFacts ==
  ASSUME config \in Settings, NEW f \in 1 .. Flows, NEW h \in Nat \ {0},
         EndOf(f, h) = "receiver"
  PROVE  h > Len(Path[f])
<1>1. Path[f] \in Seq(Hosts) /\ "receiver" \notin Hosts
  BY ConfigFacts, Zenon
<1>2. CASE h <= Len(Path[f])
  BY <1>1, <1>2 DEF EndOf
<1>3. QED
  BY <1>1, <1>2

\* Noise is no packet of a trace.
LEMMA NoiseFacts ==
  ASSUME config \in Settings
  PROVE  /\ General \notin Packets /\ Other \notin Packets /\ Other # General
         /\ General.flow = 0 /\ Other.flow = 0
  BY ConfigFacts DEF General, Other, Reply, Packets

\* The run stays the same, and with it its sets and numbers.
LEMMA Fixed ==
  ASSUME config' = config
  PROVE  /\ Infos' = Infos /\ Packets' = Packets /\ Flows' = Flows /\ HopMax' = HopMax
         /\ Path' = Path /\ Hosts' = Hosts
         /\ \A f, h : EndOf(f, h)' = EndOf(f, h)
         /\ \A f, h : Residence(f, h)' = Residence(f, h)
         /\ \A sw : Genuine(sw)' = Genuine(sw)
<1>1. /\ Infos' = Infos /\ Packets' = Packets /\ Flows' = Flows /\ HopMax' = HopMax
      /\ Path' = Path /\ Hosts' = Hosts
      /\ \A f, h : EndOf(f, h)' = EndOf(f, h)
  BY Zenon DEF Infos, Packets, Flows, HopMax, Path, Hosts, EndOf, Dest
<1>2. \A f, h : Residence(f, h)' = Residence(f, h)
  BY <1>1, Zenon DEF Residence
<1>3. ASSUME NEW sw
      PROVE  Genuine(sw)' = Genuine(sw)
  BY <1>1, <1>2 DEF Genuine
<1>4. QED
  BY <1>1, <1>2, <1>3, Zenon

\* The first of the queue.
LEMMA HeadFacts ==
  ASSUME TypeInv, Queued, inputQueue # <<>>
  PROVE  /\ Read(Head(inputQueue)) /\ Tail(inputQueue) \in Seq(Infos)
         /\ Len(inputQueue) \in Nat \ {0} /\ Len(Tail(inputQueue)) = Len(inputQueue) - 1
         /\ \A i \in 1 .. Len(Tail(inputQueue)) :
              /\ i + 1 \in 1 .. Len(inputQueue) /\ Tail(inputQueue)[i] = inputQueue[i + 1]
<1>1. inputQueue \in Seq(Infos) /\ Len(inputQueue) \in Nat \ {0}
  BY DEF Queued
<1>2. Head(inputQueue) = inputQueue[1] /\ 1 \in 1 .. Len(inputQueue)
  BY <1>1
<1>3. Read(inputQueue[1])
  BY <1>2, Zenon DEF Queued
<1>4. /\ Tail(inputQueue) \in Seq(Infos) /\ Len(Tail(inputQueue)) = Len(inputQueue) - 1
      /\ \A i \in 1 .. Len(Tail(inputQueue)) :
              /\ i + 1 \in 1 .. Len(inputQueue) /\ Tail(inputQueue)[i] = inputQueue[i + 1]
  BY <1>1
<1>5. QED
  BY <1>1, <1>2, <1>3, <1>4, Zenon

\* Filing adds to a route begun before.
LEMMA FileFacts ==
  ASSUME TypeInv, NEW sw, Read(sw)
  PROVE  /\ File(sw) \in Seq(SUBSET Infos) /\ Len(File(sw)) = flow
         /\ ~overwritten =>
              \A r \in 1 .. flow : File(sw)[r] = IF r = sw.route + 1 THEN routes[r] \cup {sw}
                                                 ELSE routes[r]
<1>1. /\ routes \in Seq(SUBSET Infos) /\ flow \in Nat /\ flow = Len(routes)
      /\ config \in Settings
  BY DEF TypeInv, flow
<1>2. sw \in Infos /\ sw.route \in Nat /\ sw.route + 1 \in 1 .. flow
  <2>1. sw \in Infos /\ sw.route < flow
    BY Zenon DEF Read
  <2>2. sw.route \in 0 .. Flows - 1 /\ Flows \in Nat
    BY <1>1, <2>1, ConfigFacts, Zenon DEF Infos
  <2>3. QED
    BY <1>1, <2>1, <2>2
<1>3. CASE overwritten
  BY <1>1, <1>3, Zenon DEF File
<1>4. CASE ~overwritten
  <2> DEFINE k == sw.route + 1
             new == routes[k] \cup {sw}
  <2>1. routes[k] \in SUBSET Infos
    BY <1>1, <1>2
  <2>2. new \in SUBSET Infos
    BY <1>2, <2>1, Zenon
  <2>3. File(sw) = [routes EXCEPT ![k] = new]
    BY <1>4, Zenon DEF File
  <2>4. k \in 1 .. Len(routes)
    BY <1>1, <1>2, Zenon
  <2> HIDE DEF k, new
  <2>5. /\ File(sw) \in Seq(SUBSET Infos) /\ Len(File(sw)) = Len(routes)
        /\ \A r \in 1 .. Len(routes) : File(sw)[r] = IF r = k THEN new ELSE routes[r]
    BY <1>1, <2>2, <2>3, <2>4
  <2>6. QED
    BY <1>1, <2>5, Zenon DEF k, new
<1>5. QED
  BY <1>3, <1>4, Zenon

\* Another route is begun.
LEMMA AppendFacts ==
  ASSUME TypeInv
  PROVE  /\ Append(routes, {}) \in Seq(SUBSET Infos)
         /\ Len(Append(routes, {})) = flow + 1 /\ flow \in Nat
         /\ \A r \in 1 .. flow : Append(routes, {})[r] = routes[r]
         /\ Append(routes, {})[flow + 1] = {}
  BY DEF TypeInv, flow

-----------------------------------------------------------------------------
(* The trace                                                               *)
-----------------------------------------------------------------------------
(* What every step does to the trace: it goes on, hop by hop.               *)
Advances ==
  /\ config' = config /\ flow' \in Nat /\ flow' >= flow
  /\ (failed => failed') /\ (overwritten => overwritten')
  /\ flow' = flow =>
       /\ pc' = "probe" => \/ pc = "probe" /\ hop' = hop
                           \/ pc = "wait" /\ hop' = hop + 1
       /\ pc' = "wait" => Tracing /\ hop' = hop

(* The steps of the sender's main goroutine that file nothing.              *)
Quiet == \/ SendProbe \/ SendFails \/ Timeout \/ TraceEnds \/ Popped \/ SleepForLate
         \/ StopMonitor \/ PrintTable

(* The steps of the others.                                                *)
Others ==
  \/ Monitor
  \/ \E p \in handlers : HandleIcmp(p)
  \/ \E sw \in blocked : Unblock(sw)
  \/ \E p \in toReceiver : ReceiverStart(p)
  \/ \E p \in receiving : HandlePacket(p)

\* The others leave the trace alone.
LEMMA OthersFrame ==
  ASSUME IInv, Others
  PROVE  /\ UNCHANGED <<config, pc, routes, currentRoute, hop, destReached, destHop, failed,
                        stale>>
         /\ overwritten' \in BOOLEAN /\ (overwritten => overwritten')
         /\ monitor' \in {"select", "read", "gone"}
<1>1. UNCHANGED <<config, pc, routes, currentRoute, hop, destReached, destHop, failed, stale>>
  BY Zenon DEF Others, Monitor, ReadReply, ReadNoise, HandleIcmp, Unblock, ReceiverStart,
     HandlePacket, traceVars, histVars
<1>2. overwritten' = overwritten \/ \E p \in handlers : overwritten' = (overwritten \/ buf # p)
  BY Zenon DEF Others, Monitor, ReadReply, ReadNoise, HandleIcmp, Unblock, ReceiverStart,
     HandlePacket, histVars
<1>3. monitor' = monitor \/ monitor' = AfterRead
  BY Zenon DEF Others, Monitor, ReadReply, ReadNoise, HandleIcmp, Unblock, ReceiverStart,
     HandlePacket, icmpVars
<1>4. QED
  BY <1>1, <1>2, <1>3, Zenon DEF IInv, TypeInv, AfterRead

\* The trace, its numbers and their types, step by step.
LEMMA TraceStep ==
  ASSUME IInv, Next
  PROVE  Advances /\ TypeInv' /\ Trace'
<1> USE DEF IInv
<1>1. config \in Settings /\ flow \in Nat /\ flow = Len(routes) /\ flow' = Len(routes')
  BY DEF TypeInv, flow
<1>2. /\ config' = config /\ Infos' = Infos /\ Flows' = Flows /\ HopMax' = HopMax
  <2>1. config' = config
    BY Zenon DEF Next, Main, Begin, BeginFails, SendProbe, SendFails, TakeReply, Timeout,
       TraceEnds, Pop, Popped, SleepForLate, StopMonitor, PrintTable, Monitor, ReadReply,
       ReadNoise, HandleIcmp, Unblock, ReceiverStart, HandlePacket
  <2>2. QED
    BY <2>1, Fixed, Zenon
<1>3. /\ HopMax \in Nat /\ Flows \in Nat \ {0} /\ HopMin \in Nat \ {0}
  BY <1>1, ConfigFacts, Zenon
<1>4. CASE Others
  BY <1>1, <1>2, <1>4, OthersFrame DEF TypeInv, Trace, Advances, Tracing, flow
<1>5. CASE Begin
  <2>1. /\ flow' = flow + 1 /\ routes' \in Seq(SUBSET Infos) /\ flow < Flows
        /\ pc' = "probe" /\ hop' = HopMin /\ destReached' = FALSE /\ pc = "begin"
        /\ UNCHANGED <<currentRoute, destHop, failed, overwritten, stale, monitor>>
    BY <1>1, <1>5, AppendFacts, Zenon DEF Begin, histVars, icmpVars
  <2>2. Advances
    BY <1>1, <1>2, <2>1 DEF Advances
  <2>3. TypeInv'
    <3>1. hop' \in (0 .. HopMax + 1) \cup {HopMin} /\ flow' <= Flows
      BY <1>1, <1>3, <2>1
    <3>2. QED
      BY <1>1, <1>2, <2>1, <3>1, Zenon DEF TypeInv
  <2>4. Trace'
    BY <1>1, <1>2, <1>3, <2>1 DEF Trace, Tracing, TypeInv
  <2>5. QED
    BY <2>2, <2>3, <2>4, Zenon
<1>6. CASE BeginFails
  <2>1. /\ flow' = flow + 1 /\ routes' \in Seq(SUBSET Infos) /\ flow < Flows
        /\ pc' = "begin" /\ failed' = TRUE
        /\ UNCHANGED <<currentRoute, hop, destHop, destReached, overwritten, stale, monitor>>
    BY <1>1, <1>6, AppendFacts, Zenon DEF BeginFails, icmpVars
  <2>2. QED
    BY <1>1, <1>2, <1>3, <2>1 DEF TypeInv, Trace, Advances, Tracing
<1>7. CASE TakeReply
  <2>1. /\ pc = "wait" /\ pc' = "probe" /\ hop' = hop + 1
        /\ UNCHANGED <<currentRoute, failed, overwritten, monitor>>
        /\ destHop' = hop \/ destHop' = destHop
    BY <1>7, Zenon DEF TakeReply, icmpVars
  <2>2. /\ flow' = flow /\ routes' \in Seq(SUBSET Infos)
    BY <1>1, <1>7, HeadFacts, FileFacts, Zenon DEF TakeReply
  <2>3. destReached' \in BOOLEAN /\ stale' \in BOOLEAN
    BY <1>7, Zenon DEF TakeReply, TypeInv
  <2>4. destHop' \in 0 .. HopMax /\ hop' \in 0 .. HopMax + 1
    BY <1>3, <2>1 DEF TypeInv, Trace, Tracing
  <2>5. QED
    BY <1>1, <1>2, <1>3, <2>1, <2>2, <2>3, <2>4 DEF TypeInv, Trace, Advances, Tracing
<1>8. CASE Pop
  <2>1. UNCHANGED <<pc, currentRoute, hop, destReached, destHop, failed, overwritten, stale,
                    monitor>> /\ pc \in {"pop", "late"}
    BY <1>8, Zenon DEF Pop, icmpVars, histVars
  <2>2. /\ flow' = flow /\ routes' \in Seq(SUBSET Infos)
    BY <1>1, <1>8, HeadFacts, FileFacts, Zenon DEF Pop
  <2>3. QED
    BY <1>1, <1>2, <1>3, <2>1, <2>2 DEF TypeInv, Trace, Advances, Tracing
<1>9. CASE Quiet
  <2>1. UNCHANGED <<routes, destReached, destHop, overwritten, stale>>
    BY <1>9, Zenon DEF Quiet, SendProbe, SendFails, Timeout, TraceEnds, Popped, SleepForLate,
       StopMonitor, PrintTable, traceVars, histVars
  <2>2. flow' = flow
    BY <2>1, Zenon DEF flow
  <2>3. monitor' = monitor \/ monitor' = "gone"
    BY <1>9, Zenon DEF Quiet, SendProbe, SendFails, Timeout, TraceEnds, Popped, SleepForLate,
       StopMonitor, PrintTable, icmpVars
  <2>4. CASE SendProbe
    <3>1. /\ pc = "probe" /\ hop <= hopMax /\ pc' = "wait"
          /\ UNCHANGED <<currentRoute, hop, failed>>
      BY <2>4, Zenon DEF SendProbe, GoesOn, traceVars, histVars
    <3>2. hopMax <= HopMax
      BY <1>3 DEF hopMax, TypeInv
    <3>3. QED
      BY <1>1, <1>2, <1>3, <2>1, <2>2, <2>3, <3>1, <3>2 DEF TypeInv, Trace, Advances, Tracing,
         hopMax
  <2>5. CASE SendFails
    <3>1. pc = "probe" /\ pc' = "begin" /\ failed' = TRUE /\ UNCHANGED <<currentRoute, hop>>
      BY <2>5, Zenon DEF SendFails, traceVars
    <3>2. QED
      BY <1>1, <1>2, <1>3, <2>1, <2>2, <2>3, <3>1 DEF TypeInv, Trace, Advances, Tracing
  <2>6. CASE Timeout
    <3>1. pc = "wait" /\ pc' = "probe" /\ hop' = hop + 1 /\ UNCHANGED <<currentRoute, failed>>
      BY <2>6, Zenon DEF Timeout, histVars
    <3>2. QED
      BY <1>1, <1>2, <1>3, <2>1, <2>2, <2>3, <3>1 DEF TypeInv, Trace, Advances, Tracing
  <2>7. CASE TraceEnds
    <3>1. /\ pc = "probe" /\ pc' = "pop" /\ currentRoute' = currentRoute + 1
          /\ UNCHANGED <<hop, failed>>
      BY <2>7, Zenon DEF TraceEnds, histVars
    <3>2. QED
      BY <1>1, <1>2, <1>3, <2>1, <2>2, <2>3, <3>1 DEF TypeInv, Trace, Advances, Tracing
  <2>8. CASE Popped \/ SleepForLate \/ StopMonitor \/ PrintTable
    <3>1. UNCHANGED <<currentRoute, hop, failed>>
      BY <2>8, Zenon DEF Popped, SleepForLate, StopMonitor, PrintTable, traceVars, histVars
    <3>2. /\ pc \in {"begin", "pop", "late", "stop", "print"}
          /\ pc' \in {"begin", "late", "stop", "print", "done"}
          /\ pc = "begin" => flow >= 1
      BY <1>1, <1>3, <2>8 DEF Popped, SleepForLate, StopMonitor, PrintTable
    <3>3. QED
      BY <1>1, <1>2, <1>3, <2>1, <2>2, <2>3, <3>1, <3>2 DEF TypeInv, Trace, Advances, Tracing
  <2>9. QED
    BY <1>9, <2>4, <2>5, <2>6, <2>7, <2>8, Zenon DEF Quiet
<1>10. QED
  BY <1>4, <1>5, <1>6, <1>7, <1>8, <1>9, Zenon DEF Next, Main, Quiet, Others

-----------------------------------------------------------------------------
(* Packets and replies under way                                           *)
-----------------------------------------------------------------------------
\* What the trace has come past stays behind it.
LEMMA PastFrame ==
  ASSUME IInv, Advances, NEW f \in Int, NEW h \in Int, Past(f, h)
  PROVE  Past(f, h)'
<1>1. flow \in Nat /\ hop \in Int
  <2>1. config \in Settings /\ routes \in Seq(SUBSET Infos)
    BY Zenon DEF IInv, TypeInv
  <2>2. HopMax \in Nat /\ HopMin \in Nat
    BY <2>1, ConfigFacts, Zenon
  <2>3. QED
    BY <2>1, <2>2 DEF IInv, TypeInv, flow
<1>2. CASE flow' = flow
  BY <1>1, <1>2 DEF Past, Advances, Tracing
<1>3. CASE flow' # flow
  BY <1>1, <1>3 DEF Past, Advances
<1>4. QED
  BY <1>2, <1>3, Zenon

\* A packet sent is a packet sent.
LEMMA SentFrame ==
  ASSUME IInv, Advances, NEW p, Sent(p)
  PROVE  Sent(p)'
<1>1. config' = config /\ config \in Settings
  BY Zenon DEF Advances, IInv, TypeInv
<1>2. p \in Packets /\ p.flow \in Int /\ p.hop \in Int /\ p.route \in Int
  BY <1>1, ConfigFacts DEF Sent, Packets
<1>3. Past(p.flow, p.hop)'
  BY <1>2, PastFrame, Zenon DEF Sent
<1>4. p.route < flow'
  <2>1. flow \in Nat /\ flow' \in Nat /\ flow' >= flow
    BY DEF Advances, IInv, TypeInv, flow
  <2>2. QED
    BY <1>2, <2>1 DEF Sent
<1>5. /\ p \in Packets'
      /\ (EndOf(p.flow, p.hop) \in Hosts \cup {"receiver"})'
      /\ ~failed' => p.route + 1 = p.flow
  BY <1>1, Fixed, Zenon DEF Sent, Advances
<1>6. QED
  BY <1>3, <1>4, <1>5, Zenon DEF Sent

\* The same of what has been decoded, unless a handler reads another's packet.
LEMMA ReadFrame ==
  ASSUME IInv, Advances, NEW sw, Read(sw)
  PROVE  Read(sw)'
<1>1. config' = config /\ config \in Settings
  BY Zenon DEF Advances, IInv, TypeInv
<1>2. sw \in Infos /\ sw.flow \in Int /\ sw.hop \in Int /\ sw.route \in Int
  BY <1>1, ConfigFacts DEF Read, Infos
<1>3. sw.route < flow'
  <2>1. flow \in Nat /\ flow' \in Nat /\ flow' >= flow
    BY DEF Advances, IInv, TypeInv, flow
  <2>2. QED
    BY <1>2, <2>1 DEF Read
<1>4. Past(sw.flow, sw.hop) => Past(sw.flow, sw.hop)'
  BY <1>2, PastFrame, Zenon
<1>5. ASSUME ~overwritten'
      PROVE  Own(sw)'
  <2>1. Own(sw)
    BY <1>5, Zenon DEF Read, Advances
  <2>2. QED
    BY <1>1, <1>4, <2>1, Fixed, Zenon DEF Own, Advances
<1>6. QED
  BY <1>1, <1>2, <1>3, <1>5, Fixed, Zenon DEF Read

\* The probe of this hop, in as many copies as the network makes of it.
LEMMA ProbeSent ==
  ASSUME IInv, SendProbe, Advances, NEW c \in {0, 1},
         EndOf(flow, hop) \in Hosts \cup {"receiver"},
         NEW p, p = Reply(flow, hop, currentRoute, c)
  PROVE  Sent(p)' /\ p \notin toReceiver \cup receiving
<1>1. config' = config /\ config \in Settings
  BY Zenon DEF Advances, IInv, TypeInv
<1>2. /\ pc = "probe" /\ pc' = "wait" /\ hop' = hop /\ flow' = flow /\ failed' = failed
      /\ hop <= hopMax
  BY Zenon DEF SendProbe, GoesOn, traceVars, histVars, flow
<1>3. /\ HopMax \in Nat /\ Flows \in Nat \ {0} /\ HopMin \in Nat \ {0}
  BY <1>1, ConfigFacts, Zenon
<1>4. /\ flow \in 1 .. Flows /\ currentRoute \in 0 .. flow - 1 /\ hop \in Int
      /\ hop >= HopMin /\ (~failed => currentRoute = flow - 1)
  BY <1>2, <1>3 DEF IInv, TypeInv, Trace, Tracing, flow
<1>5. hop \in HopMin .. HopMax
  BY <1>2, <1>3, <1>4 DEF hopMax, IInv, TypeInv
<1>6. /\ p.flow = flow /\ p.hop = hop /\ p.route = currentRoute
  BY Zenon DEF Reply
<1>7. p \in Packets
  BY <1>3, <1>4, <1>5 DEF Reply, Packets
<1>8. Past(p.flow, p.hop)'
  BY <1>2, <1>4, <1>6 DEF Past
<1>9. (EndOf(p.flow, p.hop) \in Hosts \cup {"receiver"})'
  BY <1>1, <1>2, <1>6, Fixed, Zenon
<1>10. /\ p.route < flow'
       /\ ~failed' => p.route + 1 = p.flow
  BY <1>2, <1>4, <1>6
<1>11. Sent(p)'
  BY <1>1, <1>7, <1>8, <1>9, <1>10, Fixed, Zenon DEF Sent
<1>12. ASSUME p \in toReceiver \cup receiving
       PROVE  FALSE
  <2>1. Sent(p)
    BY <1>12, Zenon DEF IInv, Underway
  <2>2. QED
    BY <1>2, <1>4, <1>6, <2>1 DEF Sent, Past
<1>13. QED
  BY <1>11, <1>12, Zenon

\* A handler decodes: what it sends on was sent by a trace, or is noise.
LEMMA DecodedRead ==
  ASSUME IInv, NEW p \in handlers, HandleIcmp(p), Advances, buf # Other,
         NEW sw, sw = Decoded(p)
  PROVE  Read(sw)'
<1>1. config' = config /\ config \in Settings
  BY Zenon DEF Advances, IInv, TypeInv
<1>2. /\ HopMax \in Nat /\ Flows \in Nat \ {0} /\ HopMin \in Nat \ {0}
  BY <1>1, ConfigFacts, Zenon
<1>3. p = General \/ Sent(p)
  BY Zenon DEF IInv, Underway
<1>4. buf = General \/ Sent(buf)
  BY Zenon DEF IInv, Underway, Noise
<1>5. Source(p) \in Hosts \cup {"receiver", Foreign}
  BY <1>3, Zenon DEF Source, Sent
<1>6. flow \in Nat /\ flow >= 1 /\ UNCHANGED <<pc, hop, flow, failed>>
  BY DEF HandleIcmp, Filing, traceVars, IInv, TypeInv, Trace, flow
<1>7. overwritten' = (overwritten \/ buf # p)
  BY Zenon DEF HandleIcmp
<1>8. CASE buf = General
  <2>1. /\ sw.ip = Source(p) /\ sw.route = 0 /\ sw.flow = 0 /\ sw.hop = 0 /\ sw.cf = 0
    BY <1>8, Zenon DEF Decoded
  <2>2. sw \in Infos
    BY <1>2, <1>5, <1>8 DEF Decoded, Infos
  <2>3. ~overwritten' => sw.ip = Foreign
    BY <1>7, <1>8, <2>1, Zenon DEF Source
  <2>4. sw.route < flow'
    BY <1>6, <2>1
  <2>5. QED
    BY <1>1, <2>1, <2>2, <2>3, <2>4, Fixed, Zenon DEF Read, Own, Genuine
<1>9. CASE buf # General
  <2>1. Sent(buf) /\ buf \in Packets
    BY <1>4, <1>9, Zenon DEF Sent
  <2>2. /\ buf.flow \in 1 .. Flows /\ buf.hop \in HopMin .. HopMax
        /\ buf.route \in 0 .. Flows - 1
    BY <2>1, Zenon DEF Packets
  <2>3. Residence(buf.flow, buf.hop) \in 0 .. HopMax
    BY <1>1, <1>2, <2>2, ResidenceType
  <2>4. sw = [ip |-> Source(p), cf |-> Residence(buf.flow, buf.hop), hop |-> buf.hop,
              route |-> buf.route, flow |-> buf.flow]
    BY <1>9, Zenon DEF Decoded
  <2>5. sw \in Infos
    BY <1>2, <1>5, <2>2, <2>3, <2>4 DEF Infos
  <2>6. /\ sw.ip = Source(p) /\ sw.hop = buf.hop /\ sw.route = buf.route
        /\ sw.flow = buf.flow /\ sw.cf = Residence(sw.flow, sw.hop)
    BY <2>4
  <2>7. sw.route < flow'
    BY <1>6, <2>1, <2>6, Zenon DEF Sent
  <2>8. ASSUME ~overwritten'
        PROVE  Own(sw)'
    <3>1. p = buf /\ Source(p) = EndOf(sw.flow, sw.hop)
      BY <1>7, <1>9, <2>6, <2>8, Zenon DEF Source
    <3>2. sw.flow >= 1 /\ sw.hop >= 1
      BY <1>2, <2>2, <2>6
    <3>3. Past(buf.flow, buf.hop) /\ (~failed => buf.route + 1 = buf.flow)
      BY <2>1, Zenon DEF Sent
    <3>4. Past(sw.flow, sw.hop)'
      <4>1. Past(sw.flow, sw.hop)
        BY <2>6, <3>3, Zenon
      <4>2. sw.flow \in Int /\ sw.hop \in Int
        BY <1>2, <2>2, <2>6
      <4>3. QED
        BY <4>1, <4>2, PastFrame, Zenon
    <3>5. ~failed' => sw.route + 1 = sw.flow
      BY <1>6, <2>6, <3>3, Zenon
    <3>6. Genuine(sw)'
      <4>1. Genuine(sw)
        BY <2>6, <3>1, <3>2, Zenon DEF Genuine
      <4>2. QED
        BY <1>1, <4>1, Fixed, Zenon
    <3>7. QED
      BY <3>4, <3>5, <3>6, Zenon DEF Own
  <2>9. QED
    BY <1>1, <2>5, <2>7, <2>8, Fixed, Zenon DEF Read
<1>10. QED
  BY <1>8, <1>9, Zenon

\* Packets stay packets of a trace, and the shared buffer holds one or noise.
LEMMA UnderwayStep ==
  ASSUME IInv, Next, Advances
  PROVE  Underway'
<1>1. \A p : Sent(p) => Sent(p)'
  BY SentFrame, Zenon
<1>2. /\ \A p \in toReceiver \cup receiving \cup icmp : Sent(p)
      /\ \A p \in handlers : p = General \/ Sent(p)
      /\ \A p \in {buf} : p \in Noise \/ Sent(p)
  BY Zenon DEF IInv, Underway
<1>3. /\ \A p \in toReceiver \cup receiving \cup icmp : Sent(p)'
      /\ \A p \in handlers : p = General \/ Sent(p)'
      /\ \A p \in {buf} : p \in Noise \/ Sent(p)'
  BY <1>1, <1>2, Zenon
<1>4. ASSUME \A p \in toReceiver' \cup receiving' \cup icmp' :
               p \in toReceiver \cup receiving \cup icmp,
             handlers' \subseteq handlers, buf' = buf \/ buf' = Other
      PROVE  Underway'
  BY <1>3, <1>4, Zenon DEF Underway, Noise
<1>5. CASE SendProbe
  <2>1. UNCHANGED <<receiving, handlers, buf>>
    BY <1>5, Zenon DEF SendProbe, icmpVars, receiverVars
  <2>2. CASE UNCHANGED netVars
    BY <1>4, <2>1, <2>2, Zenon DEF netVars
  <2>3. CASE ~UNCHANGED netVars
    <3>1. PICK more \in {0, 1} :
             /\ EndOf(flow, hop) \in Hosts \cup {"receiver"}
             /\ toReceiver' \cup icmp' \subseteq toReceiver \cup icmp \cup
                  {Reply(flow, hop, currentRoute, c) : c \in 0 .. more}
      BY <1>5, <2>3, Zenon DEF SendProbe, Forward
    <3>2. ASSUME NEW c \in 0 .. more, NEW p, p = Reply(flow, hop, currentRoute, c)
          PROVE  Sent(p)'
      <4>1. c \in {0, 1}
        OBVIOUS
      <4>2. QED
        BY <1>5, <3>1, <3>2, <4>1, ProbeSent, Zenon
    <3>3. \A p \in toReceiver' \cup receiving' \cup icmp' : Sent(p)'
      BY <1>3, <2>1, <3>1, <3>2, Zenon
    <3>4. QED
      BY <1>3, <2>1, <3>3, Zenon DEF Underway
  <2>4. QED
    BY <2>2, <2>3, Zenon
<1>6. CASE Main /\ ~SendProbe
  <2>1. UNCHANGED <<toReceiver, receiving, icmp, handlers, buf>>
    BY <1>6, Zenon DEF Main, Begin, BeginFails, SendFails, TakeReply, Timeout, TraceEnds,
       Pop, Popped, SleepForLate, StopMonitor, PrintTable, icmpVars, receiverVars, netVars
  <2>2. QED
    BY <1>4, <2>1, Zenon
<1>7. CASE ReadReply
  <2>1. PICK p \in icmp : icmp' = icmp \ {p} /\ buf' = p /\ handlers' = handlers \cup {p}
    BY <1>7, Zenon DEF ReadReply
  <2>2. UNCHANGED <<toReceiver, receiving>>
    BY <1>7, Zenon DEF ReadReply, receiverVars
  <2>3. QED
    BY <1>3, <2>1, <2>2, Zenon DEF Underway
<1>8. CASE ReadNoise
  <2>1. PICK p \in Noise : /\ buf' = buf \/ buf' = p
                           /\ handlers' = handlers \cup ({p} \ {Other})
    BY <1>8, Zenon DEF ReadNoise, Noise
  <2>2. UNCHANGED <<toReceiver, receiving, icmp>>
    BY <1>8, Zenon DEF ReadNoise, receiverVars
  <2>3. \A q \in {p} \ {Other} : q = General
    BY Zenon DEF Noise
  <2>4. QED
    BY <1>3, <2>1, <2>2, <2>3, Zenon DEF Underway
<1>9. ASSUME NEW p \in handlers, HandleIcmp(p)
      PROVE  Underway'
  BY <1>4, <1>9, Zenon DEF HandleIcmp, receiverVars, netVars
<1>10. ASSUME NEW sw \in blocked, Unblock(sw)
       PROVE  Underway'
  BY <1>4, <1>10, Zenon DEF Unblock, receiverVars, netVars
<1>11. ASSUME NEW p \in toReceiver, ReceiverStart(p)
       PROVE  Underway'
  BY <1>4, <1>11, Zenon DEF ReceiverStart, icmpVars
<1>12. ASSUME NEW p \in receiving, HandlePacket(p)
       PROVE  Underway'
  BY <1>4, <1>12, Zenon DEF HandlePacket, icmpVars
<1>13. QED
  BY <1>5, <1>6, <1>7, <1>8, <1>9, <1>10, <1>11, <1>12, Zenon DEF Next, Monitor

\* What waits to be filed.
LEMMA QueuedStep ==
  ASSUME IInv, Next, Advances
  PROVE  Queued'
<1>1. \A sw : Read(sw) => Read(sw)'
  BY ReadFrame, Zenon
<1>2. /\ \A i \in 1 .. Len(inputQueue) : Read(inputQueue[i])
      /\ \A sw \in blocked : Read(sw)'
      /\ inputQueue \in Seq(Infos) /\ Len(inputQueue) \in Nat /\ Len(inputQueue) <= QueueCap
      /\ QueueCap \in Nat
  BY <1>1, ConfigFacts DEF IInv, TypeInv, Queued
<1>3. Infos' = Infos
  BY Fixed, Zenon DEF Advances
<1>4. ASSUME inputQueue' = inputQueue, blocked' \subseteq blocked
      PROVE  Queued'
  <2>1. ASSUME NEW i \in 1 .. Len(inputQueue')
        PROVE  Read(inputQueue[i])'
    <3>1. PICK sw : sw = inputQueue[i] /\ sw = inputQueue'[i]
      BY <1>4, Zenon
    <3>2. Read(sw)'
      BY <1>1, <1>2, <1>4, <3>1, Zenon
    <3>3. QED
      BY <3>1, <3>2, Zenon
  <2>2. QED
    BY <1>2, <1>3, <1>4, <2>1, Zenon DEF Queued
<1>5. ASSUME NEW sw, Read(sw)', inputQueue' = Append(inputQueue, sw),
             Len(inputQueue) < QueueCap, blocked' \subseteq blocked
      PROVE  Queued'
  <2>1. sw \in Infos
    BY <1>3, <1>5, Zenon DEF Read
  <2>2. /\ inputQueue' \in Seq(Infos) /\ Len(inputQueue') = Len(inputQueue) + 1
        /\ \A i \in 1 .. Len(inputQueue) : inputQueue'[i] = inputQueue[i]
        /\ inputQueue'[Len(inputQueue) + 1] = sw
    BY <1>2, <1>5, <2>1
  <2>3. ASSUME NEW i \in 1 .. Len(inputQueue')
        PROVE  Read(inputQueue[i])'
    <3>1. PICK tw : tw = inputQueue'[i]
      BY Zenon
    <3>2. Read(tw)'
      <4>1. CASE i \in 1 .. Len(inputQueue)
        BY <1>1, <1>2, <2>2, <3>1, <4>1, Zenon
      <4>2. CASE i = Len(inputQueue) + 1
        BY <1>5, <2>2, <3>1, <4>2, Zenon
      <4>3. QED
        BY <1>2, <2>2, <4>1, <4>2
    <3>3. QED
      BY <3>1, <3>2, Zenon
  <2>4. Len(inputQueue') <= QueueCap
    BY <1>2, <1>5, <2>2
  <2>5. QED
    BY <1>2, <1>3, <1>5, <2>2, <2>3, <2>4, Zenon DEF Queued
<1>6. CASE TakeReply \/ Pop
  <2>1. inputQueue # <<>> /\ inputQueue' = Tail(inputQueue) /\ blocked' = blocked
    BY <1>6, Zenon DEF TakeReply, Pop, icmpVars
  <2>2. /\ inputQueue' \in Seq(Infos) /\ Len(inputQueue') = Len(inputQueue) - 1
        /\ \A i \in 1 .. Len(inputQueue') :
             i + 1 \in 1 .. Len(inputQueue) /\ inputQueue'[i] = inputQueue[i + 1]
    BY <2>1, HeadFacts, Zenon DEF IInv
  <2>3. ASSUME NEW i \in 1 .. Len(inputQueue')
        PROVE  Read(inputQueue[i])'
    <3>1. PICK sw : sw = inputQueue[i + 1] /\ sw = inputQueue'[i]
      BY <2>2, Zenon
    <3>2. Read(sw)'
      BY <1>1, <1>2, <2>2, <3>1, Zenon
    <3>3. QED
      BY <3>1, <3>2, Zenon
  <2>4. Len(inputQueue') <= QueueCap
    BY <1>2, <2>2
  <2>5. QED
    BY <1>2, <1>3, <2>1, <2>2, <2>3, <2>4, Zenon DEF Queued
<1>7. ASSUME NEW p \in handlers, HandleIcmp(p)
      PROVE  Queued'
  <2>1. CASE buf = Other
    BY <1>4, <1>7, <2>1, Zenon DEF HandleIcmp
  <2>2. CASE buf # Other
    <3>1. PICK sw : sw = Decoded(p)
      BY Zenon
    <3>2. Read(sw)'
      BY <1>7, <2>2, <3>1, DecodedRead, Zenon
    <3>3. CASE Len(inputQueue) < QueueCap
      BY <1>5, <1>7, <2>2, <3>1, <3>2, <3>3, Zenon DEF HandleIcmp
    <3>4. CASE ~(Len(inputQueue) < QueueCap)
      <4>1. inputQueue' = inputQueue /\ blocked' = blocked \cup {sw}
        BY <1>7, <2>2, <3>1, <3>4, Zenon DEF HandleIcmp
      <4>2. \A tw \in blocked' : Read(tw)'
        BY <1>2, <3>2, <4>1, Zenon
      <4>3. ASSUME NEW i \in 1 .. Len(inputQueue')
            PROVE  Read(inputQueue[i])'
        <5>1. PICK tw : tw = inputQueue[i] /\ tw = inputQueue'[i]
          BY <4>1, Zenon
        <5>2. Read(tw)'
          BY <1>1, <1>2, <4>1, <5>1, Zenon
        <5>3. QED
          BY <5>1, <5>2, Zenon
      <4>4. QED
        BY <1>2, <1>3, <4>1, <4>2, <4>3, Zenon DEF Queued
    <3>5. QED
      BY <3>3, <3>4, Zenon
  <2>3. QED
    BY <2>1, <2>2, Zenon
<1>8. ASSUME NEW sw \in blocked, Unblock(sw)
      PROVE  Queued'
  BY <1>2, <1>5, <1>8, Zenon DEF Unblock
<1>9. CASE Main /\ ~TakeReply /\ ~Pop
  BY <1>4, <1>9, Zenon DEF Main, Begin, BeginFails, SendProbe, SendFails, Timeout, TraceEnds,
     Popped, SleepForLate, StopMonitor, PrintTable, icmpVars
<1>10. CASE \/ Monitor \/ (\E p \in toReceiver : ReceiverStart(p))
            \/ (\E p \in receiving : HandlePacket(p))
  BY <1>4, <1>10, Zenon DEF Monitor, ReadReply, ReadNoise, ReceiverStart, HandlePacket,
     icmpVars
<1>11. QED
  BY <1>6, <1>7, <1>8, <1>9, <1>10, Zenon DEF Next

-----------------------------------------------------------------------------
(* The receiver                                                            *)
-----------------------------------------------------------------------------
\* The counter of the receiver is the number of its handlers, and a packet is
\* handed to one of them once.
LEMMA ReceivingStep ==
  ASSUME IInv, Next, Advances
  PROVE  Receiving'
<1>1. /\ receiver \in {"up", "crashed"} /\ runningHandlers \in Int
      /\ toReceiver \cap receiving = {} /\ IsFiniteSet(receiving)
      /\ receiver = "up" => /\ runningHandlers = Cardinality(receiving)
                            /\ runningHandlers <= PTPRecvHandlers
      /\ Cardinality(receiving) \in Nat /\ PTPRecvHandlers \in Nat
  BY FS_CardinalityType, ConfigFacts, Zenon DEF IInv, TypeInv, Receiving
<1>2. CASE SendProbe
  <2>1. UNCHANGED <<receiver, runningHandlers, receiving>>
    BY <1>2, Zenon DEF SendProbe, receiverVars
  <2>2. toReceiver' \cap receiving = {}
    <3>1. CASE UNCHANGED toReceiver
      BY <1>1, <3>1, Zenon
    <3>2. CASE ~UNCHANGED toReceiver
      <4>1. PICK more \in {0, 1} :
               /\ EndOf(flow, hop) = "receiver"
               /\ toReceiver' = toReceiver \cup
                    {Reply(flow, hop, currentRoute, c) : c \in 0 .. more}
        BY <1>2, <3>2, Zenon DEF SendProbe, Forward, netVars
      <4>2. ASSUME NEW c \in 0 .. more, NEW p, p = Reply(flow, hop, currentRoute, c)
            PROVE  p \notin receiving
        <5>1. c \in {0, 1} /\ EndOf(flow, hop) \in Hosts \cup {"receiver"}
          BY <4>1
        <5>2. QED
          BY <1>2, <4>2, <5>1, ProbeSent, Zenon
      <4>3. QED
        BY <1>1, <4>1, <4>2, Zenon
    <3>3. QED
      BY <3>1, <3>2, Zenon
  <2>3. QED
    BY <1>1, <2>1, <2>2, Zenon DEF Receiving
<1>3. ASSUME NEW p \in toReceiver, ReceiverStart(p)
      PROVE  Receiving'
  <2>1. p \notin receiving /\ receiver = "up" /\ receiver' = receiver
        /\ toReceiver' = toReceiver \ {p}
    BY <1>1, <1>3, Zenon DEF ReceiverStart
  <2>2. CASE Admits
    <3>1. runningHandlers' = runningHandlers + 1 /\ receiving' = receiving \cup {p}
      BY <1>3, <2>2, Zenon DEF ReceiverStart
    <3>2. IsFiniteSet(receiving') /\ Cardinality(receiving') = Cardinality(receiving) + 1
      BY <1>1, <2>1, <3>1, FS_AddElement, Zenon
    <3>3. toReceiver' \cap receiving' = {}
      BY <1>1, <2>1, <3>1, Zenon
    <3>4. runningHandlers < PTPRecvHandlers
      BY <1>1, <2>1, <2>2, Zenon DEF Admits
    <3>5. QED
      BY <1>1, <2>1, <3>1, <3>2, <3>3, <3>4 DEF Receiving
  <2>3. CASE ~Admits
    <3>1. UNCHANGED <<runningHandlers, receiving>>
      BY <1>3, <2>3, Zenon DEF ReceiverStart
    <3>2. toReceiver' \cap receiving' = {}
      BY <1>1, <2>1, <3>1, Zenon
    <3>3. QED
      BY <1>1, <2>1, <3>1, <3>2, Zenon DEF Receiving
  <2>4. QED
    BY <2>2, <2>3, Zenon
<1>4. ASSUME NEW p \in receiving, HandlePacket(p)
      PROVE  Receiving'
  <2>1. receiver = "up" /\ receiving' = receiving \ {p} /\ toReceiver' = toReceiver
    BY <1>4, Zenon DEF HandlePacket
  <2>2. /\ IsFiniteSet(receiving') /\ Cardinality(receiving') = Cardinality(receiving) - 1
        /\ toReceiver' \cap receiving' = {}
    BY <1>1, <2>1, FS_RemoveElement, Zenon
  <2>3. \/ receiver' = "crashed" /\ runningHandlers' = runningHandlers
        \/ receiver' = "up" /\ runningHandlers' = runningHandlers - 1
    BY <1>4, <2>1, Zenon DEF HandlePacket
  <2>4. QED
    BY <1>1, <2>1, <2>2, <2>3 DEF Receiving
<1>5. CASE UNCHANGED <<receiver, runningHandlers, receiving, toReceiver>>
  BY <1>1, <1>5, Zenon DEF Receiving
<1>6. CASE \/ Main /\ ~SendProbe
           \/ Monitor \/ (\E p \in handlers : HandleIcmp(p))
           \/ (\E sw \in blocked : Unblock(sw))
  BY <1>5, <1>6, Zenon DEF Main, Begin, BeginFails, SendFails, TakeReply, Timeout, TraceEnds,
     Pop, Popped, SleepForLate, StopMonitor, PrintTable, Monitor, ReadReply, ReadNoise,
     HandleIcmp, Unblock, receiverVars, netVars
<1>7. QED
  BY <1>2, <1>3, <1>4, <1>6, Zenon DEF Next

-----------------------------------------------------------------------------
(* Where replies are filed, and how far a trace goes                       *)
-----------------------------------------------------------------------------
\* Filing the first of the queue keeps every route its own, and true.
LEMMA FileOwn ==
  ASSUME IInv, Advances, inputQueue # <<>>, routes' = File(Head(inputQueue)),
         UNCHANGED <<failed, overwritten>>
  PROVE  OwnRoute' /\ Filed'
<1> DEFINE sw == Head(inputQueue)
<1>1. Read(sw)
  BY HeadFacts, Zenon DEF IInv
<1> HIDE DEF sw
<1>2. ASSUME ~failed, ~overwritten
      PROVE  \A r \in 1 .. flow' : \A tw \in routes'[r] : tw.flow \in {0, r}
  <2>1. /\ flow' = flow
        /\ \A r \in 1 .. flow : routes'[r] = IF r = sw.route + 1 THEN routes[r] \cup {sw}
                                             ELSE routes[r]
    BY <1>1, <1>2, FileFacts, Zenon DEF IInv, flow, sw
  <2>2. sw.flow = 0 \/ sw.flow = sw.route + 1
    BY <1>1, <1>2, Zenon DEF Read, Own
  <2>3. \A r \in 1 .. flow : \A tw \in routes[r] : tw.flow \in {0, r}
    BY <1>2, Zenon DEF IInv, OwnRoute
  <2>4. ASSUME NEW r \in 1 .. flow, NEW tw \in routes'[r]
        PROVE  tw.flow \in {0, r}
    <3>1. CASE r = sw.route + 1 /\ tw = sw
      BY <2>2, <3>1, Zenon
    <3>2. CASE tw \in routes[r]
      BY <2>3, <3>2, Zenon
    <3>3. QED
      BY <2>1, <2>4, <3>1, <3>2, Zenon
  <2>5. QED
    BY <2>1, <2>4, Zenon
<1>3. ASSUME ~overwritten
      PROVE  \A r \in 1 .. flow' : \A tw \in routes'[r] : Genuine(tw)'
  <2>1. /\ flow' = flow
        /\ \A r \in 1 .. flow : routes'[r] = IF r = sw.route + 1 THEN routes[r] \cup {sw}
                                             ELSE routes[r]
    BY <1>1, <1>3, FileFacts, Zenon DEF IInv, flow, sw
  <2>2. Genuine(sw) /\ \A tw : Genuine(tw)' = Genuine(tw)
    BY <1>1, <1>3, Fixed, Zenon DEF Read, Own, Advances
  <2>3. \A r \in 1 .. flow : \A tw \in routes[r] : Genuine(tw)
    BY <1>3, Zenon DEF IInv, Filed
  <2>4. ASSUME NEW r \in 1 .. flow, NEW tw \in routes'[r]
        PROVE  Genuine(tw)
    <3>1. CASE tw = sw
      BY <2>2, <3>1, Zenon
    <3>2. CASE tw \in routes[r]
      BY <2>3, <3>2, Zenon
    <3>3. QED
      BY <2>1, <2>4, <3>1, <3>2, Zenon
  <2>5. QED
    BY <2>1, <2>2, <2>4, Zenon
<1>4. QED
  BY <1>2, <1>3, Zenon DEF OwnRoute, Filed

\* Every reply is filed with its own flow, and as it came.
LEMMA OwnStep ==
  ASSUME IInv, Next, Advances
  PROVE  OwnRoute' /\ Filed'
<1>0. \A sw : Genuine(sw)' = Genuine(sw)
  BY Fixed, Zenon DEF Advances
<1>1. CASE TakeReply \/ Pop
  BY <1>1, FileOwn, Zenon DEF TakeReply, Pop, histVars
<1>2. CASE Begin \/ BeginFails
  <2>1. routes' = Append(routes, {}) /\ overwritten' = overwritten
    BY <1>2, Zenon DEF Begin, BeginFails, histVars
  <2>2. /\ flow' = flow + 1 /\ flow \in Nat
        /\ \A r \in 1 .. flow : routes'[r] = routes[r]
        /\ routes'[flow + 1] = {}
    BY <2>1, AppendFacts, Zenon DEF IInv, flow
  <2>3. ASSUME ~failed', ~overwritten', NEW r \in 1 .. flow', NEW sw \in routes'[r]
        PROVE  sw.flow \in {0, r}
    <3>1. ~failed /\ ~overwritten
      BY <2>1, <2>3, Zenon DEF Advances
    <3>2. r \in 1 .. flow /\ sw \in routes[r]
      BY <2>2, <2>3
    <3>3. QED
      BY <3>1, <3>2, Zenon DEF IInv, OwnRoute
  <2>4. ASSUME ~overwritten', NEW r \in 1 .. flow', NEW sw \in routes'[r]
        PROVE  Genuine(sw)'
    <3>1. r \in 1 .. flow /\ sw \in routes[r]
      BY <2>2, <2>4
    <3>2. QED
      BY <1>0, <2>1, <2>4, <3>1, Zenon DEF IInv, Filed
  <2>5. QED
    BY <2>3, <2>4, Zenon DEF OwnRoute, Filed
<1>3. CASE routes' = routes
  <2>1. OwnRoute'
    BY <1>3, Zenon DEF IInv, OwnRoute, Advances, flow
  <2>2. flow' = flow /\ (~overwritten' => ~overwritten)
    BY <1>3, Zenon DEF Advances, flow
  <2>3. ASSUME ~overwritten', NEW r \in 1 .. flow', NEW sw \in routes'[r]
        PROVE  Genuine(sw)'
    BY <1>0, <1>3, <2>2, <2>3, Zenon DEF IInv, Filed
  <2>4. QED
    BY <2>1, <2>3, Zenon DEF Filed
<1>4. CASE Others
  BY <1>3, <1>4, OthersFrame, Zenon
<1>5. CASE Quiet
  BY <1>3, <1>5, Zenon DEF Quiet, SendProbe, SendFails, Timeout, TraceEnds, Popped,
     SleepForLate, StopMonitor, PrintTable, traceVars
<1>6. QED
  BY <1>1, <1>2, <1>4, <1>5, Zenon DEF Next, Main, Quiet, Others

\* The target's own answer comes from beyond the path.
LEMMA ReachedStep ==
  ASSUME IInv, Next, Advances
  PROVE  Reached'
<1>1. /\ config' = config /\ config \in Settings /\ Path' = Path
  BY Fixed, Zenon DEF Advances, IInv, TypeInv
<1>2. /\ HopMax \in Nat /\ Flows \in Nat \ {0} /\ HopMin \in Nat \ {0} /\ flow \in Nat
      /\ config.PortCount \in Nat \ {0} /\ hop \in Int /\ destHop \in Int
      /\ flow <= Flows
  BY <1>1, ConfigFacts DEF IInv, TypeInv, flow
<1>3. CASE TakeReply
  <2> DEFINE sw == Head(inputQueue)
  <2>1. Read(sw)
    BY <1>3, HeadFacts, Zenon DEF IInv, TakeReply
  <2> HIDE DEF sw
  <2>2. /\ pc = "wait" /\ pc' = "probe" /\ hop' = hop + 1 /\ overwritten' = overwritten
        /\ destReached' = (destReached \/ sw.ip = Dest(flow))
        /\ destHop' = IF sw.ip = Dest(flow) THEN hop ELSE destHop
        /\ stale' = (stale \/ (sw.ip = Dest(flow) /\ sw.flow # flow))
    BY <1>3, Zenon DEF TakeReply, sw
  <2>3. flow' = flow /\ flow >= 1
    <3>1. routes' = File(sw)
      BY <1>3, Zenon DEF TakeReply, sw
    <3>2. QED
      BY <2>1, <2>2, <3>1, FileFacts, Zenon DEF IInv, flow, Trace
  <2>4. ASSUME ~stale', ~overwritten'
        PROVE  /\ destReached' => hop > Len(Path[flow])
               /\ destHop' > 0 => \E g \in 1 .. config.PortCount : destHop' > Len(Path[g])
    <3>1. ~stale /\ ~overwritten
      BY <2>2, <2>4, Zenon
    <3>2. /\ destReached => hop - 1 > Len(Path[flow])
          /\ destHop > 0 => \E g \in 1 .. config.PortCount : destHop > Len(Path[g])
      BY <2>2, <3>1, Zenon DEF IInv, Reached, Tracing
    <3>3. Path[flow] \in Seq(Hosts) /\ Len(Path[flow]) \in Nat
      BY <1>1, <1>2, <2>3, ConfigFacts
    <3>4. CASE sw.ip = Dest(flow)
      <4>1. sw.flow = flow /\ Own(sw) /\ sw \in Infos
        BY <2>1, <2>2, <2>4, <3>1, <3>4, Zenon DEF Read
      <4>2. Past(flow, sw.hop) /\ sw.ip = EndOf(flow, sw.hop)
        BY <1>2, <2>3, <4>1 DEF Own, Genuine
      <4>3. sw.hop \in Nat /\ sw.hop <= hop
        BY <1>2, <2>2, <4>1, <4>2 DEF Past, Infos
      <4>4. sw.ip \in Hosts \cup {"receiver", Foreign} /\ "sweep" \notin Hosts
        BY <1>1, <4>1, ConfigFacts, Zenon DEF Infos
      <4>5. sw.ip # "sweep"
        BY <4>4, Zenon DEF Foreign
      <4>6. sw.ip = "receiver" /\ flow <= config.PortCount
        BY <3>4, <4>5, Zenon DEF Dest
      <4>7. sw.hop > Len(Path[flow])
        <5>1. flow \in 1 .. Flows /\ sw.hop \in Nat \ {0}
          BY <1>2, <2>3, <4>1, <4>3 DEF Own, Genuine
        <5>2. EndOf(flow, sw.hop) = "receiver"
          BY <4>2, <4>6, Zenon
        <5>3. QED
          BY <1>1, <5>1, <5>2, EndOfFacts, Zenon
      <4>8. hop > Len(Path[flow]) /\ destHop' = hop
        BY <1>2, <2>2, <3>3, <3>4, <4>3, <4>7
      <4>9. flow \in 1 .. config.PortCount
        BY <1>2, <2>3, <4>6
      <4>10. QED
        BY <4>8, <4>9, Zenon
    <3>5. CASE sw.ip # Dest(flow)
      <4>1. destReached' = destReached /\ destHop' = destHop
        BY <2>2, <3>5, Zenon DEF IInv, TypeInv
      <4>2. destReached => hop > Len(Path[flow])
        BY <1>2, <3>2, <3>3
      <4>3. QED
        BY <3>2, <4>1, <4>2, Zenon
    <3>6. QED
      BY <3>4, <3>5, Zenon
  <2>5. QED
    BY <1>1, <1>2, <2>2, <2>3, <2>4 DEF Reached
<1>4. CASE Begin
  <2>1. /\ destReached' = FALSE /\ UNCHANGED <<destHop, overwritten, stale>>
    BY <1>4, Zenon DEF Begin, histVars
  <2>2. QED
    BY <1>1, <2>1, Zenon DEF IInv, Reached
<1>5. CASE UNCHANGED <<destHop, stale>> /\ ~(Tracing' /\ flow' # flow)
             /\ destReached' = destReached /\ flow' \in Nat
  <2>1. ASSUME ~stale', ~overwritten'
        PROVE  ~stale /\ ~overwritten
    BY <1>5, <2>1, Zenon DEF Advances
  <2>2. ASSUME ~stale', ~overwritten', Tracing', destReached'
        PROVE  hop' - 1 > Len(Path'[flow'])
    <3>1. flow' = flow /\ destReached
      BY <1>5, <2>2, Zenon
    <3>2. Tracing /\ (hop' = hop \/ hop' = hop + 1)
      BY <2>2, <3>1, Zenon DEF Advances, Tracing
    <3>3. hop - 1 > Len(Path[flow])
      BY <2>1, <2>2, <3>1, <3>2, Zenon DEF IInv, Reached
    <3>4. Len(Path[flow]) \in Nat
      <4>1. flow \in 1 .. Flows
        BY <1>2, <3>2 DEF IInv, Trace, Tracing
      <4>2. Path[flow] \in Seq(Hosts)
        BY <1>1, <4>1, ConfigFacts, Zenon
      <4>3. QED
        BY <4>2
    <3>5. QED
      BY <1>1, <1>2, <3>1, <3>2, <3>3, <3>4
  <2>3. ASSUME ~stale', ~overwritten', destHop' > 0
        PROVE  \E g \in 1 .. config'.PortCount : destHop' > Len(Path'[g])
    BY <1>1, <1>5, <2>1, <2>3, Zenon DEF IInv, Reached
  <2>4. QED
    BY <2>2, <2>3, Zenon DEF Reached
<1>6. CASE BeginFails
  <2>1. UNCHANGED <<destHop, stale, destReached, pc>> /\ pc = "begin"
    BY <1>6, Zenon DEF BeginFails
  <2>2. QED
    BY <1>5, <2>1, Zenon DEF Tracing, Advances
<1>7. CASE Pop
  <2>1. UNCHANGED <<destHop, stale, destReached>>
    BY <1>7, Zenon DEF Pop, histVars
  <2>2. pc' \in {"pop", "late"}
    BY <1>7, Zenon DEF Pop
  <2>3. QED
    BY <1>5, <2>1, <2>2, Zenon DEF Tracing, Advances
<1>8. CASE Quiet
  <2>1. UNCHANGED <<destHop, stale, destReached, routes>>
    BY <1>8, Zenon DEF Quiet, SendProbe, SendFails, Timeout, TraceEnds, Popped,
       SleepForLate, StopMonitor, PrintTable, traceVars, histVars
  <2>2. QED
    BY <1>5, <2>1, Zenon DEF flow, Advances
<1>9. CASE Others
  BY <1>5, <1>9, OthersFrame, Zenon DEF flow, Advances
<1>10. QED
  BY <1>3, <1>4, <1>6, <1>7, <1>8, <1>9, Zenon DEF Next, Main, Quiet, Others

-----------------------------------------------------------------------------
(* Induction and recursion over the numbers                                *)
-----------------------------------------------------------------------------
\* Every set of numbers that is not empty has a least one.
LEMMA Least ==
  ASSUME NEW T \in SUBSET Nat, T # {}
  PROVE  \E x \in T : \A y \in T : x <= y
<1> DEFINE R == OpToRel(<, Nat)
<1>1. IsWellFoundedOn(R, Nat)
  BY NatLessThanWellFounded
<1>2. R = {ss \in Nat \X Nat : ss[1] < ss[2]}
  BY DEF R, OpToRel
<1> HIDE DEF R
<1>3. \A x, y \in Nat : <<y, x>> \in R <=> y < x
  BY <1>2
<1>4. PICK x \in T : \A y \in T : ~ (<<y, x>> \in R)
  BY <1>1, WFMin
<1>5. \A y \in T : ~ (y < x) /\ x \in Nat /\ y \in Nat
  BY <1>3, <1>4
<1>6. QED
  BY <1>5

\* Induction: a set that has 0, and with each number the next one, has them all.
LEMMA Induction ==
  ASSUME NEW T, 0 \in T, \A n \in Nat : n \in T => n + 1 \in T
  PROVE  Nat \subseteq T
<1> DEFINE U == Nat \ T
<1>1. SUFFICES ASSUME U # {} PROVE FALSE
  BY Zenon
<1>2. U \in SUBSET Nat
  OBVIOUS
<1> HIDE DEF U
<1>3. PICK x \in U : \A y \in U : x <= y
  BY <1>1, <1>2, Least, Zenon
<1>4. x \in Nat /\ x \notin T /\ x # 0
  BY DEF U
<1>5. x - 1 \in Nat /\ (x - 1) + 1 = x
  BY <1>4
<1>6. x - 1 \notin T
  BY <1>4, <1>5, Zenon
<1>7. x - 1 \in U
  BY <1>5, <1>6, Zenon DEF U
<1>8. x <= x - 1
  BY <1>3, <1>7, Zenon
<1>9. QED
  BY <1>4, <1>8

(* f begins with b, and g is the way from each of its values to the next.    *)
Recursive(f, S, b, g) ==
  f \in [Nat -> S] /\ f[0] = b /\ \A n \in Nat : f[n + 1] = g[<<n, f[n]>>]

\* Recursion: a first value and a way from each value to the next one make a
\* function.
LEMMA Recursion ==
  ASSUME NEW S, NEW b \in S, NEW g \in [Nat \X S -> S]
  PROVE  \E f : Recursive(f, S, b, g)
<1> DEFINE Good(k, a) == /\ a \in [0 .. k -> S] /\ a[0] = b
                         /\ \A i \in 0 .. (k - 1) : a[i + 1] = g[<<i, a[i]>>]
           T == {k \in Nat : \E a : Good(k, a)}
<1>1. 0 \in T
  <2>1. Good(0, [i \in 0 .. 0 |-> b])
    OBVIOUS
  <2>2. QED
    BY <2>1
<1>2. ASSUME NEW k \in Nat, k \in T
      PROVE  k + 1 \in T
  <2>1. PICK a : Good(k, a)
    BY <1>2
  <2> DEFINE c == [i \in 0 .. k + 1 |-> IF i = k + 1 THEN g[<<k, a[k]>>] ELSE a[i]]
  <2>2. a[k] \in S /\ g[<<k, a[k]>>] \in S
    BY <2>1
  <2>3. c \in [0 .. k + 1 -> S]
    BY <2>1, <2>2
  <2>4. c[0] = b
    BY <2>1
  <2>5. ASSUME NEW i \in 0 .. (k + 1) - 1
        PROVE  c[i + 1] = g[<<i, c[i]>>]
    <3>1. CASE i = k
      <4>1. c[k + 1] = g[<<k, a[k]>>] /\ c[k] = a[k]
        OBVIOUS
      <4>2. QED
        BY <3>1, <4>1, Zenon
    <3>2. CASE i # k
      <4>1. i \in 0 .. k - 1 /\ i + 1 \in 0 .. k + 1 /\ i \in 0 .. k + 1 /\ i + 1 # k + 1 /\ i # k + 1
        BY <3>2
      <4>2. c[i + 1] = a[i + 1] /\ c[i] = a[i] /\ a[i + 1] = g[<<i, a[i]>>]
        BY <2>1, <4>1
      <4>3. QED
        BY <4>2
    <3>3. QED
      BY <3>1, <3>2
  <2> HIDE DEF c
  <2>6. Good(k + 1, c)
    BY <2>3, <2>4, <2>5
  <2>7. QED
    BY <2>6
<1>3. \A k \in Nat : \E a : Good(k, a)
  <2> HIDE DEF Good
  <2>1. Nat \subseteq T
    <3> HIDE DEF T
    <3>1. QED
      BY <1>1, <1>2, Induction
  <2>2. QED
    BY <2>1
<1> DEFINE A(k) == CHOOSE a : Good(k, a)
<1>4. \A k \in Nat : Good(k, A(k))
  <2> HIDE DEF Good
  <2>1. QED
    BY <1>3
<1> HIDE DEF A
<1>5. \A k \in Nat : A(k)[k] = A(k + 1)[k]
  <2> SUFFICES ASSUME NEW k \in Nat PROVE A(k)[k] = A(k + 1)[k]
    OBVIOUS
  <2> DEFINE V == {i \in Nat : i <= k => A(k)[i] = A(k + 1)[i]}
  <2>1. Good(k, A(k)) /\ Good(k + 1, A(k + 1))
    BY <1>4
  <2>2. 0 \in V
    BY <2>1
  <2>3. ASSUME NEW i \in Nat, i \in V
        PROVE  i + 1 \in V
    <3>1. CASE i + 1 <= k
      <4>1. A(k)[i + 1] = g[<<i, A(k)[i]>>] /\ A(k + 1)[i + 1] = g[<<i, A(k + 1)[i]>>]
        BY <2>1, <3>1
      <4>2. A(k)[i] = A(k + 1)[i]
        BY <2>3, <3>1
      <4>3. QED
        BY <4>1, <4>2
    <3>2. CASE ~(i + 1 <= k)
      BY <3>2
    <3>3. QED
      BY <3>1, <3>2
  <2>4. Nat \subseteq V
    <3> HIDE DEF V
    <3>1. QED
      BY <2>2, <2>3, Induction
  <2>5. QED
    BY <2>4
<1> DEFINE f == [n \in Nat |-> A(n)[n]]
<1>6. f \in [Nat -> S] /\ f[0] = b
  BY <1>4
<1>7. ASSUME NEW n \in Nat
      PROVE  f[n + 1] = g[<<n, f[n]>>]
  <2>1. A(n + 1)[n + 1] = g[<<n, A(n + 1)[n]>>]
    BY <1>4
  <2>2. f[n + 1] = A(n + 1)[n + 1] /\ f[n] = A(n)[n]
    OBVIOUS
  <2>3. QED
    BY <1>5, <2>1, <2>2, Zenon
<1> HIDE DEF f
<1>8. Recursive(f, S, b, g)
  BY <1>6, <1>7 DEF Recursive
<1>9. QED
  BY <1>8, Zenon

-----------------------------------------------------------------------------
(* The table                                                               *)
-----------------------------------------------------------------------------
(* What one transparent clock adds, the model's unit, is above the threshold. *)
ClocksShow == cfThreshold < 1

(* What a switch adds to the correction field.                             *)
Added(host) == IF host \in TC THEN 1 ELSE 0

(* What the loop over the routes knows of a switch.                        *)
Tallies == [totalCF : Int, divRoutes : Nat, routes : Nat, last : BOOLEAN]

(* The average is what the switch adds, once a path through it is counted.   *)
TallyOf(host, sw) ==
  /\ sw.routes = 0 => sw.divRoutes = 0 /\ ~sw.last
  /\ sw.routes > 0 => /\ sw.divRoutes >= 1
                      /\ ~sw.last => sw.totalCF = IF host \in TC THEN sw.divRoutes ELSE 0

\* Only switches are transparent clocks.
LEMMA NoOtherClocks ==
  "receiver" \notin TC /\ "sweep" \notin TC /\ Foreign \notin TC
<1>1. /\ TC \subseteq UNION {HostsOf(c) : c \in Settings}
      /\ \A c \in Settings : {"receiver", "sweep", Foreign} \cap HostsOf(c) = {}
  BY ZiffyAssumption, Zenon
<1>2. QED
  BY <1>1, Zenon

\* One hop on, a packet has what the switch of this hop adds, and no more.
LEMMA ResidenceStep ==
  ASSUME config \in Settings, NEW f \in 1 .. Flows, NEW h \in Nat \ {0}
  PROVE  /\ Residence(f, h) \in Nat /\ Residence(f, 1) = 0
         /\ Residence(f, h + 1) = Residence(f, h) + Added(EndOf(f, h))
<1>1. Path[f] \in Seq(Hosts)
  BY ConfigFacts, Zenon
<1> DEFINE S(k) == {i \in DOMAIN Path[f] : i < k /\ Path[f][i] \in TC}
<1>2. \A k : Residence(f, k) = Cardinality(S(k))
  BY Zenon DEF Residence
<1>3. IsFiniteSet(S(h)) /\ Cardinality(S(h)) \in Nat
  <2>1. S(h) \subseteq 1 .. Len(Path[f]) /\ Len(Path[f]) \in Nat
    BY <1>1
  <2>2. IsFiniteSet(1 .. Len(Path[f]))
    BY <2>1, FS_Interval
  <2>3. QED
    BY <2>1, <2>2, FS_Subset, FS_CardinalityType, Zenon
<1>4. S(1) = {}
  BY <1>1
<1>5. CASE h <= Len(Path[f]) /\ Path[f][h] \in TC
  <2>1. S(h + 1) = S(h) \cup {h} /\ h \notin S(h)
    BY <1>1, <1>5
  <2>2. Cardinality(S(h + 1)) = Cardinality(S(h)) + 1
    BY <1>3, <2>1, FS_AddElement, Zenon
  <2>3. Added(EndOf(f, h)) = 1
    BY <1>5, Zenon DEF Added, EndOf
  <2>4. QED
    BY <1>2, <1>3, <1>4, <2>2, <2>3, FS_EmptySet, Zenon
<1>6. CASE ~(h <= Len(Path[f]) /\ Path[f][h] \in TC)
  <2>1. S(h + 1) = S(h)
    BY <1>1, <1>6
  <2>2. Added(EndOf(f, h)) = 0
    BY <1>6, NoOtherClocks, Zenon DEF Added, EndOf, Dest
  <2>3. Cardinality(S(h)) + 0 = Cardinality(S(h))
    BY <1>3
  <2>4. QED
    BY <1>2, <1>3, <1>4, <2>1, <2>2, <2>3, FS_EmptySet, Zenon
<1>7. QED
  BY <1>5, <1>6, Zenon

\* The difference taken at a hop of a cleared path is what its switch adds.
LEMMA CorrFieldFacts ==
  ASSUME IInv, ~failed, ~overwritten, NEW r \in 1 .. flow,
         NEW p \in clearPath(routes[r]), NEW h \in DOMAIN p
  PROVE  /\ isLast(p, h) \in BOOLEAN
         /\ corrField(p, h) = IF isLast(p, h) THEN 0 ELSE Added(p[h].ip)
<1>1. /\ config \in Settings /\ Flows \in Nat /\ flow \in Nat /\ r \in 1 .. Flows
      /\ routes[r] \in SUBSET Infos /\ HopMax \in Nat
  BY ConfigFacts DEF IInv, TypeInv, flow
<1>2. /\ DOMAIN p = HopsOf(routes[r])
      /\ \A g \in DOMAIN p : p[g] \in routes[r] /\ p[g].hop = g
  BY Zenon DEF clearPath
<1>3. \A g \in DOMAIN p :
        /\ g \in Nat
        /\ g = 0 => p[g].ip = Foreign /\ p[g].cf = 0
        /\ g # 0 => p[g].ip = EndOf(r, g) /\ p[g].cf = Residence(r, g)
  <2> SUFFICES ASSUME NEW g \in DOMAIN p
               PROVE  /\ g \in Nat
                      /\ g = 0 => p[g].ip = Foreign /\ p[g].cf = 0
                      /\ g # 0 => p[g].ip = EndOf(r, g) /\ p[g].cf = Residence(r, g)
    BY Zenon
  <2> DEFINE sw == p[g]
  <2>1. sw \in routes[r] /\ sw.hop = g
    BY <1>2, Zenon
  <2> HIDE DEF sw
  <2>2. Genuine(sw) /\ sw.flow \in {0, r} /\ sw \in Infos
    BY <1>1, <2>1, Zenon DEF IInv, OwnRoute, Filed
  <2>3. sw.hop \in Nat
    BY <1>1, <2>2 DEF Infos
  <2>4. CASE sw.flow = 0
    <3>1. sw.ip = Foreign /\ sw.hop = 0 /\ sw.cf = 0
      BY <2>2, <2>4 DEF Genuine
    <3>2. QED
      BY <2>1, <2>3, <3>1, Zenon DEF sw
  <2>5. CASE sw.flow = r
    <3>1. sw.hop # 0 /\ sw.ip = EndOf(r, sw.hop) /\ sw.cf = Residence(r, sw.hop)
      BY <1>1, <2>2, <2>3, <2>5 DEF Genuine
    <3>2. QED
      BY <2>1, <2>3, <3>1, Zenon DEF sw
  <2>6. QED
    BY <2>2, <2>4, <2>5, Zenon
<1>4. CASE isLast(p, h)
  BY <1>4, Zenon DEF isLast, corrField
<1>5. CASE ~isLast(p, h)
  <2>1. h + 1 \in DOMAIN p
    BY <1>5, Zenon DEF isLast
  <2>2. nextHop(p, h) = h + 1
    <3> DEFINE G == {g \in DOMAIN p : g > h}
    <3>1. h + 1 \in G /\ \A g \in G : g \in Nat /\ h + 1 <= g
      BY <1>3, <2>1
    <3>2. Min(G) \in G /\ \A g \in G : Min(G) <= g
      BY <3>1, Zenon DEF Min
    <3> HIDE DEF G
    <3>3. Min(G) = h + 1
      <4>1. Min(G) <= h + 1 /\ h + 1 <= Min(G) /\ Min(G) \in Nat
        BY <3>1, <3>2, Zenon
      <4>2. h \in Nat
        BY <1>3, Zenon
      <4>3. QED
        BY <4>1, <4>2
    <3>4. QED
      BY <3>3, Zenon DEF nextHop, G
  <2>3. corrField(p, h) = p[h + 1].cf - p[h].cf
    BY <1>5, <2>2, Zenon DEF corrField
  <2>4. p[h + 1].cf = Residence(r, h + 1) /\ h \in Nat
    BY <1>3, <2>1
  <2>5. CASE h = 0
    <3>1. Residence(r, h + 1) = 0 /\ p[h].cf = 0 /\ p[h].ip = Foreign
      <4>1. Residence(r, 1) = 0
        BY <1>1, ResidenceStep
      <4>2. QED
        BY <1>3, <2>5, <4>1
    <3>2. Added(p[h].ip) = 0
      BY <3>1, NoOtherClocks, Zenon DEF Added
    <3>3. QED
      BY <1>5, <2>3, <2>4, <3>1, <3>2 DEF isLast
  <2>6. CASE h # 0
    <3>1. p[h].cf = Residence(r, h) /\ p[h].ip = EndOf(r, h)
      BY <1>3, <2>6, Zenon
    <3>2. /\ Residence(r, h) \in Nat
          /\ Residence(r, h + 1) = Residence(r, h) + Added(p[h].ip)
      BY <1>1, <2>4, <2>6, <3>1, ResidenceStep
    <3>3. Added(p[h].ip) \in Int
      BY DEF Added
    <3>4. corrField(p, h) = Added(p[h].ip)
      BY <2>3, <2>4, <3>1, <3>2, <3>3
    <3>5. QED
      BY <1>5, <3>4, Zenon DEF isLast
  <2>7. QED
    BY <2>5, <2>6, Zenon
<1>6. QED
  BY <1>4, <1>5, Zenon

(* The difference taken at hop h of a path is what the switch there adds.    *)
Adds(p, host, h) ==
  /\ isLast(p, h) \in BOOLEAN
  /\ corrField(p, h) = IF isLast(p, h) THEN 0 ELSE Added(host)

(* A path goes through the switch.                                         *)
Through(p, host, h) == h \in DOMAIN p /\ p[h].ip = host

\* One more path through the switch.
LEMMA CountedFacts ==
  ASSUME NEW sw \in Tallies, NEW p, NEW h, NEW host, Adds(p, host, h), TallyOf(host, sw)
  PROVE  /\ Counted(sw, p, h) \in Tallies /\ Counted(sw, p, h).routes > 0
         /\ TallyOf(host, Counted(sw, p, h))
<1> DEFINE cf == corrField(p, h)
           l == isLast(p, h)
           tw == Counted(sw, p, h)
<1>1. /\ sw.totalCF \in Int /\ sw.divRoutes \in Nat /\ sw.routes \in Nat
      /\ sw.last \in BOOLEAN
  BY DEF Tallies
<1>2. cf \in Int /\ l \in BOOLEAN /\ cf = IF l THEN 0 ELSE IF host \in TC THEN 1 ELSE 0
  BY DEF Adds, Added
<1>3. tw = IF sw.routes = 0
             THEN [totalCF |-> cf, divRoutes |-> 1, routes |-> 1, last |-> l]
             ELSE [totalCF |-> sw.totalCF + cf,
                   divRoutes |-> sw.divRoutes + IF l THEN 0 ELSE 1,
                   routes |-> sw.routes + 1, last |-> sw.last]
  BY Zenon DEF Counted
<1> HIDE DEF cf, l, tw
<1>4. CASE sw.routes = 0
  <2>1. tw = [totalCF |-> cf, divRoutes |-> 1, routes |-> 1, last |-> l]
    BY <1>3, <1>4, Zenon
  <2>2. /\ tw \in Tallies /\ tw.totalCF = cf /\ tw.divRoutes = 1 /\ tw.routes = 1
        /\ tw.last = l
    BY <1>2, <2>1 DEF Tallies
  <2>3. QED
    BY <1>2, <2>2 DEF tw, TallyOf
<1>5. CASE sw.routes # 0
  <2>1. tw = [totalCF |-> sw.totalCF + cf, divRoutes |-> sw.divRoutes + IF l THEN 0 ELSE 1,
              routes |-> sw.routes + 1, last |-> sw.last]
    BY <1>3, <1>5, Zenon
  <2>2. /\ tw \in Tallies /\ tw.totalCF = sw.totalCF + cf
        /\ tw.divRoutes = sw.divRoutes + IF l THEN 0 ELSE 1
        /\ tw.routes = sw.routes + 1 /\ tw.last = sw.last
    BY <1>1, <1>2, <2>1 DEF Tallies
  <2>3. /\ sw.divRoutes >= 1
        /\ ~sw.last => sw.totalCF = IF host \in TC THEN sw.divRoutes ELSE 0
    BY <1>1, <1>5 DEF TallyOf
  <2>4. QED
    BY <1>1, <1>2, <2>2, <2>3 DEF tw, TallyOf
<1>6. QED
  BY <1>4, <1>5, Zenon DEF tw

\* The loop over the routes: if on every path through it the switch adds what it
\* adds, or no difference can be taken, so do its sum and its count, and the
\* switch has been counted if a path goes through it.
LEMMA DiscoveredFacts ==
  ASSUME NEW paths, NEW host, NEW h, flow \in Nat,
         \A r \in 1 .. flow : Through(paths[r], host, h) => Adds(paths[r], host, h)
  PROVE  LET sw == discovered(paths, host, h)
         IN  /\ sw \in Tallies /\ TallyOf(host, sw)
             /\ (\E r \in 1 .. flow : Through(paths[r], host, h)) => sw.routes > 0
<1> DEFINE zero == [totalCF |-> 0, divRoutes |-> 0, routes |-> 0, last |-> FALSE]
           S == {sw \in Tallies : TallyOf(host, sw)}
           Step(r, sw) == IF Through(paths[r], host, h) THEN Counted(sw, paths[r], h) ELSE sw
           g == [ns \in Nat \X S |-> IF ns[1] + 1 <= flow THEN Step(ns[1] + 1, ns[2])
                                     ELSE ns[2]]
           Eqn(f) == f = [r \in 0 .. flow |-> IF r = 0 THEN zero ELSE Step(r, f[r - 1])]
           after == CHOOSE f : Eqn(f)
<1>1. zero \in S
  BY DEF Tallies, TallyOf
<1>2. ASSUME NEW r \in 1 .. flow, NEW sw \in S
      PROVE  /\ Step(r, sw) \in S
             /\ Through(paths[r], host, h) => Step(r, sw).routes > 0
             /\ sw.routes > 0 => Step(r, sw).routes > 0
  <2>1. sw \in Tallies /\ TallyOf(host, sw)
    BY <1>2, Zenon
  <2>2. CASE Through(paths[r], host, h)
    <3>1. /\ Counted(sw, paths[r], h) \in Tallies /\ Counted(sw, paths[r], h).routes > 0
          /\ TallyOf(host, Counted(sw, paths[r], h))
      BY <2>1, <2>2, CountedFacts, Zenon
    <3>2. QED
      BY <2>2, <3>1, Zenon
  <2>3. CASE ~Through(paths[r], host, h)
    BY <2>1, <2>3, Zenon
  <2>4. QED
    BY <2>2, <2>3, Zenon
<1>3. g \in [Nat \X S -> S]
  <2>1. ASSUME NEW n \in Nat, NEW sw \in S
        PROVE  (IF n + 1 <= flow THEN Step(n + 1, sw) ELSE sw) \in S
    <3> HIDE DEF Step, S
    <3>1. CASE n + 1 <= flow
      <4>1. n + 1 \in 1 .. flow
        BY <3>1
      <4>2. QED
        BY <1>2, <3>1, <4>1, Zenon
    <3>2. QED
      BY <3>1, Zenon
  <2> HIDE DEF Step, S
  <2>2. QED
    BY <2>1
<1>4. PICK f : Recursive(f, S, zero, g)
  <2> HIDE DEF g, S, zero
  <2>1. QED
    BY <1>1, <1>3, Recursion, Zenon
<1>5. \A r \in 1 .. flow : f[r] = Step(r, f[r - 1])
  <2> SUFFICES ASSUME NEW r \in 1 .. flow PROVE f[r] = Step(r, f[r - 1])
    BY Zenon
  <2> HIDE DEF Step, S
  <2>1. r - 1 \in Nat /\ (r - 1) + 1 = r /\ r <= flow
    OBVIOUS
  <2>2. f[r] = g[<<r - 1, f[r - 1]>>] /\ f[r - 1] \in S
    <3> HIDE DEF g
    <3>1. QED
      BY <1>4, <2>1 DEF Recursive
  <2>3. QED
    BY <2>1, <2>2
<1>6. Eqn([r \in 0 .. flow |-> f[r]])
  <2> HIDE DEF Step, S, zero, g
  <2> DEFINE a == [r \in 0 .. flow |-> f[r]]
  <2>1. ASSUME NEW r \in 0 .. flow
        PROVE  a[r] = IF r = 0 THEN zero ELSE Step(r, a[r - 1])
    <3>1. CASE r = 0
      BY <1>4, <3>1 DEF Recursive
    <3>2. CASE r # 0
      <4>1. r \in 1 .. flow /\ r - 1 \in 0 .. flow
        BY <3>2
      <4>2. a[r] = f[r] /\ a[r - 1] = f[r - 1]
        BY <4>1
      <4>3. QED
        BY <1>5, <3>2, <4>1, <4>2, Zenon
    <3>3. QED
      BY <3>1, <3>2, Zenon
  <2>2. QED
    BY <2>1
<1>7. Eqn(after)
  <2> HIDE DEF Eqn
  <2>1. QED
    BY <1>6, Zenon
<1>8. discovered(paths, host, h) = after[flow]
  BY Zenon DEF discovered, Through
<1> HIDE DEF after
<1>9. /\ after[0] = zero
      /\ \A r \in 1 .. flow : after[r] = Step(r, after[r - 1])
  <2> HIDE DEF Step, zero
  <2>1. QED
    BY <1>7
<1> DEFINE Good(n) == n <= flow => /\ after[n] \in S
                                   /\ (\E r \in 1 .. n : Through(paths[r], host, h)) =>
                                        after[n].routes > 0
           T == {n \in Nat : Good(n)}
<1>10. 0 \in T
  BY <1>1, <1>9
<1>11. ASSUME NEW n \in Nat, n \in T
       PROVE  n + 1 \in T
  <2> HIDE DEF Step, S
  <2>1. CASE n + 1 <= flow
    <3>1. n + 1 \in 1 .. flow /\ (n + 1) - 1 = n /\ n <= flow
      BY <2>1
    <3>2. after[n + 1] = Step(n + 1, after[n]) /\ after[n] \in S
      BY <1>9, <1>11, <3>1
    <3>3. /\ after[n + 1] \in S
          /\ Through(paths[n + 1], host, h) => after[n + 1].routes > 0
          /\ after[n].routes > 0 => after[n + 1].routes > 0
      BY <1>2, <3>1, <3>2, Zenon
    <3>4. ASSUME NEW r \in 1 .. n + 1, Through(paths[r], host, h)
          PROVE  after[n + 1].routes > 0
      <4>1. CASE r = n + 1
        BY <3>3, <3>4, <4>1, Zenon
      <4>2. CASE r # n + 1
        <5>1. r \in 1 .. n
          BY <4>2
        <5>2. QED
          BY <1>11, <3>1, <3>3, <3>4, <5>1, Zenon
      <4>3. QED
        BY <4>1, <4>2, Zenon
    <3>5. Good(n + 1) /\ n + 1 \in Nat
      BY <3>3, <3>4
    <3>6. QED
      BY <3>5, Zenon
  <2>2. CASE ~(n + 1 <= flow)
    BY <2>2
  <2>3. QED
    BY <2>1, <2>2, Zenon
<1>12. Nat \subseteq T
  <2> HIDE DEF T
  <2>1. QED
    BY <1>10, <1>11, Induction, Zenon
<1>13. Good(flow)
  <2> HIDE DEF Good
  <2>1. QED
    BY <1>12, Zenon
<1>14. QED
  BY <1>8, <1>13

(* The paths the table is made of.                                         *)
Cleared(paths) == \A r \in 1 .. flow : paths[r] \in clearPath(routes[r])

(* A row is right about its switch.                                        *)
Right(row) == /\ row.tc = "On" => row.host \in TC
              /\ row.tc = "Off" => row.host \notin TC

\* Every row of the table is right about its switch.
LEMMA RowRight ==
  ASSUME IInv, ~failed, ~overwritten, ClocksShow, NEW paths, Cleared(paths),
         NEW r \in 1 .. flow, NEW h \in DOMAIN paths[r]
  PROVE  Right(Row(paths, paths[r][h].ip, h))
<1> DEFINE host == paths[r][h].ip
           row == Row(paths, host, h)
<1>0. Through(paths[r], host, h)
  BY Zenon DEF Through
<1> HIDE DEF host
<1>1. flow \in Nat /\ cfThreshold \in Nat /\ cfThreshold = 0
  BY ZiffyAssumption DEF IInv, TypeInv, flow, ClocksShow
<1>2. \A q \in 1 .. flow : Through(paths[q], host, h) => Adds(paths[q], host, h)
  BY CorrFieldFacts, Zenon DEF Through, Adds, Cleared
<1>3. PICK sw : sw = discovered(paths, host, h)
  BY Zenon
<1>4. /\ sw \in Tallies /\ TallyOf(host, sw)
      /\ (\E q \in 1 .. flow : Through(paths[q], host, h)) => sw.routes > 0
  BY <1>1, <1>2, <1>3, DiscoveredFacts, Zenon
<1>5. sw.routes > 0 /\ sw.totalCF \in Int /\ sw.divRoutes \in Nat
  BY <1>0, <1>4, Zenon DEF Tallies
<1>6. /\ sw.divRoutes >= 1
      /\ ~sw.last => sw.totalCF = IF host \in TC THEN sw.divRoutes ELSE 0
  BY <1>4, <1>5, Zenon DEF TallyOf
<1> DEFINE avg == Quotient(sw.totalCF, sw.divRoutes)
<1>7. ~sw.last => avg = IF host \in TC THEN 1 ELSE 0
  <2>1. \A d \in Nat : d >= 1 => Quotient(d, d) = 1 /\ Quotient(0, d) = 0
    <3> SUFFICES ASSUME NEW d \in Nat, d >= 1 PROVE Quotient(d, d) = 1 /\ Quotient(0, d) = 0
      BY Zenon
    <3>1. d \div d = 1
      OBVIOUS
    <3>2. 0 \div d = 0
      OBVIOUS
    <3>3. QED
      BY <3>1, <3>2 DEF Quotient
  <2>2. QED
    BY <1>5, <1>6, <2>1, Zenon
<1> HIDE DEF avg
<1>8. /\ row.host = host
      /\ row.tc = IF sw.last THEN "Unknown"
                  ELSE IF avg > cfThreshold \/ -avg > cfThreshold THEN "On" ELSE "Off"
  BY <1>3, Zenon DEF Row, avg
<1> HIDE DEF row
<1>9. Right(row)
  BY <1>1, <1>7, <1>8 DEF Right
<1>10. QED
  BY <1>9, Zenon DEF row, host

-----------------------------------------------------------------------------
(* The theorems                                                            *)
-----------------------------------------------------------------------------
\* The invariant holds before the first trace.
LEMMA InitIInv == Init => IInv
<1> SUFFICES ASSUME Init PROVE IInv
  BY Zenon
<1>1. config \in Settings /\ flow = 0
  BY Zenon DEF Init, flow
<1>2. /\ HopMax \in Nat /\ Flows \in Nat \ {0} /\ HopMin \in Nat \ {0} /\ QueueCap \in Nat
      /\ PTPRecvHandlers \in Nat
  BY <1>1, ConfigFacts, Zenon
<1>3. TypeInv
  <2>1. /\ routes \in Seq(SUBSET Infos) /\ flow <= Flows
        /\ hop \in 0 .. HopMax + 1 /\ destHop \in 0 .. HopMax
    BY <1>1, <1>2 DEF Init
  <2>2. QED
    BY <1>1, <2>1, Zenon DEF Init, TypeInv
<1>4. Trace
  BY <1>1, <1>2 DEF Init, Trace, Tracing
<1>5. Underway
  BY Zenon DEF Init, Underway, Noise
<1>6. Queued
  BY <1>2 DEF Init, Queued
<1>7. Receiving
  BY <1>2, FS_EmptySet DEF Init, Receiving
<1>8. OwnRoute /\ Filed
  BY <1>1 DEF OwnRoute, Filed
<1>9. Reached
  BY DEF Init, Reached, Tracing
<1>10. QED
  BY <1>3, <1>4, <1>5, <1>6, <1>7, <1>8, <1>9, Zenon DEF IInv

\* The invariant is inductive.
LEMMA NextIInv == IInv /\ [Next]_vars => IInv'
<1>1. ASSUME IInv, Next
      PROVE  IInv'
  BY <1>1, TraceStep, UnderwayStep, QueuedStep, ReceivingStep, OwnStep, ReachedStep, Zenon
     DEF IInv
<1>2. ASSUME IInv, UNCHANGED vars
      PROVE  IInv'
  <2>1. UNCHANGED <<config, pc, routes, currentRoute, hop, destReached, destHop, inputQueue,
                    monitor, buf, handlers, blocked, receiver, runningHandlers, receiving,
                    toReceiver, icmp, failed, overwritten, stale>>
    BY <1>2, Zenon DEF vars, traceVars, icmpVars, receiverVars, netVars, histVars
  <2>2. TypeInv' /\ Trace'
    BY <1>2, <2>1, Fixed, Zenon DEF IInv, TypeInv, Trace, Tracing, flow
  <2>3. Advances
    BY <1>2, <2>1 DEF IInv, TypeInv, Advances, Tracing, flow
  <2>4. Underway'
    <3>1. \A p : Sent(p) => Sent(p)'
      BY <1>2, <2>3, SentFrame, Zenon
    <3>2. QED
      BY <1>2, <2>1, <3>1, Zenon DEF IInv, Underway
  <2>5. Queued'
    <3>1. ASSUME NEW sw, Read(sw)
          PROVE  Read(sw)'
      BY <1>2, <2>3, <3>1, ReadFrame, Zenon
    <3>2. ASSUME NEW i \in 1 .. Len(inputQueue')
          PROVE  Read(inputQueue[i])'
      <4>1. PICK sw : sw = inputQueue[i] /\ sw = inputQueue'[i]
        BY <2>1, Zenon
      <4>2. Read(sw)'
        BY <1>2, <2>1, <3>1, <4>1, Zenon DEF IInv, Queued
      <4>3. QED
        BY <4>1, <4>2, Zenon
    <3>3. /\ inputQueue' \in Seq(Infos') /\ Len(inputQueue') <= QueueCap
          /\ \A sw \in blocked' : Read(sw)'
      BY <1>2, <2>1, <3>1, Fixed, Zenon DEF IInv, Queued
    <3>4. QED
      BY <3>2, <3>3, Zenon DEF Queued
  <2>6. Receiving' /\ OwnRoute'
    BY <1>2, <2>1, Zenon DEF IInv, Receiving, OwnRoute, flow
  <2>7. Filed'
    <3>1. \A sw : Genuine(sw)' = Genuine(sw)
      BY <2>1, Fixed, Zenon
    <3>2. flow' = flow
      BY <2>1, Zenon DEF flow
    <3>3. ASSUME ~overwritten', NEW r \in 1 .. flow', NEW sw \in routes'[r]
          PROVE  Genuine(sw)'
      BY <1>2, <2>1, <3>1, <3>2, <3>3, Zenon DEF IInv, Filed
    <3>4. QED
      BY <3>3, Zenon DEF Filed
  <2>8. Reached'
    BY <1>2, <2>1, Fixed, Zenon DEF IInv, Reached, Tracing, flow
  <2>9. QED
    BY <2>2, <2>4, <2>5, <2>6, <2>7, <2>8, Zenon DEF IInv
<1>3. QED
  BY <1>1, <1>2, Zenon

\* The inductive invariant holds in every state that can be reached.
THEOREM Invariance == Spec => []IInv
  BY InitIInv, NextIInv, PTL DEF Spec

\* However late, repeated or foreign the packets: the sender never files a reply
\* under a route it has not begun, its numbers stay in range, and the receiver's
\* counter is the number of its handlers and never negative or above the limit.
THEOREM TypeCorrect == Spec => []TypeOK
<1>1. IInv => TypeOK
  <2> SUFFICES ASSUME IInv PROVE TypeOK
    BY Zenon
  <2>1. config \in Settings /\ flow \in Nat
    BY DEF IInv, TypeInv, flow
  <2>2. \A r \in 1 .. flow : routes[r] \subseteq Infos
    BY DEF IInv, TypeInv, flow
  <2>3. /\ \A p \in toReceiver \cup receiving \cup icmp : p \in Packets
        /\ \A p \in handlers : p \in Packets \cup {General}
        /\ buf \in Packets \cup Noise
    BY Zenon DEF IInv, Underway, Sent
  <2>4. /\ Len(inputQueue) <= QueueCap /\ DOMAIN inputQueue = 1 .. Len(inputQueue)
        /\ \A i \in 1 .. Len(inputQueue) : inputQueue[i] \in Infos /\ inputQueue[i].route < flow
        /\ blocked \subseteq Infos
    BY DEF IInv, Queued, Read
  <2>5. /\ receiver = "up" => /\ runningHandlers = Cardinality(receiving)
                              /\ runningHandlers <= PTPRecvHandlers
    BY Zenon DEF IInv, Receiving
  <2>6. currentRoute \in 0 .. flow
    BY Zenon DEF IInv, Trace
  <2>7. QED
    BY <2>2, <2>3, <2>4, <2>5, <2>6, Zenon DEF TypeOK, IInv, TypeInv
<1>2. QED
  BY <1>1, Invariance, PTL

\* A reply is filed with the flow whose probe caused it, however late it comes,
\* unless a trace failed or the shared buffer was overwritten.
THEOREM FiledWithItsFlow == Spec => []OwnRoute
<1>1. IInv => OwnRoute
  BY Zenon DEF IInv
<1>2. QED
  BY <1>1, Invariance, PTL

\* If the ways to the rack's other addresses are no longer than those to the
\* receiver, no trace, of a port or of the sweep, stops short of a switch on its
\* path because of the destination or of the distance noted for it.
THEOREM WholePathTraced ==
  ASSUME SweepNoLonger
  PROVE  Spec => []WholePathProbed
<1>1. IInv => WholePathProbed
  <2> SUFFICES ASSUME IInv, Tracing, ~stale, ~overwritten
               PROVE  /\ destReached => hop - 1 > Len(Path[flow])
                      /\ hopMax >= HopMax \/ hopMax >= Len(Path[flow])
    BY Zenon DEF WholePathProbed, Tracing
  <2>1. /\ config \in Settings /\ HopMax \in Nat /\ config.PortCount \in Nat
        /\ Flows \in Nat /\ destHop \in Int
    BY ConfigFacts DEF IInv, TypeInv
  <2>2. flow \in 1 .. Flows
    BY <2>1 DEF IInv, TypeInv, Trace, Tracing, flow
  <2>3. /\ destReached => hop - 1 > Len(Path[flow])
        /\ destHop > 0 => \E g \in 1 .. config.PortCount : destHop > Len(Path[g])
    BY Zenon DEF IInv, Reached
  <2>4. CASE sweep /\ destHop > 0
    <3>1. PICK g \in 1 .. config.PortCount : destHop > Len(Path[g])
      BY <2>3, <2>4, Zenon
    <3>2. flow \in (config.PortCount + 1) .. FlowsOf(config)
      BY <2>1, <2>2, <2>4 DEF sweep, Flows
    <3>3. Len(Path[flow]) <= Len(Path[g])
      BY <2>1, <3>2, Zenon DEF SweepNoLonger, Path
    <3>4. Len(Path[flow]) \in Nat /\ Len(Path[g]) \in Nat
      <4>1. g \in 1 .. Flows
        BY <2>1, ConfigFacts
      <4>2. Path[flow] \in Seq(Hosts) /\ Path[g] \in Seq(Hosts)
        BY <2>1, <2>2, <4>1, ConfigFacts, Zenon
      <4>3. QED
        BY <4>2
    <3>5. hopMax = destHop - 1
      BY <2>4, Zenon DEF hopMax
    <3>6. QED
      BY <2>1, <2>3, <3>1, <3>3, <3>4, <3>5
  <2>5. CASE ~(sweep /\ destHop > 0)
    BY <2>1, <2>3, <2>5 DEF hopMax
  <2>6. QED
    BY <2>4, <2>5, Zenon
<1>2. QED
  BY <1>1, Invariance, PTL

\* A table with a correction threshold below what a transparent clock adds is
\* right about every switch it has a verdict on, whatever was lost, late, repeated
\* or out of order, if no trace failed and no handler read another's packet.
THEOREM VerdictsRight ==
  ASSUME ClocksShow
  PROVE  Spec => []VerdictRight
<1>1. Init => VerdictRight
  BY Zenon DEF Init, VerdictRight
<1>2. IInv /\ VerdictRight /\ [Next]_vars => VerdictRight'
  <2> SUFFICES ASSUME IInv, VerdictRight, [Next]_vars,
                      pc' = "done", ~failed', ~overwritten', NEW row \in table'
               PROVE  /\ row.tc = "On" => row.host \in TC
                      /\ row.tc = "Off" => row.host \notin TC
    BY Zenon DEF VerdictRight
  <2>1. CASE PrintTable
    <3>1. ~failed /\ ~overwritten
      BY <2>1, Zenon DEF PrintTable, histVars
    <3>2. PICK paths \in [1 .. flow -> UNION {clearPath(routes[r]) : r \in 1 .. flow}] :
             /\ \A r \in 1 .. flow : paths[r] \in clearPath(routes[r])
             /\ table' = computeInfo(paths)
      BY <2>1, Zenon DEF PrintTable
    <3>3. \E r \in 1 .. flow : \E h \in DOMAIN paths[r] : row = Row(paths, paths[r][h].ip, h)
      <4>1. DOMAIN paths = 1 .. flow
        BY <3>2, Zenon
      <4>2. PICK k \in UNION {{<<paths[r][h].ip, h>> : h \in DOMAIN paths[r]} : r \in DOMAIN paths} :
               row = Row(paths, k[1], k[2])
        BY <3>2, Zenon DEF computeInfo
      <4>3. PICK r \in 1 .. flow : k \in {<<paths[r][h].ip, h>> : h \in DOMAIN paths[r]}
        BY <4>1, <4>2, Zenon
      <4>4. PICK h \in DOMAIN paths[r] : k = <<paths[r][h].ip, h>>
        BY <4>3, Zenon
      <4>5. k[1] = paths[r][h].ip /\ k[2] = h
        BY <4>4
      <4>6. QED
        BY <4>2, <4>5, Zenon
    <3>4. PICK r \in 1 .. flow : \E h \in DOMAIN paths[r] : row = Row(paths, paths[r][h].ip, h)
      BY <3>3, Zenon
    <3>5. PICK h \in DOMAIN paths[r] : row = Row(paths, paths[r][h].ip, h)
      BY <3>4, Zenon
    <3>6. Cleared(paths)
      BY <3>2, Zenon DEF Cleared
    <3>7. Right(Row(paths, paths[r][h].ip, h))
      BY <3>1, <3>6, RowRight, Zenon
    <3>8. QED
      BY <3>5, <3>7, Zenon DEF Right
  <2>2. CASE ~PrintTable
    <3>1. pc = "done" /\ table' = table
      <4>1. CASE Main
        BY <2>2, <4>1 DEF Main, Begin, BeginFails, SendProbe, SendFails, TakeReply, Timeout,
           TraceEnds, Pop, Popped, SleepForLate, StopMonitor
      <4>2. CASE Others \/ UNCHANGED vars
        BY <4>2, Zenon DEF Others, Monitor, ReadReply, ReadNoise, HandleIcmp, Unblock,
           ReceiverStart, HandlePacket, vars
      <4>3. QED
        BY <4>1, <4>2, Zenon DEF Next, Others
    <3>2. ~failed /\ ~overwritten
      <4>1. CASE Next
        BY <4>1, TraceStep, Zenon DEF Advances
      <4>2. CASE UNCHANGED vars
        BY <4>2, Zenon DEF vars, histVars
      <4>3. QED
        BY <4>1, <4>2, Zenon
    <3>3. QED
      BY <3>1, <3>2, Zenon DEF VerdictRight
  <2>3. QED
    BY <2>1, <2>2, Zenon
<1>3. QED
  BY <1>1, <1>2, Invariance, PTL DEF Spec

=============================================================================
