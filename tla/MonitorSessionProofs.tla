----------------------- MODULE MonitorSessionProofs ------------------------
(***************************************************************************)
(* Proofs of the safety properties of MonitorSession for any sources,      *)
(* however often they change, and whatever the network loses, repeats or   *)
(* reorders.  None of the properties is inductive: what a command prints   *)
(* depends on what it collected in earlier calls (Collected), that on what *)
(* the datagrams say (Answers) and whose they are (Underway, Numbered),    *)
(* and those on what the daemon can have said (Daemon).  Only a request,   *)
(* its answer, or an expired deadline is under way at any time.            *)
(***************************************************************************)
EXTENDS MonitorSession, SequenceTheorems, TLAPS

-----------------------------------------------------------------------------
(* The inductive invariant                                                 *)
-----------------------------------------------------------------------------
Chrony == flavour = "chronyUDP" \/ (flavour = "chronyUnix" /\ command # "serverstats")
Ntpd == flavour = "ntpd" /\ command # "serverstats"
Asking == pc \in {"send", "read"}

PTPCalls == {"current", "default", "parent", "portstats", "timestatus"}
ChronyCalls == {"tracking", "nsources", "sourcedata"}
Cmds == PTPCalls \cup ChronyCalls
          \cup {"ntpdata", "serverstats", "readstatus", "readvars", "servervars",
                "time", "status"}
Args == Nat \cup Addrs
Calls == [cmd : Cmds, arg : Args]
Req == [cmd : Cmds, arg : Args, seq : Nat]
Msg == [cmd : Cmds, arg : Args, seq : Nat, ok : BOOLEAN, n : Nat,
        src : Seq(Source), more : BOOLEAN]

TypeInv ==
  /\ flavour \in {"chronyUDP", "chronyUnix", "ntpd", "ntpdate", "ptp", "oscillatord"}
  /\ pc \in {"dial", "send", "read", "report", "done"}
  /\ outcome \in {"running", "ok", "error"}
  /\ Sequence \in Nat \ {0} /\ expired \in BOOLEAN /\ sock \in BOOLEAN
  /\ got \in Seq(Msg) /\ toClient \in Seq(Msg) /\ toServer \in Seq(Req)
  /\ lost \in BOOLEAN /\ misordered \in BOOLEAN /\ broke \in BOOLEAN
  /\ faults \in Nat /\ changes \in Nat
  /\ room \in Nat /\ (flavour = "ntpd" => room # 0)

(* Faults are the network's; until the daemon's sources change they are the *)
(* ones it began with.                                                      *)
Daemon ==
  /\ faults = 0 => ~lost /\ ~misordered
  /\ flavour \notin UDP => ~lost /\ ~misordered
  /\ sources \in Seq(Source) /\ first \in Seq(Source) /\ Listing(first)
  /\ StatesOf(sources) \subseteq seen /\ seen \subseteq States
  /\ changes = 0 => sources = first /\ seen = StatesOf(first)

Control ==
  /\ pc = "dial" =>
       /\ Sequence = 1 /\ ~expired /\ ~sock /\ outcome = "running"
       /\ toServer = <<>> /\ toClient = <<>> /\ DOMAIN result.peers = {}
  /\ Asking => outcome = "running"
  /\ pc = "report" => outcome = "ok" /\ ~sock
  /\ command \in {"ntpdiag", "stats", "offset"} => pc = "done"
  /\ (flavour = "ptp" /\ outcome = "error") => broke \/ expired
  /\ SocketRemoved

(* While the read deadline has not passed, whatever is under way belongs to *)
(* the current request, and only the end of an answer ends it.              *)
InStep == ~misordered /\ (expired => flavour = "ntpdate")
Elems(s) == {s[k] : k \in 1 .. Len(s)}
OfCall(m) == m.cmd = call.cmd /\ m.arg = call.arg /\ m.seq = AskedSeq

Underway ==
  InStep =>
    /\ pc = "send" => toServer = <<>> /\ toClient = <<>>
    /\ pc = "read" =>
         /\ toServer # <<>> => toClient = <<>> /\ got = <<>> /\ Len(toServer) = 1
         /\ \A m \in Elems(toServer) \cup Elems(toClient) : OfCall(m)
         /\ \A k \in 1 .. Len(toClient) - 1 : More(toClient[k])

(* Without losses the datagrams read and those to come are the parts of the *)
(* answer in their order.                                                   *)
Numbered ==
  (InStep /\ ~lost /\ pc = "read" /\ toClient # <<>>) =>
    /\ (call.cmd = "readvars" /\ (toClient[1].ok \/ Len(toClient) > 1)) =>
         /\ \A k \in 1 .. Len(got) : got[k].n = k
         /\ \A k \in 1 .. Len(toClient) : toClient[k].ok /\ toClient[k].n = Len(got) + k
         /\ Len(got) + Len(toClient) = VarParts
    /\ (call.cmd = "readstatus" /\ changes = 0 /\ ~Split) => got = <<>>

(* What the daemon says in a datagram is true of its sources.               *)
Carries(m) ==
  m.ok /\ (m.cmd \in {"sourcedata", "ntpdata"} \/ (m.cmd = "readvars" /\ m.arg # 0))
Describes(m) ==
  /\ Len(m.src) = 1 /\ m.src[1].state \in seen
  /\ m.cmd # "sourcedata" => m.src[1].addr = m.arg
  /\ changes = 0 =>
       \E k \in DOMAIN first :
         m.src[1] = first[k] /\ (m.cmd = "sourcedata" => k = m.arg + 1)
Honest(m) ==
  /\ Carries(m) => Describes(m)
  /\ (changes = 0 /\ m.cmd = "nsources") => m.n = Len(first)
  /\ (changes = 0 /\ m.cmd = "readstatus" /\ ~Split) =>
       m.src = first /\ m.n = Len(first) /\ ~m.more
  /\ m.cmd \in {"current", "default", "parent"} => m.ok
  /\ m.cmd = "parent" => (m.n = 1 <=> "gm" \in able)
  /\ m.cmd \in {"portstats", "timestatus"} => (m.ok <=> "np" \in able)
Asked(r) ==
  /\ r.cmd = "sourcedata" => r.arg \in Nat
  /\ r.cmd \in {"readstatus", "readvars"} => flavour = "ntpd"
Answers ==
  /\ \A m \in Elems(toClient) : Honest(m)
  /\ \A r \in Elems(toServer) : Asked(r)

(* The result so far: every peer is one source's, in a state some source    *)
(* had, and, if nothing went astray, shows one of the daemon's.             *)
Shows(p, s) ==
  p.addr = s.addr /\ p.sel = chronyToPeerSelection[s.state] /\ p.off = s.off
GoodPeer(p) ==
  /\ \E s \in seen : p.sel = chronyToPeerSelection[s]
  /\ PairConsistent(p)
  /\ lost \/ misordered \/ p.whole
AddrsOf(ss) == {ss[k].addr : k \in DOMAIN ss}
ChronyClear == Chrony /\ changes = 0 /\ ~misordered
NtpdClear == Ntpd /\ changes = 0 /\ ~misordered /\ ~lost /\ ~Split

Sound(res) ==
  /\ res \in [peers : {res.peers}, n : Nat, ids : SUBSET Addrs,
              clockSource : {res.clockSource},
              gm : BOOLEAN, ingress : BOOLEAN, portStats : BOOLEAN]
  /\ \A i \in DOMAIN res.peers : GoodPeer(res.peers[i])
  /\ NtpdClear =>
       \A i \in DOMAIN res.peers :
         \E k \in DOMAIN first : first[k].addr = i /\ Shows(res.peers[i], first[k])
  /\ (flavour = "ptp" /\ res.ingress) => "np" \in able

(* The requests a session may be making.                                    *)
OfSession(c) ==
  /\ flavour = "ptp" => c.cmd \in PTPCalls
  /\ flavour = "ntpdate" => c.cmd = "time" /\ c.arg \in Nat
  /\ flavour = "oscillatord" => c.cmd = "status"
  /\ Ntpd => c.cmd \in {"readstatus", "readvars"}
  /\ (flavour = "ntpd" /\ ~Ntpd) => c.cmd = "servervars"
  /\ flavour = "chronyUDP" => c.cmd \in ChronyCalls
  /\ (flavour = "chronyUnix" /\ Chrony) => c.cmd \in ChronyCalls \cup {"ntpdata"}
  /\ (flavour = "chronyUnix" /\ ~Chrony) => c.cmd = "serverstats"
Fits(c, s) ==
  /\ OfSession(c)
  /\ c.cmd = "sourcedata" => c.arg \in Nat
  /\ c.cmd = "ntpdata" =>
       \E x \in s : s = {x} /\ x.i \in Nat /\ x.src.addr = c.arg /\ x.src.state \in seen

(* How far the walk over the sources has come when request c is made.       *)
Walked(res, i) ==
  /\ res.n = Len(first) /\ DOMAIN res.peers = 0 .. i - 1
  /\ \A j \in 0 .. i - 1 : Shows(res.peers[j], first[j + 1])
ChronyWalk(res, c, s) ==
  /\ c.cmd \in {"tracking", "nsources"} => DOMAIN res.peers = {}
  /\ c.cmd = "sourcedata" => c.arg < res.n /\ Walked(res, c.arg)
  /\ c.cmd = "ntpdata" =>
       \A x \in s : x.i < res.n /\ Walked(res, x.i) /\ x.src = first[x.i + 1]
NtpdWalk(res, c) ==
  /\ c.cmd = "readstatus" => DOMAIN res.peers = {}
  /\ c.cmd = "readvars" =>
       AddrsOf(first) = DOMAIN res.peers \cup res.ids \cup ({c.arg} \ {0})
OnWay(res, c, s) ==
  /\ c \in Calls /\ Fits(c, s)
  /\ ChronyClear => ChronyWalk(res, c, s)
  /\ NtpdClear => NtpdWalk(res, c)
  /\ (flavour = "ptp" /\ c.cmd \in {"portstats", "timestatus"}) =>
       res.gm = ("gm" \in able)

Complete(res) ==
  /\ ChronyClear => Walked(res, res.n)
  /\ NtpdClear => AddrsOf(first) = DOMAIN res.peers
  /\ flavour = "ptp" => res.gm = ("gm" \in able)

Collected ==
  \A res \in {result}, c \in {call}, s \in {cur} :
    /\ Sound(res)
    /\ Asking => OnWay(res, c, s)
    /\ outcome = "ok" => Complete(res)

Matched == misordered \/ \A u \in used : u[1] = u[2]

Verdict ==
  (FirstCall.cmd \in Lists /\ pc = "done") =>
    /\ (command = "ntpdiag" /\ exit = 0) => "sync" \in seen
    /\ (command = "stats" /\ exit = 0) => seen \cap {"sync", "candidate"} # {}
    /\ (/\ command = "ntpdiag" /\ exit = 1 /\ outcome = "ok"
        /\ changes = 0 /\ faults = 0 /\ ~Split) => "sync" \notin seen

IInv ==
  /\ TypeInv /\ Daemon /\ Control /\ Underway /\ Numbered /\ Answers
  /\ Collected /\ Matched /\ Verdict

-----------------------------------------------------------------------------
(* Sequences                                                               *)
-----------------------------------------------------------------------------
(* Reading from toClient or serving from toServer takes the first datagram, *)
(* and the rest are the others in their order.                              *)
LEMMA Taken ==
  ASSUME NEW S, NEW s \in Seq(S), s # <<>>
  PROVE  /\ Head(s) = s[1] /\ Head(s) \in S /\ Head(s) \in Elems(s)
         /\ Len(s) \in Nat \ {0}
         /\ Tail(s) \in Seq(S) /\ Len(Tail(s)) = Len(s) - 1
         /\ \A k \in 1 .. Len(s) - 1 : Tail(s)[k] = s[k + 1]
         /\ Elems(Tail(s)) \subseteq Elems(s)
<1>1. Len(s) \in Nat \ {0}
  BY EmptySeq
<1>2. Head(s) = s[1] /\ Head(s) \in S
  BY HeadTailProperties
<1>3. Tail(s) \in Seq(S) /\ Len(Tail(s)) = Len(s) - 1
  BY HeadTailProperties
<1>4. \A k \in 1 .. Len(s) - 1 : Tail(s)[k] = s[k + 1]
  BY <1>3, HeadTailProperties
<1>5. 1 \in 1 .. Len(s) /\ \A k \in 1 .. Len(s) - 1 : k + 1 \in 1 .. Len(s)
  BY <1>1
<1>6. Head(s) \in Elems(s)
  BY <1>2, <1>5, Zenon DEF Elems
<1>7. Elems(Tail(s)) \subseteq Elems(s)
  BY <1>3, <1>4, <1>5, Zenon DEF Elems
<1> QED  BY <1>1, <1>2, <1>3, <1>4, <1>6, <1>7, Zenon

(* Sending appends a request.                                               *)
LEMMA Appended ==
  ASSUME NEW S, NEW s \in Seq(S), NEW e \in S
  PROVE  /\ Append(s, e) \in Seq(S) /\ Len(Append(s, e)) = Len(s) + 1
         /\ Elems(Append(s, e)) \subseteq Elems(s) \cup {e}
<1>1. /\ Append(s, e) \in Seq(S) /\ Len(Append(s, e)) = Len(s) + 1
      /\ \A k \in 1 .. Len(s) : Append(s, e)[k] = s[k]
      /\ Append(s, e)[Len(s) + 1] = e
  BY AppendProperties
<1>2. Len(s) \in Nat
  BY LenProperties
<1>3. \A k \in 1 .. Len(s) + 1 : k \in 1 .. Len(s) \/ k = Len(s) + 1
  BY <1>2
<1>4. Elems(Append(s, e)) \subseteq Elems(s) \cup {e}
  BY <1>1, <1>3, Zenon DEF Elems
<1> QED  BY <1>1, <1>4, Zenon

(* Serving appends an answer's datagrams.                                   *)
LEMMA Joined ==
  ASSUME NEW S, NEW s \in Seq(S), NEW t \in Seq(S)
  PROVE  s \o t \in Seq(S) /\ Elems(s \o t) \subseteq Elems(s) \cup Elems(t)
<1>1. /\ s \o t \in Seq(S) /\ Len(s \o t) = Len(s) + Len(t)
      /\ \A k \in 1 .. Len(s) + Len(t) :
           (s \o t)[k] = IF k <= Len(s) THEN s[k] ELSE t[k - Len(s)]
  BY ConcatProperties
<1>2. Len(s) \in Nat /\ Len(t) \in Nat
  BY LenProperties
<1>3. \A k \in 1 .. Len(s) + Len(t) :
        IF k <= Len(s) THEN k \in 1 .. Len(s) ELSE k - Len(s) \in 1 .. Len(t)
  BY <1>2
<1>4. Elems(s \o t) \subseteq Elems(s) \cup Elems(t)
  BY <1>1, <1>3, Zenon DEF Elems
<1> QED  BY <1>1, <1>4, Zenon

(* Losing a datagram leaves the others in their order.                      *)
LEMMA Removed ==
  ASSUME NEW S, NEW s \in Seq(S), NEW k \in DOMAIN s
  PROVE  /\ Without(s, k) \in Seq(S) /\ Len(Without(s, k)) = Len(s) - 1
         /\ \A j \in 1 .. Len(s) - 1 :
              Without(s, k)[j] = IF j < k THEN s[j] ELSE s[j + 1]
         /\ Elems(Without(s, k)) \subseteq Elems(s)
<1>1. Len(s) \in Nat /\ k \in 1 .. Len(s) /\ \A j \in 1 .. Len(s) : s[j] \in S
  BY LenProperties, ElementOfSeq
<1> DEFINE a == SubSeq(s, 1, k - 1)
           b == SubSeq(s, k + 1, Len(s))
<1>2. /\ a \in Seq(S) /\ Len(a) = k - 1
      /\ \A j \in 1 .. k - 1 : a[j] = s[j]
  <2>1. \A j \in 1 .. k - 1 : s[j] \in S
    BY <1>1
  <2>2. /\ a \in Seq(S) /\ Len(a) = IF 1 <= k - 1 THEN k - 1 - 1 + 1 ELSE 0
        /\ \A j \in 1 .. k - 1 - 1 + 1 : a[j] = s[1 + j - 1]
    BY <2>1, <1>1, SubSeqProperties
  <2> HIDE DEF a
  <2> QED  BY <2>2, <1>1
<1>3. /\ b \in Seq(S) /\ Len(b) = Len(s) - k
      /\ \A j \in 1 .. Len(s) - k : b[j] = s[k + j]
  <2>1. \A j \in k + 1 .. Len(s) : s[j] \in S
    BY <1>1
  <2>2. /\ b \in Seq(S)
        /\ Len(b) = IF k + 1 <= Len(s) THEN Len(s) - (k + 1) + 1 ELSE 0
        /\ \A j \in 1 .. Len(s) - (k + 1) + 1 : b[j] = s[k + 1 + j - 1]
    BY <2>1, <1>1, SubSeqProperties
  <2> HIDE DEF b
  <2> QED  BY <2>2, <1>1
<1>4. Without(s, k) = a \o b
  BY Zenon DEF Without
<1> HIDE DEF a, b
<1>5. /\ a \o b \in Seq(S) /\ Len(a \o b) = Len(a) + Len(b)
      /\ \A j \in 1 .. Len(a) + Len(b) :
           (a \o b)[j] = IF j <= Len(a) THEN a[j] ELSE b[j - Len(a)]
  BY <1>2, <1>3, ConcatProperties, Zenon
<1>6. Len(Without(s, k)) = Len(s) - 1
  BY <1>1, <1>2, <1>3, <1>4, <1>5
<1>7. ASSUME NEW j \in 1 .. Len(s) - 1
      PROVE  Without(s, k)[j] = IF j < k THEN s[j] ELSE s[j + 1]
  <2>0. j \in 1 .. Len(a) + Len(b)
    BY <1>1, <1>2, <1>3
  <2>1. Without(s, k)[j] = IF j <= Len(a) THEN a[j] ELSE b[j - Len(a)]
    BY <2>0, <1>4, <1>5, Zenon
  <2>2. CASE j < k
    BY <2>1, <2>2, <1>1, <1>2
  <2>3. CASE ~(j < k)
    <3>1. j - Len(a) \in 1 .. Len(s) - k /\ k + (j - Len(a)) = j + 1 /\ ~(j <= Len(a))
      BY <2>3, <1>1, <1>2
    <3> QED  BY <3>1, <2>1, <2>3, <1>3
  <2> QED  BY <2>2, <2>3
<1>8. \A j \in 1 .. Len(s) - 1 : j \in 1 .. Len(s) /\ j + 1 \in 1 .. Len(s)
  BY <1>1
<1>9. Elems(Without(s, k)) \subseteq Elems(s)
  BY <1>6, <1>7, <1>8, Zenon DEF Elems
<1> QED  BY <1>4, <1>5, <1>6, <1>7, <1>9, Zenon

-----------------------------------------------------------------------------
(* What a step of the daemon, the network or the clock cannot spoil        *)
-----------------------------------------------------------------------------
(* What is known of a result, a call or a datagram stays known when more    *)
(* states have been seen, or the sources have changed, or more has gone     *)
(* astray.                                                                  *)
LEMMA Persist ==
  ASSUME UNCHANGED <<flavour, able, room, first>>,
         (command' = "serverstats") <=> (command = "serverstats"),
         seen \subseteq seen', lost => lost', misordered => misordered',
         changes' = 0 => changes = 0
  PROVE  /\ \A res : Sound(res) => Sound(res)'
         /\ \A res, c, s : OnWay(res, c, s) => OnWay(res, c, s)'
         /\ \A res : Complete(res) => Complete(res)'
         /\ \A m : Honest(m) => Honest(m)'
<1>1. /\ Split' <=> Split
      /\ Chrony' <=> Chrony
      /\ Ntpd' <=> Ntpd
  BY Zenon DEF Split, Chrony, Ntpd
<1>2. /\ ChronyClear' => ChronyClear
      /\ NtpdClear' => NtpdClear
  BY <1>1, Zenon DEF ChronyClear, NtpdClear
<1>3. \A p : GoodPeer(p) => GoodPeer(p)'
  BY Zenon DEF GoodPeer, PairConsistent
<1>4. ASSUME NEW res, Sound(res)
      PROVE  Sound(res)'
  BY <1>2, <1>3, <1>4, Zenon DEF Sound, Shows
<1>5. \A c, s : Fits(c, s) => Fits(c, s)'
  <2>1. \A c : OfSession(c) => OfSession(c)'
    BY <1>1, Zenon DEF OfSession
  <2> QED  BY <2>1, Zenon DEF Fits
<1>6. \A res, i : Walked(res, i) => Walked(res, i)'
  BY Zenon DEF Walked, Shows
<1>7. ASSUME NEW res, NEW c, NEW s, OnWay(res, c, s)
      PROVE  OnWay(res, c, s)'
  <2>1. ChronyWalk(res, c, s) => ChronyWalk(res, c, s)'
    BY <1>6, Zenon DEF ChronyWalk
  <2>2. NtpdWalk(res, c) => NtpdWalk(res, c)'
    BY Zenon DEF NtpdWalk, AddrsOf
  <2> QED  BY <2>1, <2>2, <1>2, <1>5, <1>7, Zenon DEF OnWay
<1>8. ASSUME NEW res, Complete(res)
      PROVE  Complete(res)'
  BY <1>2, <1>6, <1>8, Zenon DEF Complete, AddrsOf
<1>9. ASSUME NEW m, Honest(m)
      PROVE  Honest(m)'
  <2>1. Describes(m) => Describes(m)'
    BY Zenon DEF Describes
  <2> QED  BY <2>1, <1>1, <1>9, Zenon DEF Honest, Carries
<1> QED  BY <1>4, <1>7, <1>8, <1>9, Zenon

(* So the client's part is preserved by a step that leaves it alone.        *)
LEMMA CollectedKept ==
  ASSUME Collected, UNCHANGED <<flavour, able, room, first>>,
         (command' = "serverstats") <=> (command = "serverstats"),
         seen \subseteq seen', lost => lost', misordered => misordered',
         changes' = 0 => changes = 0,
         UNCHANGED <<result, outcome>>,
         Asking' => Asking /\ UNCHANGED <<call, cur>>
  PROVE  Collected'
BY Persist, Zenon DEF Collected

(* The same for the datagrams under way.                                    *)
LEMMA AnswersKept ==
  ASSUME Answers, UNCHANGED <<flavour, able, room, first>>,
         (command' = "serverstats") <=> (command = "serverstats"),
         seen \subseteq seen', lost => lost', misordered => misordered',
         changes' = 0 => changes = 0,
         Elems(toClient)' \subseteq Elems(toClient),
         Elems(toServer)' \subseteq Elems(toServer)
  PROVE  Answers'
BY Persist, Zenon DEF Answers, Asked

-----------------------------------------------------------------------------
(* The ways in which a call can end                                        *)
-----------------------------------------------------------------------------
Proceeds ==
  \/ \E res, c, a, s :
       Goto(res, c, a, s) /\ Sound(res) /\ OnWay(res, Call(c, a), s)
  \/ \E res : CloseAnd(res, "ok") /\ Sound(res) /\ Complete(res)
  \/ CloseAnd(result, "error") /\ (flavour = "ptp" => broke' \/ expired)

(* Whatever the end of a call, the client's own part of the invariant holds *)
(* again.                                                                   *)
LEMMA Proceeded ==
  ASSUME IInv, Asking, Proceeds, broke => broke',
         UNCHANGED <<flavour, command, expired, daemonVars, faults, first, lost,
                     misordered, seen>>
  PROVE  /\ Collected' /\ Control' /\ Verdict'
         /\ pc' \in {"send", "report", "done"}
         /\ outcome' \in {"running", "ok", "error"} /\ sock' \in BOOLEAN
<1> USE DEF daemonVars
<1>0. /\ \A res : Sound(res) => Sound(res)'
      /\ \A res, c, s : OnWay(res, c, s) => OnWay(res, c, s)'
      /\ \A res : Complete(res) => Complete(res)'
  BY Persist, Zenon
<1>1. /\ pc # "dial" /\ pc # "report" /\ pc # "done" /\ outcome = "running"
      /\ command \notin {"ntpdiag", "stats", "offset"}
      /\ Sound(result) /\ sock \in BOOLEAN
  BY Zenon DEF IInv, Control, Asking, Collected, TypeInv
<1>2. ASSUME NEW res, NEW c, NEW a, NEW s,
             Goto(res, c, a, s), Sound(res), OnWay(res, Call(c, a), s)
      PROVE  /\ Collected' /\ Control' /\ Verdict'
             /\ pc' \in {"send", "report", "done"}
             /\ outcome' \in {"running", "ok", "error"} /\ sock' \in BOOLEAN
  <2>1. /\ pc' = "send" /\ outcome' = "running" /\ sock' = sock
        /\ result' = res /\ call' = Call(c, a) /\ cur' = s
    BY <1>1, <1>2, Zenon DEF Goto
  <2>2. Collected'
    BY <2>1, <1>0, <1>2, Zenon DEF Collected, Asking
  <2>3. Control'
    BY <2>1, <1>1, Zenon DEF Control, Asking, SocketRemoved
  <2>4. Verdict'
    BY <2>1, Zenon DEF Verdict
  <2> QED  BY <2>1, <2>2, <2>3, <2>4, <1>1, Zenon
<1>3. ASSUME NEW res, CloseAnd(res, "ok"), Sound(res), Complete(res)
      PROVE  /\ Collected' /\ Control' /\ Verdict'
             /\ pc' \in {"send", "report", "done"}
             /\ outcome' \in {"running", "ok", "error"} /\ sock' \in BOOLEAN
  <2>1. pc' = "report" /\ outcome' = "ok" /\ sock' = FALSE /\ result' = res
    BY <1>3, Zenon DEF CloseAnd
  <2>2. Collected'
    BY <2>1, <1>0, <1>3, Zenon DEF Collected, Asking
  <2>3. Control'
    BY <2>1, <1>1, Zenon DEF Control, Asking, SocketRemoved
  <2>4. Verdict'
    BY <2>1, Zenon DEF Verdict
  <2> QED  BY <2>1, <2>2, <2>3, <2>4, Zenon
<1>4. ASSUME CloseAnd(result, "error"), flavour = "ptp" => broke' \/ expired
      PROVE  /\ Collected' /\ Control' /\ Verdict'
             /\ pc' \in {"send", "report", "done"}
             /\ outcome' \in {"running", "ok", "error"} /\ sock' \in BOOLEAN
  <2>1. pc' = "done" /\ outcome' = "error" /\ sock' = FALSE /\ result' = result
    BY <1>4, Zenon DEF CloseAnd
  <2>2. Collected'
    BY <2>1, <1>0, <1>1, Zenon DEF Collected, Asking
  <2>3. Control'
    BY <2>1, <1>1, <1>4, Zenon DEF Control, Asking, SocketRemoved
  <2>4. Verdict'
    BY <2>1, <1>1, Zenon DEF Verdict
  <2> QED  BY <2>1, <2>2, <2>3, <2>4, Zenon
<1> QED  BY <1>2, <1>3, <1>4, Zenon DEF Proceeds

(* A call that fails ends the session with an error, but for the two data   *)
(* sets ptp4l need not have.                                                *)
LEMMA FailedWell ==
  ASSUME IInv, Asking, CallFails,
         (flavour = "ptp" /\ call.cmd \notin {"portstats", "timestatus"}) =>
           broke' \/ expired
  PROVE  Proceeds
<1>1. Sound(result) /\ OnWay(result, call, cur)
  BY Zenon DEF IInv, Collected
<1>2. call.cmd \in {"portstats", "timestatus"} => flavour = "ptp"
  <2>1. flavour \in {"chronyUDP", "chronyUnix", "ntpd", "ntpdate", "ptp", "oscillatord"}
    BY Zenon DEF IInv, TypeInv
  <2>2. OfSession(call)
    BY <1>1, Zenon DEF OnWay, Fits
  <2> QED  BY <2>1, <2>2 DEF OfSession, Ntpd, Chrony, ChronyCalls
<1>3. flavour = "ptp" => ~Chrony /\ ~Ntpd
  BY DEF Chrony, Ntpd
<1>4. CASE call.cmd = "portstats"
  <2>1. Goto(result, "timestatus", 0, {})
    BY <1>4 DEF CallFails
  <2>2. OnWay(result, Call("timestatus", 0), {})
    <3>1. Call("timestatus", 0) \in Calls /\ Call("timestatus", 0).cmd = "timestatus"
      BY DEF Call, Calls, Cmds, PTPCalls, Args
    <3>2. Fits(Call("timestatus", 0), {})
      BY <3>1, <1>2, <1>3, <1>4 DEF Fits, OfSession, PTPCalls
    <3> QED  BY <3>1, <3>2, <1>1, <1>2, <1>3, <1>4, Zenon DEF OnWay, ChronyClear, NtpdClear
  <2> QED  BY <2>1, <2>2, <1>1, Zenon DEF Proceeds
<1>5. CASE call.cmd = "timestatus"
  <2>1. CloseAnd(result, "ok")
    BY <1>5 DEF CallFails
  <2>2. Complete(result)
    BY <1>1, <1>2, <1>3, <1>5, Zenon DEF Complete, OnWay, ChronyClear, NtpdClear
  <2> QED  BY <2>1, <2>2, <1>1, Zenon DEF Proceeds
<1>6. CASE call.cmd # "portstats" /\ call.cmd # "timestatus"
  <2>1. CloseAnd(result, "error")
    BY <1>6 DEF CallFails
  <2> QED  BY <2>1, <1>6, Zenon DEF Proceeds
<1> QED  BY <1>4, <1>5, <1>6, Zenon

(* ptpcheck asks for its five data sets in turn.                            *)
LEMMA PTPAnswered ==
  ASSUME IInv, pc = "read", flavour = "ptp", NEW m \in Msg, Honest(m),
         m.cmd = call.cmd, m.ok, PTPAnswer(m)
  PROVE  Proceeds
<1>1. Sound(result) /\ OnWay(result, call, cur)
  BY Zenon DEF IInv, Collected, Asking
<1>2. ~Chrony /\ ~Ntpd
  BY DEF Chrony, Ntpd
<1>3. call.cmd \in PTPCalls
  BY <1>1, Zenon DEF OnWay, Fits, OfSession
<1>4. ASSUME NEW res, NEW c \in PTPCalls, Goto(res, c, 0, {}), Sound(res),
             c \in {"portstats", "timestatus"} => res.gm = ("gm" \in able)
      PROVE  Proceeds
  <2>1. Call(c, 0) \in Calls /\ Call(c, 0).cmd = c
    BY <1>4 DEF Call, Calls, Cmds, Args
  <2>2. Fits(Call(c, 0), {})
    BY <2>1, <1>2 DEF Fits, OfSession, PTPCalls
  <2>3. OnWay(res, Call(c, 0), {})
    BY <2>1, <2>2, <1>2, <1>4, Zenon DEF OnWay, ChronyClear, NtpdClear
  <2> QED  BY <2>3, <1>4, Zenon DEF Proceeds
<1>5. CASE call.cmd = "current"
  <2>1. Goto(result, "default", 0, {})
    BY <1>5 DEF PTPAnswer
  <2> QED  BY <2>1, <1>1, <1>4 DEF PTPCalls
<1>6. CASE call.cmd = "default"
  <2>1. Goto(result, "parent", 0, {})
    BY <1>6 DEF PTPAnswer
  <2> QED  BY <2>1, <1>1, <1>4 DEF PTPCalls
<1>7. CASE call.cmd = "parent"
  <2> PICK res : res = [result EXCEPT !.gm = m.n = 1]
    BY Zenon
  <2>1. Goto(res, "portstats", 0, {})
    BY <1>7 DEF PTPAnswer
  <2>2. /\ res.peers = result.peers /\ res.ingress = result.ingress
        /\ res.gm = (m.n = 1)
        /\ res \in [peers : {res.peers}, n : Nat, ids : SUBSET Addrs,
                    clockSource : {res.clockSource},
                    gm : BOOLEAN, ingress : BOOLEAN, portStats : BOOLEAN]
    BY <1>1, Zenon DEF Sound
  <2>3. Sound(res)
    BY <2>2, <1>1, Zenon DEF Sound
  <2>4. res.gm = ("gm" \in able)
    <3>1. m.n = 1 <=> "gm" \in able
      BY <1>7, Zenon DEF Honest
    <3> QED  BY <3>1, <2>2
  <2> QED  BY <2>1, <2>3, <2>4, <1>4, Zenon DEF PTPCalls
<1>8. CASE call.cmd = "portstats"
  <2> PICK res : res = [result EXCEPT !.portStats = TRUE]
    BY Zenon
  <2>1. Goto(res, "timestatus", 0, {})
    BY <1>8 DEF PTPAnswer
  <2>2. /\ res.peers = result.peers /\ res.ingress = result.ingress
        /\ res.gm = result.gm
        /\ res \in [peers : {res.peers}, n : Nat, ids : SUBSET Addrs,
                    clockSource : {res.clockSource},
                    gm : BOOLEAN, ingress : BOOLEAN, portStats : BOOLEAN]
    BY <1>1, Zenon DEF Sound
  <2>3. Sound(res)
    BY <2>2, <1>1, Zenon DEF Sound
  <2>4. res.gm = ("gm" \in able)
    BY <2>2, <1>1, <1>8, Zenon DEF OnWay
  <2> QED  BY <2>1, <2>3, <2>4, <1>4, Zenon DEF PTPCalls
<1>9. CASE call.cmd = "timestatus"
  <2> PICK res : res = [result EXCEPT !.ingress = TRUE]
    BY Zenon
  <2>1. CloseAnd(res, "ok")
    BY <1>9 DEF PTPAnswer
  <2>2. /\ res.peers = result.peers /\ res.gm = result.gm
        /\ res \in [peers : {res.peers}, n : Nat, ids : SUBSET Addrs,
                    clockSource : {res.clockSource},
                    gm : BOOLEAN, ingress : BOOLEAN, portStats : BOOLEAN]
    BY <1>1, Zenon DEF Sound
  <2>3. "np" \in able
    BY <1>9, Zenon DEF Honest
  <2>4. Sound(res)
    BY <2>2, <2>3, <1>1, Zenon DEF Sound
  <2>5. Complete(res)
    BY <2>2, <1>1, <1>2, <1>9, Zenon DEF Complete, OnWay, ChronyClear, NtpdClear
  <2> QED  BY <2>1, <2>4, <2>5, Zenon DEF Proceeds
<1> QED  BY <1>3, <1>5, <1>6, <1>7, <1>8, <1>9, Zenon DEF PTPCalls

(* ntpdate repeats its one request; a session of one request ends with it.  *)
LEMMA OnceAnswered ==
  ASSUME IInv, pc = "read"
  PROVE  /\ (flavour = "ntpdate" /\ TimeAnswer) => Proceeds
         /\ (~Chrony /\ ~Ntpd /\ flavour # "ptp" /\ CloseAnd(result, "ok")) => Proceeds
<1>1. Sound(result) /\ OnWay(result, call, cur)
  BY Zenon DEF IInv, Collected, Asking
<1>2. ASSUME ~Chrony, ~Ntpd, flavour # "ptp", CloseAnd(result, "ok")
      PROVE  Proceeds
  <2>1. Complete(result)
    BY <1>2, Zenon DEF Complete, ChronyClear, NtpdClear
  <2> QED  BY <2>1, <1>1, <1>2, Zenon DEF Proceeds
<1>3. ASSUME flavour = "ntpdate", TimeAnswer
      PROVE  Proceeds
  <2>1. ~Chrony /\ ~Ntpd /\ flavour # "ptp"
    BY <1>3 DEF Chrony, Ntpd
  <2>2. CASE call.arg < Requests
    <3>1. Goto(result, "time", call.arg + 1, {})
      BY <2>2, <1>3, Zenon DEF TimeAnswer
    <3>2. call.arg \in Nat
      BY <1>1, <1>3, Zenon DEF OnWay, Fits, OfSession
    <3>3. /\ Call("time", call.arg + 1) \in Calls
          /\ Call("time", call.arg + 1).cmd = "time"
          /\ Call("time", call.arg + 1).arg \in Nat
      BY <3>2 DEF Call, Calls, Cmds, Args
    <3>4. Fits(Call("time", call.arg + 1), {})
      BY <3>3, <2>1, <1>3 DEF Fits, OfSession
    <3>5. OnWay(result, Call("time", call.arg + 1), {})
      BY <3>3, <3>4, <2>1, Zenon DEF OnWay, ChronyClear, NtpdClear
    <3> QED  BY <3>1, <3>5, <1>1, Zenon DEF Proceeds
  <2>3. CASE ~(call.arg < Requests)
    BY <2>1, <2>3, <1>2, <1>3, Zenon DEF TimeAnswer
  <2> QED  BY <2>2, <2>3, Zenon
<1> QED  BY <1>2, <1>3, Zenon

-----------------------------------------------------------------------------
(* The walk over the sources                                               *)
-----------------------------------------------------------------------------
(* StorePeer puts one peer into the result and changes nothing else that    *)
(* matters.                                                                 *)
LEMMA StoredPeer ==
  ASSUME NEW res, Sound(res), flavour # "ptp", NEW i, NEW peer, NEW src, GoodPeer(peer),
         NtpdClear => \E k \in DOMAIN first : first[k].addr = i /\ Shows(peer, first[k]),
         NEW r, r = StorePeer(res, i, peer, src)
  PROVE  /\ Sound(r) /\ r.n = res.n /\ r.ids = res.ids
         /\ DOMAIN r.peers = DOMAIN res.peers \cup {i} /\ r.peers[i] = peer
         /\ \A j \in DOMAIN res.peers : j # i => r.peers[j] = res.peers[j]
<1>1. /\ r.n = res.n /\ r.ids = res.ids
      /\ r.peers = Stored(res.peers, i, peer)
      /\ r \in [peers : {r.peers}, n : Nat, ids : SUBSET Addrs,
                clockSource : {r.clockSource},
                gm : BOOLEAN, ingress : BOOLEAN, portStats : BOOLEAN]
  BY Zenon DEF Sound, StorePeer
<1>2. /\ DOMAIN r.peers = DOMAIN res.peers \cup {i} /\ r.peers[i] = peer
      /\ \A j \in DOMAIN res.peers : j # i => r.peers[j] = res.peers[j]
  <2> PICK q : q = res.peers
    OBVIOUS
  <2>1. r.peers = [j \in DOMAIN q \cup {i} |-> IF j = i THEN peer ELSE q[j]]
    BY <1>1, Zenon DEF Stored
  <2> QED  BY <2>1
<1>3. \A j \in DOMAIN r.peers : GoodPeer(r.peers[j])
  BY <1>2, Zenon DEF Sound
<1>4. ASSUME NtpdClear, NEW j \in DOMAIN r.peers
      PROVE  \E k \in DOMAIN first : first[k].addr = j /\ Shows(r.peers[j], first[k])
  <2>1. CASE j = i
    BY <2>1, <1>2, <1>4, Zenon
  <2>2. CASE j # i
    <3>1. j \in DOMAIN res.peers /\ r.peers[j] = res.peers[j]
      BY <2>2, <1>2, <1>4, Zenon
    <3> QED  BY <3>1, <1>4, Zenon DEF Sound
  <2> QED  BY <2>1, <2>2, Zenon
<1>5. Sound(r)
  BY <1>1, <1>3, <1>4, Zenon DEF Sound
<1> QED  BY <1>1, <1>2, <1>5, Zenon

(* A peer that was stored in its turn is one more that has been walked.     *)
LEMMA WalkedOn ==
  ASSUME NEW res, NEW i \in Nat, Walked(res, i), NEW r, NEW peer,
         r.n = res.n, DOMAIN r.peers = DOMAIN res.peers \cup {i},
         r.peers[i] = peer, Shows(peer, first[i + 1]),
         \A j \in DOMAIN res.peers : j # i => r.peers[j] = res.peers[j]
  PROVE  Walked(r, i + 1)
<1>1. 0 .. i + 1 - 1 = (0 .. i - 1) \cup {i} /\ i \notin 0 .. i - 1
  OBVIOUS
<1>2. ASSUME NEW j \in 0 .. i + 1 - 1
      PROVE  Shows(r.peers[j], first[j + 1])
  <2>1. CASE j = i
    BY <2>1, Zenon
  <2>2. CASE j # i
    <3>1. j \in 0 .. i - 1
      BY <2>2, <1>1, Zenon
    <3> QED  BY <3>1, <2>2, Zenon DEF Walked
  <2> QED  BY <2>1, <2>2, Zenon
<1>3. r.n = Len(first) /\ DOMAIN res.peers = 0 .. i - 1
  BY Zenon DEF Walked
<1>4. DOMAIN r.peers = 0 .. i + 1 - 1
  BY <1>1, <1>3, Zenon
<1> HIDE DEF Shows
<1> QED  BY <1>2, <1>3, <1>4 DEF Walked

(* The next turn of ChronyCheck.Run's loop, or its end.                     *)
LEMMA NextSourced ==
  ASSUME Chrony, NEW res, NEW i \in Nat, Sound(res), NextSource(res, i),
         ChronyClear => i <= res.n /\ Walked(res, i)
  PROVE  Proceeds
<1>1. res.n \in Nat
  BY DEF Sound
<1>2. ~Ntpd /\ flavour # "ptp" /\ flavour # "ntpdate" /\ flavour # "oscillatord"
      /\ flavour # "ntpd"
  BY DEF Chrony, Ntpd
<1>3. CASE i < res.n
  <2>1. Goto(res, "sourcedata", i, {})
    BY <1>3, Zenon DEF NextSource
  <2>2. /\ Call("sourcedata", i) \in Calls
        /\ Call("sourcedata", i).cmd = "sourcedata" /\ Call("sourcedata", i).arg = i
    BY DEF Call, Calls, Cmds, ChronyCalls, Args
  <2>3. Fits(Call("sourcedata", i), {})
    BY <2>2, <1>2 DEF Fits, OfSession, ChronyCalls
  <2>4. ChronyClear => ChronyWalk(res, Call("sourcedata", i), {})
    BY <2>2, <1>3 DEF ChronyWalk
  <2>5. OnWay(res, Call("sourcedata", i), {})
    BY <2>2, <2>3, <2>4, <1>2, Zenon DEF OnWay, NtpdClear
  <2> QED  BY <2>1, <2>5, Zenon DEF Proceeds
<1>4. CASE ~(i < res.n)
  <2>1. CloseAnd(res, "ok")
    BY <1>4, Zenon DEF NextSource
  <2>2. i <= res.n => i = res.n
    BY <1>1, <1>4
  <2>3. Complete(res)
    BY <2>2, <1>2, Zenon DEF Complete, NtpdClear
  <2> QED  BY <2>1, <2>3, Zenon DEF Proceeds
<1> QED  BY <1>3, <1>4, Zenon

(* The next of ntpd's associations, or the end of NTPCheck.Run.             *)
LEMMA NextAssociated ==
  ASSUME Ntpd, NEW res, Sound(res), NextAssociation(res),
         NtpdClear => AddrsOf(first) = DOMAIN res.peers \cup res.ids
  PROVE  Proceeds
<1>1. /\ ~Chrony /\ flavour = "ntpd"
      /\ flavour \notin {"ptp", "ntpdate", "oscillatord", "chronyUDP", "chronyUnix"}
  BY DEF Chrony, Ntpd
<1>2. CASE res.ids = {}
  <2>1. CloseAnd(res, "ok")
    BY <1>2, Zenon DEF NextAssociation
  <2>2. Complete(res)
    BY <1>1, <1>2 DEF Complete, ChronyClear
  <2> QED  BY <2>1, <2>2, Zenon DEF Proceeds
<1>3. CASE res.ids # {}
  <2>1. PICK id \in res.ids :
          Goto([res EXCEPT !.ids = @ \ {id}], "readvars", id, {})
    BY <1>3, Zenon DEF NextAssociation
  <2> PICK r : r = [res EXCEPT !.ids = @ \ {id}]
    BY Zenon
  <2>2. /\ r.peers = res.peers /\ r.ids = res.ids \ {id} /\ r.ingress = res.ingress
        /\ r \in [peers : {r.peers}, n : Nat, ids : SUBSET Addrs,
                  clockSource : {r.clockSource},
                  gm : BOOLEAN, ingress : BOOLEAN, portStats : BOOLEAN]
    BY DEF Sound
  <2>3. Sound(r)
    BY <2>2, Zenon DEF Sound
  <2>4. id \in Addrs /\ id # 0
    BY SessionAssumption DEF Sound
  <2>5. /\ Call("readvars", id) \in Calls
        /\ Call("readvars", id).cmd = "readvars" /\ Call("readvars", id).arg = id
    BY <2>4 DEF Call, Calls, Cmds, Args
  <2>6. Fits(Call("readvars", id), {})
    BY <2>5, <1>1 DEF Fits, OfSession
  <2>7. NtpdClear => NtpdWalk(r, Call("readvars", id))
    <3>1. NtpdClear =>
            AddrsOf(first) = DOMAIN r.peers \cup r.ids \cup ({id} \ {0})
      BY <2>2, <2>4
    <3> QED  BY <3>1, <2>5 DEF NtpdWalk
  <2>8. OnWay(r, Call("readvars", id), {})
    BY <2>5, <2>6, <2>7, <1>1, Zenon DEF OnWay, ChronyClear
  <2> QED  BY <2>1, <2>3, <2>8, Zenon DEF Proceeds
<1> QED  BY <1>2, <1>3, Zenon

(* A peer is stored in its turn and the loop goes on.                       *)
LEMMA StoredInTurn ==
  ASSUME Chrony, Sound(result), NEW i \in Nat, NEW peer, NEW src, GoodPeer(peer),
         ChronyClear =>
           i < result.n /\ Walked(result, i) /\ Shows(peer, first[i + 1]),
         NextSource(StorePeer(result, i, peer, src), i + 1)
  PROVE  Proceeds
<1> PICK r : r = StorePeer(result, i, peer, src)
  OBVIOUS
<1>1. ~NtpdClear /\ flavour # "ptp"
  BY DEF NtpdClear, Ntpd, Chrony
<1>2. /\ Sound(r) /\ r.n = result.n
      /\ DOMAIN r.peers = DOMAIN result.peers \cup {i} /\ r.peers[i] = peer
      /\ \A j \in DOMAIN result.peers : j # i => r.peers[j] = result.peers[j]
  BY <1>1, StoredPeer
<1>3. ChronyClear => Walked(r, i + 1)
  BY <1>2, WalkedOn
<1>4. r.n \in Nat
  BY <1>2 DEF Sound
<1>5. (ChronyClear => i + 1 <= r.n) /\ i + 1 \in Nat
  BY <1>2, <1>4
<1>6. NextSource(r, i + 1)
  BY Zenon
<1> QED  BY <1>2, <1>3, <1>5, <1>6, NextSourced, Zenon

(* The answer of a daemon to ChronyCheck.                                   *)
LEMMA ChronyAnswered ==
  ASSUME IInv, pc = "read", Chrony, NEW m \in Msg, Honest(m), m.ok,
         m.cmd = call.cmd, ~misordered => m.arg = call.arg, ChronyAnswer(m)
  PROVE  Proceeds
<1>1. Sound(result) /\ OnWay(result, call, cur)
  BY Zenon DEF IInv, Collected, Asking
<1>2. /\ ~Ntpd /\ flavour \in {"chronyUDP", "chronyUnix"}
      /\ flavour \notin {"ptp", "ntpdate", "oscillatord", "ntpd"}
  BY DEF Chrony, Ntpd
<1>3. call.cmd \in ChronyCalls \cup {"ntpdata"}
      /\ (call.cmd = "ntpdata" => flavour = "chronyUnix")
  <2>1. OfSession(call)
    BY <1>1, Zenon DEF OnWay, Fits
  <2> QED  BY <2>1, <1>2 DEF OfSession, ChronyCalls
<1>4. CASE call.cmd = "tracking"
  <2>1. Goto(result, "nsources", 0, {})
    BY <1>4 DEF ChronyAnswer
  <2>2. Call("nsources", 0) \in Calls /\ Call("nsources", 0).cmd = "nsources"
    BY DEF Call, Calls, Cmds, ChronyCalls, Args
  <2>3. Fits(Call("nsources", 0), {})
    BY <2>2, <1>2 DEF Fits, OfSession, ChronyCalls
  <2>4. ChronyClear => ChronyWalk(result, Call("nsources", 0), {})
    <3>1. ChronyClear => DOMAIN result.peers = {}
      BY <1>1, <1>4, Zenon DEF OnWay, ChronyWalk
    <3> QED  BY <3>1, <2>2 DEF ChronyWalk
  <2>5. OnWay(result, Call("nsources", 0), {})
    BY <2>2, <2>3, <2>4, <1>2, Zenon DEF OnWay, NtpdClear
  <2> QED  BY <2>1, <2>5, <1>1, Zenon DEF Proceeds
<1>5. CASE call.cmd = "nsources"
  <2> PICK r : r = [result EXCEPT !.n = m.n]
    BY Zenon
  <2>1. NextSource(r, 0)
    BY <1>5 DEF ChronyAnswer
  <2>2. /\ r.peers = result.peers /\ r.n = m.n /\ r.n \in Nat /\ r.ingress = result.ingress
        /\ r \in [peers : {r.peers}, n : Nat, ids : SUBSET Addrs,
                  clockSource : {r.clockSource},
                  gm : BOOLEAN, ingress : BOOLEAN, portStats : BOOLEAN]
    BY <1>1 DEF Sound, Msg
  <2>3. Sound(r)
    BY <2>2, <1>1, Zenon DEF Sound
  <2>4. ChronyClear => r.n = Len(first) /\ DOMAIN r.peers = {}
    BY <2>2, <1>1, <1>5, Zenon DEF OnWay, ChronyWalk, Honest, ChronyClear
  <2>5. 0 .. 0 - 1 = {} /\ 0 <= r.n
    BY <2>2
  <2>6. ChronyClear => 0 <= r.n /\ Walked(r, 0)
    BY <2>4, <2>5, Zenon DEF Walked
  <2> QED  BY <2>1, <2>3, <2>6, NextSourced, Zenon
<1>6. CASE call.cmd = "sourcedata"
  <2> PICK src : src = m.src[1]
    OBVIOUS
  <2> PICK peer : peer = NewPeerFromChrony(src, NoDetail)
    OBVIOUS
  <2>1. IF src.addr \notin RefClocks /\ flavour = "chronyUnix"
          THEN Goto(result, "ntpdata", src.addr, {[i |-> call.arg, src |-> src]})
          ELSE NextSource(StorePeer(result, call.arg, peer, src), call.arg + 1)
    BY <1>6 DEF ChronyAnswer, ntpdataAddr
  <2>2. call.arg \in Nat
    BY <1>1, <1>6, Zenon DEF OnWay, Fits
  <2>3. Describes(m)
    BY <1>6, Zenon DEF Honest, Carries
  <2>4. src.state \in seen /\ src \in Source
    BY <2>3 DEF Describes, Msg
  <2>5. ChronyClear =>
          /\ call.arg < result.n /\ Walked(result, call.arg)
          /\ src = first[call.arg + 1]
    <3>1. ChronyClear => call.arg < result.n /\ Walked(result, call.arg)
      BY <1>1, <1>6, Zenon DEF OnWay, ChronyWalk
    <3>2. ChronyClear => src = first[call.arg + 1]
      BY <2>3, <1>6, Zenon DEF Describes, ChronyClear
    <3> QED  BY <3>1, <3>2, Zenon
  <2>6. CASE src.addr \notin RefClocks /\ flavour = "chronyUnix"
    <3> PICK x : x = [i |-> call.arg, src |-> src]
      BY Zenon
    <3>1. Goto(result, "ntpdata", src.addr, {x}) /\ x.i = call.arg /\ x.src = src
      BY <2>1, <2>6
    <3>2. /\ Call("ntpdata", src.addr) \in Calls
          /\ Call("ntpdata", src.addr).cmd = "ntpdata"
          /\ Call("ntpdata", src.addr).arg = src.addr
      BY <2>4 DEF Call, Calls, Cmds, Args, Source
    <3>3. Fits(Call("ntpdata", src.addr), {x})
      <4>1. OfSession(Call("ntpdata", src.addr))
        BY <3>2, <2>6, <1>2 DEF OfSession, Chrony
      <4> QED  BY <4>1, <3>1, <3>2, <2>2, <2>4 DEF Fits
    <3>4. ChronyClear => ChronyWalk(result, Call("ntpdata", src.addr), {x})
      BY <3>1, <3>2, <2>5 DEF ChronyWalk
    <3>5. OnWay(result, Call("ntpdata", src.addr), {x})
      BY <3>2, <3>3, <3>4, <1>2, Zenon DEF OnWay, NtpdClear
    <3> QED  BY <3>1, <3>5, <1>1, Zenon DEF Proceeds
  <2>7. CASE ~(src.addr \notin RefClocks /\ flavour = "chronyUnix")
    <3>1. NextSource(StorePeer(result, call.arg, peer, src), call.arg + 1)
      BY <2>1, <2>7, Zenon
    <3>2. /\ peer.addr = src.addr /\ peer.sel = chronyToPeerSelection[src.state]
          /\ peer.off = src.off /\ peer.detail = {} /\ peer.whole = TRUE
      BY DEF NewPeerFromChrony, NoDetail
    <3>3. GoodPeer(peer)
      BY <3>2, <2>4, Zenon DEF GoodPeer, PairConsistent
    <3>4. ChronyClear => Shows(peer, first[call.arg + 1])
      BY <3>2, <2>5, Zenon DEF Shows
    <3> QED  BY <3>1, <3>3, <3>4, <2>2, <2>5, <1>1, StoredInTurn, Zenon
  <2> QED  BY <2>6, <2>7, Zenon
<1>7. CASE call.cmd = "ntpdata"
  <2>1. PICK c \in cur :
          NextSource(StorePeer(result, c.i, NewPeerFromChrony(c.src, {m.src[1]}), c.src),
                     c.i + 1)
    BY <1>7 DEF ChronyAnswer
  <2>2. c.i \in Nat /\ c.src.addr = call.arg /\ c.src.state \in seen
    BY <1>1, <1>7 DEF OnWay, Fits
  <2> PICK d : d = m.src[1]
    OBVIOUS
  <2> PICK peer : peer = NewPeerFromChrony(c.src, {d})
    OBVIOUS
  <2> PICK i : i = c.i
    OBVIOUS
  <2>3. NextSource(StorePeer(result, i, peer, c.src), i + 1)
    BY <2>1, Zenon
  <2>4. ~misordered
    BY <1>3, <1>7 DEF IInv, Daemon, UDP
  <2>5. Describes(m)
    BY <1>7, Zenon DEF Honest, Carries
  <2>6. d.addr = c.src.addr
    BY <2>2, <2>4, <2>5, <1>7 DEF Describes
  <2>7. /\ peer.addr = c.src.addr /\ peer.sel = chronyToPeerSelection[c.src.state]
        /\ peer.off = d.off /\ peer.detail = {d.addr} /\ peer.whole = TRUE
    <3>1. (CHOOSE n \in {d} : TRUE) = d
      OBVIOUS
    <3>2. {n.addr : n \in {d}} = {d.addr}
      OBVIOUS
    <3> QED  BY <3>1, <3>2 DEF NewPeerFromChrony, NoDetail
  <2>8. GoodPeer(peer)
    BY <2>2, <2>6, <2>7 DEF GoodPeer, PairConsistent
  <2>9. ChronyClear =>
          c.i < result.n /\ Walked(result, c.i) /\ c.src = first[c.i + 1]
    BY <1>1, <1>7, Zenon DEF OnWay, ChronyWalk
  <2>10. ChronyClear => d = c.src
    <3>1. ASSUME ChronyClear
          PROVE  d = c.src
      <4>1. PICK k \in DOMAIN first : d = first[k]
        BY <2>5, <3>1, Zenon DEF Describes, ChronyClear
      <4>2. c.i + 1 \in DOMAIN first
        <5>1. result.n = Len(first) /\ first \in Seq(Source)
          BY <2>9, <3>1, Zenon DEF Walked, IInv, Daemon
        <5>2. DOMAIN first = 1 .. Len(first) /\ Len(first) \in Nat
          BY <5>1, LenProperties
        <5> QED  BY <5>1, <5>2, <2>2, <2>9, <3>1
      <4>3. first[k].addr = first[c.i + 1].addr
        BY <4>1, <2>6, <2>9, <3>1, Zenon
      <4>4. k = c.i + 1
        BY <4>2, <4>3, Zenon DEF IInv, Daemon, Listing
      <4> QED  BY <4>1, <4>4, <2>9, <3>1, Zenon
    <3> QED  BY <3>1, Zenon
  <2>11. ChronyClear => i < result.n /\ Walked(result, i) /\ Shows(peer, first[i + 1])
    BY <2>7, <2>9, <2>10, Zenon DEF Shows
  <2> QED  BY <2>2, <2>3, <2>8, <2>11, <1>1, StoredInTurn, Zenon
<1> QED  BY <1>3, <1>4, <1>5, <1>6, <1>7, Zenon DEF ChronyCalls

(* The data of one datagram are that datagram's.                            *)
LEMMA DataOfOne ==
  ASSUME NEW m \in Msg
  PROVE  Data(<<m>>) = m.src
<1>1. Len(<<m>>) = 1 /\ <<m>>[1] = m /\ m.src \in Seq(Source)
  BY DEF Msg
<1> DEFINE P(f) == f = [k \in 0 .. 1 |-> IF k = 0 THEN <<>> ELSE f[k - 1] \o <<m>>[k].src]
<1>2. <<>> \o m.src = m.src
  BY <1>1, ConcatEmptySeq
<1>3. P([k \in 0 .. 1 |-> IF k = 0 THEN <<>> ELSE m.src])
  BY <1>1, <1>2
<1>4. \A f : P(f) => f[1] = m.src
  BY <1>1, <1>2
<1>5. (CHOOSE f : P(f))[1] = m.src
  BY <1>3, <1>4, Zenon
<1> QED  BY <1>1, <1>5 DEF Data

(* A list of associations in one datagram is that datagram's.               *)
LEMMA OneDatagram ==
  ASSUME NEW m \in Msg, m.n = Len(m.src)
  PROVE  GetAssociations(<<m>>) = AddrsOf(m.src)
<1>1. m.src \in Seq(Source)
  BY DEF Msg
<1>2. /\ DOMAIN m.src = 1 .. Len(m.src) /\ Len(m.src) \in Nat
      /\ \A i \in 1 .. Len(m.src) : m.src[i] \in Source
  BY <1>1, LenProperties, ElementOfSeq
<1>3. <<m>>[Len(<<m>>)] = m
  OBVIOUS
<1>4. GetAssociations(<<m>>) = {a \in Addrs : \E i \in 1 .. m.n : m.src[i].addr = a}
  BY <1>3, DataOfOne, Zenon DEF GetAssociations
<1>5. \A i \in 1 .. Len(m.src) : m.src[i].addr \in Addrs
  BY <1>2 DEF Source
<1> QED  BY <1>2, <1>4, <1>5 DEF AddrsOf

(* The answer of ntpd to NTPCheck.                                          *)
LEMMA NTPAnswered ==
  ASSUME IInv, pc = "read", Ntpd, NEW frags, NEW m \in Msg, Honest(m),
         m.cmd = call.cmd, ~misordered => m.arg = call.arg,
         call.cmd = "readvars" => m.ok /\ (call.arg # 0 => m.arg # 0),
         (call.cmd = "readvars" /\ ~misordered /\ ~lost) => Parts(frags) = 1 .. VarParts,
         (call.cmd = "readstatus" /\ NtpdClear) => frags = <<m>>,
         NTPAnswer(frags, m)
  PROVE  Proceeds
<1>1. Sound(result) /\ OnWay(result, call, cur)
  BY Zenon DEF IInv, Collected, Asking
<1>2. /\ ~Chrony /\ flavour = "ntpd"
      /\ flavour \notin {"ptp", "ntpdate", "oscillatord", "chronyUDP", "chronyUnix"}
  BY DEF Chrony, Ntpd
<1>3. call.cmd \in {"readstatus", "readvars"}
  BY <1>1, Zenon DEF OnWay, Fits, OfSession
<1>4. CASE call.cmd = "readstatus"
  <2> PICK ids : ids = GetAssociations(frags)
    OBVIOUS
  <2> PICK r : r = [result EXCEPT !.ids = ids]
    BY Zenon
  <2>1. Goto(r, "readvars", 0, {})
    BY <1>4 DEF NTPAnswer
  <2>2. ids \subseteq Addrs
    BY DEF GetAssociations
  <2>3. /\ r.peers = result.peers /\ r.ids = ids /\ r.ingress = result.ingress
        /\ r \in [peers : {r.peers}, n : Nat, ids : SUBSET Addrs,
                  clockSource : {r.clockSource},
                  gm : BOOLEAN, ingress : BOOLEAN, portStats : BOOLEAN]
    BY <2>2, <1>1 DEF Sound
  <2>4. Sound(r)
    BY <2>3, <1>1, Zenon DEF Sound
  <2>5. /\ Call("readvars", 0) \in Calls
        /\ Call("readvars", 0).cmd = "readvars" /\ Call("readvars", 0).arg = 0
    BY DEF Call, Calls, Cmds, Args
  <2>6. Fits(Call("readvars", 0), {})
    BY <2>5, <1>2 DEF Fits, OfSession
  <2>7. NtpdClear => NtpdWalk(r, Call("readvars", 0))
    <3>1. ASSUME NtpdClear
          PROVE  AddrsOf(first) = DOMAIN r.peers \cup r.ids \cup ({0} \ {0})
      <4>1. m.src = first /\ m.n = Len(first)
        BY <3>1, <1>4, Zenon DEF Honest, NtpdClear
      <4>2. ids = AddrsOf(first)
        BY <4>1, <3>1, <1>4, OneDatagram, Zenon
      <4>3. DOMAIN result.peers = {}
        BY <3>1, <1>1, <1>4, Zenon DEF OnWay, NtpdWalk
      <4> QED  BY <4>2, <4>3, <2>3
    <3> QED  BY <3>1, <2>5 DEF NtpdWalk
  <2>8. OnWay(r, Call("readvars", 0), {})
    BY <2>5, <2>6, <2>7, <1>2, Zenon DEF OnWay, ChronyClear
  <2> QED  BY <2>1, <2>4, <2>8, Zenon DEF Proceeds
<1>5. CASE call.cmd = "readvars" /\ call.arg = 0
  <2>1. NextAssociation(result)
    BY <1>5 DEF NTPAnswer
  <2>2. NtpdClear => AddrsOf(first) = DOMAIN result.peers \cup result.ids
    <3>1. NtpdClear =>
            AddrsOf(first) = DOMAIN result.peers \cup result.ids \cup ({0} \ {0})
      BY <1>1, <1>5, Zenon DEF OnWay, NtpdWalk
    <3> QED  BY <3>1
  <2> QED  BY <2>1, <2>2, <1>1, NextAssociated, Zenon
<1>6. CASE call.cmd = "readvars" /\ call.arg # 0
  <2> PICK id : id = call.arg
    OBVIOUS
  <2> PICK src : src = m.src[1]
    OBVIOUS
  <2> PICK peer : peer = NewPeerFromNTP(src, Parts(frags), 1 .. VarParts)
    OBVIOUS
  <2> PICK r : r = StorePeer(result, id, peer, src)
    OBVIOUS
  <2>1. NextAssociation(r)
    BY <1>6 DEF NTPAnswer
  <2>2. Describes(m)
    BY <1>6, Zenon DEF Honest, Carries
  <2>3. src.state \in seen /\ src.addr = m.arg
    BY <2>2, <1>6 DEF Describes
  <2>4. /\ peer.addr = src.addr /\ peer.sel = chronyToPeerSelection[src.state]
        /\ peer.off = (IF 2 \in Parts(frags) THEN src.off ELSE 0)
        /\ peer.detail = {} /\ peer.whole = (Parts(frags) = 1 .. VarParts)
    BY DEF NewPeerFromNTP, NoDetail
  <2>5. GoodPeer(peer)
    BY <2>3, <2>4, <1>6, Zenon DEF GoodPeer, PairConsistent
  <2>6. ASSUME NtpdClear
        PROVE  \E k \in DOMAIN first : first[k].addr = id /\ Shows(peer, first[k])
    <3>1. PICK k \in DOMAIN first : src = first[k]
      BY <2>2, <2>6, Zenon DEF Describes, NtpdClear
    <3>2. 2 \in 1 .. VarParts
      BY SessionAssumption
    <3>3. Parts(frags) = 1 .. VarParts /\ m.arg = id
      BY <2>6, <1>6, Zenon DEF NtpdClear
    <3>4. Shows(peer, first[k]) /\ first[k].addr = id
      BY <3>1, <3>2, <3>3, <2>3, <2>4, Zenon DEF Shows
    <3> QED  BY <3>4, Zenon
  <2>7. /\ Sound(r) /\ r.ids = result.ids
        /\ DOMAIN r.peers = DOMAIN result.peers \cup {id}
    BY <2>5, <2>6, <1>1, <1>2, StoredPeer
  <2>8. NtpdClear => AddrsOf(first) = DOMAIN r.peers \cup r.ids
    <3>1. NtpdClear =>
            AddrsOf(first) = DOMAIN result.peers \cup result.ids \cup ({id} \ {0})
      BY <1>1, <1>6, Zenon DEF OnWay, NtpdWalk
    <3> QED  BY <3>1, <2>7, <1>6
  <2> QED  BY <2>1, <2>7, <2>8, NextAssociated, Zenon
<1> QED  BY <1>3, <1>4, <1>5, <1>6, Zenon

-----------------------------------------------------------------------------
(* What a read finds                                                       *)
-----------------------------------------------------------------------------
(* Unless something was repeated or overtaken the datagram belongs to the   *)
(* request just made, and if nothing was lost either the last one completes *)
(* the answer.                                                              *)
LEMMA Arrives ==
  ASSUME IInv, pc = "read", MayRead, NEW m, m = Head(toClient),
         NEW frags, frags = Append(got, m)
  PROVE  /\ m \in Msg /\ Honest(m) /\ frags \in Seq(Msg) /\ frags[Len(frags)] = m
         /\ Tail(toClient) \in Seq(Msg) /\ Elems(Tail(toClient)) \subseteq Elems(toClient)
         /\ ~misordered => InStep /\ OfCall(m) /\ toServer = <<>>
         /\ (~misordered /\ ~More(m)) => Tail(toClient) = <<>>
         /\ (~misordered /\ ~More(m) /\ ~lost /\ call.cmd = "readvars" /\ m.ok) =>
              Parts(frags) = 1 .. VarParts
         /\ (call.cmd = "readstatus" /\ NtpdClear) => frags = <<m>>
<1>1. /\ toClient \in Seq(Msg) /\ toClient # <<>> /\ got \in Seq(Msg)
      /\ expired => flavour = "ntpdate"
  BY Zenon DEF IInv, TypeInv, MayRead
<1>2. /\ m = toClient[1] /\ m \in Msg /\ m \in Elems(toClient)
      /\ Len(toClient) \in Nat \ {0}
      /\ Tail(toClient) \in Seq(Msg) /\ Len(Tail(toClient)) = Len(toClient) - 1
      /\ Elems(Tail(toClient)) \subseteq Elems(toClient)
  BY <1>1, Taken
<1>3. Honest(m)
  BY <1>2, Zenon DEF IInv, Answers
<1>4. /\ frags \in Seq(Msg) /\ Len(frags) = Len(got) + 1
      /\ \A k \in 1 .. Len(got) : frags[k] = got[k]
      /\ frags[Len(got) + 1] = m
  BY <1>1, <1>2, AppendProperties
<1>5. frags[Len(frags)] = m
  BY <1>4, Zenon
<1>6. ~misordered => InStep
  BY <1>1, Zenon DEF InStep
<1>7. ~misordered => OfCall(m) /\ toServer = <<>>
  BY <1>1, <1>2, <1>6, Zenon DEF IInv, Underway
<1>8. (~misordered /\ ~More(m)) => Len(toClient) = 1 /\ Tail(toClient) = <<>>
  <2>1. ASSUME ~misordered, ~More(m)
        PROVE  1 \notin 1 .. Len(toClient) - 1
    BY <2>1, <1>2, <1>6, Zenon DEF IInv, Underway
  <2>2. (~misordered /\ ~More(m)) => Len(toClient) = 1
    BY <2>1, <1>2
  <2>3. Len(toClient) = 1 => Tail(toClient) = <<>>
    <3>1. Tail(toClient) # <<>> => Len(Tail(toClient)) \in Nat \ {0}
      BY <1>2, EmptySeq, Zenon
    <3> QED  BY <3>1, <1>2
  <2> QED  BY <2>2, <2>3, Zenon
<1>9. ASSUME ~misordered, ~More(m), ~lost, call.cmd = "readvars", m.ok
      PROVE  Parts(frags) = 1 .. VarParts
  <2>1. /\ \A k \in 1 .. Len(got) : got[k].n = k
        /\ \A k \in 1 .. Len(toClient) : toClient[k].n = Len(got) + k
        /\ Len(got) + Len(toClient) = VarParts
    BY <1>1, <1>2, <1>6, <1>9, Zenon DEF IInv, Numbered
  <2>2. Len(got) \in Nat /\ Len(toClient) = 1 /\ DOMAIN frags = 1 .. Len(frags)
    BY <1>1, <1>4, <1>8, <1>9, LenProperties
  <2>3. VarParts = Len(got) + 1 /\ m.n = Len(got) + 1
    BY <2>1, <2>2, <1>2
  <2>4. \A k \in 1 .. VarParts : frags[k].n = k
    BY <2>1, <2>2, <2>3, <1>4
  <2>5. DOMAIN frags = 1 .. VarParts
    BY <2>2, <2>3, <1>4
  <2>6. \A x : x \in Parts(frags) <=> x \in 1 .. VarParts
    BY <2>4, <2>5, Zenon DEF Parts
  <2> QED  BY <2>6, Zenon
<1>10. ASSUME call.cmd = "readstatus", NtpdClear
       PROVE  frags = <<m>>
  <2>1. got = <<>>
    BY <1>1, <1>6, <1>10, Zenon DEF IInv, Numbered, NtpdClear
  <2> QED  BY <2>1
<1> QED  BY <1>2, <1>3, <1>4, <1>5, <1>6, <1>7, <1>8, <1>9, <1>10, Zenon

(* Whatever was asked and whatever the answer, the session goes on soundly. *)
LEMMA Answered ==
  ASSUME IInv, pc = "read", MayRead, NEW m, m = Head(toClient), ~More(m),
         Answer(Assemble(got, m))
  PROVE  Proceeds
<1> PICK frags : frags = Append(got, m)
  BY Zenon
<1>1. /\ m \in Msg /\ Honest(m) /\ frags[Len(frags)] = m
      /\ ~misordered => OfCall(m)
      /\ (~misordered /\ ~lost /\ call.cmd = "readvars" /\ m.ok) =>
           Parts(frags) = 1 .. VarParts
      /\ (call.cmd = "readstatus" /\ NtpdClear) => frags = <<m>>
  BY Arrives, Zenon
<1>2. IF ~Accepts(frags, m) THEN CallFails
      ELSE CASE flavour \in {"chronyUDP", "chronyUnix"} -> ChronyAnswer(m)
             [] flavour = "ntpd" -> NTPAnswer(frags, m)
             [] flavour = "ptp" -> PTPAnswer(m)
             [] flavour = "ntpdate" -> TimeAnswer
             [] flavour = "oscillatord" -> StatusAnswer
  BY <1>1, Zenon DEF Answer, Assemble
<1>3. Asking /\ OnWay(result, call, cur) /\ OfSession(call)
  BY Zenon DEF IInv, Collected, Asking, OnWay, Fits
<1>4. flavour \in {"chronyUDP", "chronyUnix", "ntpd", "ntpdate", "ptp", "oscillatord"}
  BY Zenon DEF IInv, TypeInv
<1>5. CASE ~Accepts(frags, m)
  <2>1. CallFails
    BY <1>2, <1>5, Zenon
  <2>2. ASSUME flavour = "ptp", call.cmd \notin {"portstats", "timestatus"}
        PROVE  FALSE
    <3>1. ~misordered
      BY <2>2 DEF IInv, Daemon, UDP
    <3>2. call.cmd \in {"current", "default", "parent"} /\ m.cmd = call.cmd
      BY <3>1, <2>2, <1>1, <1>3 DEF OfSession, PTPCalls, OfCall
    <3>3. m.ok
      BY <3>2, <1>1, Zenon DEF Honest
    <3>4. call.cmd # "readvars"
      BY <3>2
    <3> QED  BY <3>2, <3>3, <3>4, <1>5, Zenon DEF Accepts, Decodes, OfItsType
  <2> QED  BY <2>1, <2>2, <1>3, FailedWell, Zenon
<1>6. CASE Accepts(frags, m)
  <2>1. /\ m.ok \/ call.cmd = "readstatus"
        /\ m.cmd = call.cmd /\ (~misordered => m.arg = call.arg)
        /\ (call.cmd = "readvars" /\ call.arg # 0) => m.arg # 0
    BY <1>1, <1>6, Zenon DEF Accepts, Decodes, OfItsType, OfCall
  <2>2. CASE flavour \in {"chronyUDP", "chronyUnix"}
    <3>1. ChronyAnswer(m)
      BY <2>2, <1>2, <1>6, Zenon
    <3>2. CASE Chrony
      <4>1. call.cmd # "readstatus"
        BY <3>2, <2>2, <1>3 DEF OfSession, ChronyCalls
      <4> QED  BY <4>1, <3>1, <3>2, <2>1, <1>1, ChronyAnswered, Zenon
    <3>3. CASE ~Chrony
      <4>1. call.cmd = "serverstats" /\ ~Ntpd /\ flavour # "ptp"
        BY <3>3, <2>2, <1>3 DEF OfSession, Chrony, Ntpd
      <4>2. CloseAnd(result, "ok")
        BY <4>1, <3>1 DEF ChronyAnswer
      <4> QED  BY <4>1, <4>2, <3>3, OnceAnswered, Zenon
    <3> QED  BY <3>2, <3>3, Zenon
  <2>3. CASE flavour = "ntpd"
    <3>1. NTPAnswer(frags, m)
      BY <2>3, <1>2, <1>6
    <3>2. CASE Ntpd
      <4>1. call.cmd = "readvars" => m.ok
        BY <2>1
      <4> QED  BY <4>1, <3>1, <3>2, <2>1, <1>1, NTPAnswered, Zenon
    <3>3. CASE ~Ntpd
      <4>1. call.cmd = "servervars" /\ ~Chrony /\ flavour # "ptp"
        BY <3>3, <2>3, <1>3 DEF OfSession, Chrony, Ntpd
      <4>2. CloseAnd(result, "ok")
        BY <4>1, <3>1 DEF NTPAnswer
      <4> QED  BY <4>1, <4>2, <3>3, OnceAnswered, Zenon
    <3> QED  BY <3>2, <3>3, Zenon
  <2>4. CASE flavour = "ptp"
    <3>1. PTPAnswer(m)
      BY <2>4, <1>2, <1>6
    <3>2. m.ok
      BY <2>1, <2>4, <1>3 DEF OfSession, PTPCalls
    <3> QED  BY <3>1, <3>2, <2>1, <2>4, <1>1, PTPAnswered, Zenon
  <2>5. CASE flavour = "ntpdate"
    <3>1. TimeAnswer
      BY <2>5, <1>2, <1>6
    <3> QED  BY <3>1, <2>5, OnceAnswered, Zenon
  <2>6. CASE flavour = "oscillatord"
    <3>1. StatusAnswer
      BY <2>6, <1>2, <1>6
    <3>2. ~Chrony /\ ~Ntpd /\ flavour # "ptp"
      BY <2>6 DEF Chrony, Ntpd
    <3> QED  BY <3>1, <3>2, OnceAnswered, Zenon DEF StatusAnswer
  <2> QED  BY <2>2, <2>3, <2>4, <2>5, <2>6, <1>4, Zenon
<1> QED  BY <1>5, <1>6, Zenon

-----------------------------------------------------------------------------
(* What the daemon answers                                                 *)
-----------------------------------------------------------------------------
(* The datagrams of an answer, numbered from 1, are a sequence.             *)
LEMMA FcnIsSeq ==
  ASSUME NEW S, NEW n \in Nat, NEW f \in [1 .. n -> S]
  PROVE  f \in Seq(S) /\ Len(f) = n
<1>1. f \in Seq(S)
  BY SeqDef
<1>2. 1 .. Len(f) = 1 .. n /\ Len(f) \in Nat
  BY <1>1, LenProperties
<1> QED  BY <1>1, <1>2

(* Dividing L associations among datagrams of w: how many it takes, and     *)
(* that every one but the last is full.                                     *)
LEMMA Divided ==
  ASSUME NEW L \in Nat, NEW w \in Nat \ {0}
  PROVE  \A k \in {(L + w - 1) \div w} :
           /\ k \in Nat /\ (k = 0 <=> L = 0)
           /\ (L # 0 /\ L <= w) => k = 1
           /\ \A i \in 1 .. k - 1 : i * w <= L
<1> SUFFICES ASSUME NEW k, k = (L + w - 1) \div w
             PROVE  /\ k \in Nat /\ (k = 0 <=> L = 0)
                    /\ (L # 0 /\ L <= w) => k = 1
                    /\ \A i \in 1 .. k - 1 : i * w <= L
  BY Zenon
<1>1. k \in Int /\ k * w <= L + w - 1 /\ L + w - 1 < k * w + w
  OBVIOUS
<1>2. k >= 0
  <2>1. k < 0 => k * w + w <= 0
    BY <1>1
  <2> QED  BY <2>1, <1>1
<1>3. k = 0 => L = 0
  BY <1>1
<1>4. k >= 1 => L >= 1
  <2>1. k >= 1 => k * w >= w
    BY <1>1
  <2> QED  BY <2>1, <1>1
<1>5. L <= w => k <= 1
  <2>1. k >= 2 => k * w >= w + w
    BY <1>1
  <2> QED  BY <2>1, <1>1
<1>6. ASSUME NEW i \in 1 .. k - 1
      PROVE  i * w <= L
  <2>1. i + 1 <= k => (i + 1) * w <= k * w
    BY <1>1
  <2>2. (i + 1) * w = i * w + w
    BY <1>1
  <2>3. i + 1 <= k /\ i * w \in Int /\ k * w \in Int
    BY <1>1
  <2> QED  BY <2>1, <2>2, <2>3, <1>1
<1> QED  BY <1>1, <1>2, <1>3, <1>4, <1>5, <1>6

(* The datagrams s of an answer to request r.                               *)
Replies(r, s) ==
  /\ s \in Seq(Msg) /\ Len(s) >= 1
  /\ \A m \in Elems(s) :
       Honest(m) /\ m.cmd = r.cmd /\ m.arg = r.arg /\ m.seq = r.seq
  /\ \A k \in 1 .. Len(s) - 1 : s[k].more
  /\ Len(s) > 1 => r.cmd \in {"readstatus", "readvars"}
  /\ (r.cmd = "readvars" /\ (s[1].ok \/ Len(s) > 1)) =>
       Len(s) = VarParts /\ \A k \in 1 .. Len(s) : s[k].ok /\ s[k].n = k

(* An answer of one datagram.                                               *)
LEMMA RepliesOne ==
  ASSUME NEW r, NEW d \in Msg, Honest(d), d.cmd = r.cmd, d.arg = r.arg,
         d.seq = r.seq, r.cmd = "readvars" => ~d.ok
  PROVE  Replies(r, <<d>>)
<1>1. <<d>> \in Seq(Msg) /\ Len(<<d>>) = 1 /\ <<d>>[1] = d
  OBVIOUS
<1>2. Elems(<<d>>) = {d} /\ 1 .. 1 - 1 = {}
  BY <1>1 DEF Elems
<1>3. 1 >= 1 /\ ~(1 > 1)
  OBVIOUS
<1> QED  BY <1>1, <1>2, <1>3, Zenon DEF Replies

(* Looking a source up by its address finds a source of that address.       *)
LEMMA Found ==
  ASSUME NEW a, sources \in Seq(Source), StatesOf(sources) \subseteq seen
  PROVE  /\ Find(a) \in Seq(Source)
         /\ Find(a) # <<>> =>
              /\ Len(Find(a)) = 1 /\ Find(a)[1].addr = a /\ Find(a)[1].state \in seen
              /\ \E k \in DOMAIN sources : Find(a)[1] = sources[k]
<1>1. CASE \E k \in DOMAIN sources : sources[k].addr = a
  <2> PICK k : k = CHOOSE j \in DOMAIN sources : sources[j].addr = a
    OBVIOUS
  <2>1. k \in DOMAIN sources /\ sources[k].addr = a
    BY <1>1, Zenon
  <2>2. Find(a) = <<sources[k]>>
    BY <1>1, Zenon DEF Find
  <2>3. sources[k] \in Source
    BY <2>1, LenProperties, ElementOfSeq
  <2>4. sources[k].state \in seen
    BY <2>1, Zenon DEF StatesOf
  <2>5. <<sources[k]>> \in Seq(Source) /\ Len(<<sources[k]>>) = 1 /\ <<sources[k]>>[1] = sources[k]
    BY <2>3
  <2> QED  BY <2>1, <2>2, <2>4, <2>5, Zenon
<1>2. CASE ~ \E k \in DOMAIN sources : sources[k].addr = a
  <2>1. Find(a) = <<>>
    BY <1>2, Zenon DEF Find
  <2> QED  BY <2>1, EmptySeq, Zenon
<1> QED  BY <1>1, <1>2, Zenon

(* ntpd's list of associations, in as many datagrams as it takes.           *)
LEMMA Chunked ==
  ASSUME IInv, NEW r \in Req, r.cmd = "readstatus", flavour = "ntpd"
  PROVE  Replies(r, Chunks(r))
<1> PICK L : L = Len(sources)
  BY Zenon
<1> PICK n : n = (L + room - 1) \div room
  OBVIOUS
<1>1. /\ sources \in Seq(Source) /\ room \in Nat \ {0} /\ changes \in Nat
      /\ changes = 0 => sources = first
  BY DEF IInv, TypeInv, Daemon
<1>2. /\ L \in Nat /\ DOMAIN sources = 1 .. L
      /\ \A i \in 1 .. L : sources[i] \in Source
  BY <1>1, LenProperties, ElementOfSeq
<1>3. /\ n \in Nat /\ (n = 0 <=> L = 0)
      /\ (L # 0 /\ L <= room) => n = 1
      /\ \A i \in 1 .. n - 1 : i * room <= L
  BY <1>1, <1>2, Divided, Zenon
<1>4. ~Split => Len(first) <= room
  <2>1. Len(first) \in Nat
    BY LenProperties DEF IInv, Daemon
  <2> QED  BY <2>1, <1>1 DEF Split
<1>5. ASSUME NEW d \in Msg, d.cmd = "readstatus",
             (changes = 0 /\ ~Split) => d.src = first /\ d.n = Len(first) /\ ~d.more
      PROVE  Honest(d)
  BY <1>5 DEF Honest, Carries
<1>6. CASE n = 0
  <2> PICK d : d = Datagram(r, TRUE, 0, <<>>, FALSE)
    BY Zenon
  <2>1. Chunks(r) = <<d>>
    BY <1>6, Zenon DEF Chunks
  <2>2. <<>> \in Seq(Source)
    BY EmptySeq, Zenon
  <2>3. /\ d \in Msg /\ d.cmd = r.cmd /\ d.arg = r.arg /\ d.seq = r.seq
        /\ d.n = 0 /\ d.src = <<>> /\ d.more = FALSE
    BY <2>2 DEF Datagram, Req, Msg
  <2>4. L = 0 => sources = <<>>
    <3>1. sources # <<>> => Len(sources) \in Nat \ {0}
      BY <1>1, EmptySeq, Zenon
    <3> QED  BY <3>1
  <2>5. Honest(d)
    BY <2>3, <2>4, <1>1, <1>3, <1>5, <1>6, Zenon
  <2> QED  BY <2>1, <2>3, <2>5, RepliesOne, Zenon
<1>7. CASE n # 0
  <2> DEFINE part(i) == SubSeq(sources, (i - 1) * room + 1,
                               IF i < n THEN i * room ELSE L)
             f == [i \in 1 .. n |-> Datagram(r, TRUE, Len(part(i)), part(i), i < n)]
  <2>1. Chunks(r) = f
    BY <1>7, Zenon DEF Chunks
  <2>2. ASSUME NEW i \in 1 .. n
        PROVE  /\ part(i) \in Seq(Source) /\ Len(part(i)) \in Nat
               /\ (n = 1 => part(i) = sources)
    <3> PICK a, b : a = (i - 1) * room + 1 /\ b = IF i < n THEN i * room ELSE L
      OBVIOUS
    <3>1. a \in Int /\ a >= 1
      <4>1. (i - 1) * room \in Int /\ (i - 1) * room >= 0
        BY <1>1, <1>3
      <4> QED  BY <4>1
    <3>2. b \in Int /\ b <= L
      BY <1>1, <1>2, <1>3
    <3>3. \A j \in a .. b : sources[j] \in Source
      BY <3>1, <3>2, <1>2
    <3>4. SubSeq(sources, a, b) \in Seq(Source)
      BY <3>1, <3>2, <3>3, SubSeqProperties
    <3>5. Len(SubSeq(sources, a, b)) \in Nat
      BY <3>4, LenProperties
    <3>6. n = 1 => a = 1 /\ b = L
      BY <1>1
    <3>7. SubSeq(sources, 1, L) = sources
      BY <1>1, SubSeqFull
    <3> QED  BY <3>4, <3>5, <3>6, <3>7, Zenon
  <2> HIDE DEF part
  <2>3. ASSUME NEW i \in 1 .. n
        PROVE  /\ f[i] \in Msg /\ f[i].cmd = r.cmd /\ f[i].arg = r.arg
               /\ f[i].seq = r.seq /\ f[i].n = Len(part(i)) /\ f[i].src = part(i)
               /\ f[i].more = (i < n)
    <3>1. f[i] = Datagram(r, TRUE, Len(part(i)), part(i), i < n)
      OBVIOUS
    <3> HIDE DEF f
    <3> PICK q : q = part(i)
      OBVIOUS
    <3>2. q \in Seq(Source) /\ Len(q) \in Nat
      BY <2>2, Zenon
    <3> QED  BY <3>1, <3>2 DEF Datagram, Req, Msg
  <2>4. f \in [1 .. n -> Msg]
    BY <2>3, Zenon
  <2> HIDE DEF f
  <2>5. f \in Seq(Msg) /\ Len(f) = n
    BY <2>4, <1>3, FcnIsSeq
  <2>6. ASSUME NEW i \in 1 .. n
        PROVE  Honest(f[i])
    <3>1. ASSUME changes = 0, ~Split
          PROVE  f[i].src = first /\ f[i].n = Len(first) /\ ~f[i].more
      <4>1. sources = first /\ n = 1
        BY <3>1, <1>1, <1>2, <1>3, <1>4, <1>7
      <4>2. ~(i < n)
        BY <4>1
      <4> QED  BY <4>1, <4>2, <2>2, <2>3, Zenon
    <3> QED  BY <3>1, <2>3, <1>5, Zenon
  <2>7. \A m \in Elems(f) :
          Honest(m) /\ m.cmd = r.cmd /\ m.arg = r.arg /\ m.seq = r.seq
    BY <2>3, <2>5, <2>6, Zenon DEF Elems
  <2>8. \A k \in 1 .. Len(f) - 1 : f[k].more
    <3>1. \A k \in 1 .. n - 1 : k \in 1 .. n /\ k < n
      BY <1>3
    <3> QED  BY <3>1, <2>3, <2>5, Zenon
  <2>9. Len(f) >= 1 /\ r.cmd # "readvars"
    BY <2>5, <1>3, <1>7
  <2> QED  BY <2>1, <2>5, <2>7, <2>8, <2>9, Zenon DEF Replies
<1> QED  BY <1>6, <1>7, Zenon

(* Every answer of the daemon is a truthful answer to its request.          *)
LEMMA Replied ==
  ASSUME IInv, NEW r \in Req, Asked(r)
  PROVE  Replies(r, Reply(r))
<1>1. /\ sources \in Seq(Source) /\ StatesOf(sources) \subseteq seen
      /\ changes \in Nat /\ (changes = 0 => sources = first)
      /\ Len(sources) \in Nat /\ DOMAIN sources = 1 .. Len(sources)
      /\ <<>> \in Seq(Source) /\ r.cmd \in Cmds
  BY LenProperties, EmptySeq DEF IInv, TypeInv, Daemon, Req
<1>3. CASE r.cmd = "nsources"
  <2> PICK d : d = Datagram(r, TRUE, Len(sources), <<>>, FALSE)
    BY Zenon
  <2>1. Reply(r) = <<d>>
    BY <1>3, Zenon DEF Reply
  <2>2. /\ d \in Msg /\ d.cmd = r.cmd /\ d.arg = r.arg /\ d.seq = r.seq
        /\ d.n = Len(sources)
    BY <1>1 DEF Datagram, Req, Msg
  <2>3. Honest(d)
    BY <2>2, <1>1, <1>3, Zenon DEF Honest, Carries
  <2> QED  BY <2>1, <2>2, <2>3, <1>3, RepliesOne, Zenon
<1>4. CASE r.cmd = "sourcedata"
  <2>1. r.arg \in Nat
    BY <1>4, Zenon DEF Asked
  <2>2. CASE r.arg < Len(sources)
    <3> PICK src : src = <<sources[r.arg + 1]>>
      BY Zenon
    <3>2. r.arg + 1 \in DOMAIN sources
      BY <2>1, <2>2, <1>1
    <3>3. sources[r.arg + 1] \in Source /\ sources[r.arg + 1].state \in seen
      BY <3>2, <1>1, ElementOfSeq DEF StatesOf
    <3>4. src \in Seq(Source) /\ Len(src) = 1 /\ src[1] = sources[r.arg + 1]
      BY <3>3
    <3> PICK d : d = Datagram(r, TRUE, 0, src, FALSE)
      BY Zenon
    <3>5. Reply(r) = <<d>>
      BY <1>4, <2>2, Zenon DEF Reply
    <3>6. /\ d \in Msg /\ d.cmd = r.cmd /\ d.arg = r.arg /\ d.seq = r.seq
          /\ d.src = src
      BY <3>4 DEF Datagram, Req, Msg
    <3>7. Describes(d)
      BY <3>2, <3>3, <3>4, <3>6, <1>1, <1>4, Zenon DEF Describes
    <3>8. Honest(d)
      BY <3>6, <3>7, <1>4, Zenon DEF Honest
    <3> QED  BY <3>5, <3>6, <3>8, <1>4, RepliesOne, Zenon
  <2>3. CASE ~(r.arg < Len(sources))
    <3> PICK d : d = Datagram(r, FALSE, 0, <<>>, FALSE)
      BY Zenon
    <3>1. Reply(r) = <<d>>
      BY <1>4, <2>3, Zenon DEF Reply
    <3>2. /\ d \in Msg /\ d.cmd = r.cmd /\ d.arg = r.arg /\ d.seq = r.seq
          /\ ~d.ok
      BY <1>1 DEF Datagram, Req, Msg
    <3>3. Honest(d)
      BY <3>2, <1>4, Zenon DEF Honest, Carries
    <3> QED  BY <3>1, <3>2, <3>3, <1>4, <2>3, RepliesOne, Zenon
  <2> QED  BY <2>2, <2>3, Zenon
<1>5. ASSUME NEW d \in Msg, d.src = Find(r.arg), Find(r.arg) # <<>>, d.arg = r.arg,
             d.cmd \in {"ntpdata", "readvars"}
      PROVE  Honest(d)
  <2>0. /\ Len(Find(r.arg)) = 1 /\ Find(r.arg)[1].addr = r.arg
        /\ Find(r.arg)[1].state \in seen
        /\ \E k \in DOMAIN sources : Find(r.arg)[1] = sources[k]
    BY <1>1, <1>5, Found
  <2>1. /\ Len(d.src) = 1 /\ d.src[1].addr = r.arg /\ d.src[1].state \in seen
        /\ \E k \in DOMAIN sources : d.src[1] = sources[k]
    BY <2>0, <1>5, Zenon
  <2>2. d.cmd # "sourcedata"
    BY <1>5
  <2>3. Describes(d)
    BY <2>1, <2>2, <1>1, <1>5, Zenon DEF Describes
  <2> QED  BY <2>3, <1>5 DEF Honest
<1>6. CASE r.cmd = "ntpdata"
  <2> PICK src : src = Find(r.arg)
    OBVIOUS
  <2>1. src \in Seq(Source)
    BY <1>1, Found, Zenon
  <2>2. CASE src # <<>>
    <3> PICK d : d = Datagram(r, TRUE, 0, src, FALSE)
      BY Zenon
    <3>1. Reply(r) = <<d>>
      BY <1>6, <2>2, Zenon DEF Reply
    <3>2. /\ d \in Msg /\ d.cmd = r.cmd /\ d.arg = r.arg /\ d.seq = r.seq
          /\ d.src = src
      BY <2>1 DEF Datagram, Req, Msg
    <3>3. Honest(d)
      BY <3>2, <2>2, <1>5, <1>6, Zenon
    <3> QED  BY <3>1, <3>2, <3>3, <1>6, <2>2, RepliesOne, Zenon
  <2>3. CASE src = <<>>
    <3> PICK d : d = Datagram(r, FALSE, 0, src, FALSE)
      BY Zenon
    <3>1. Reply(r) = <<d>>
      BY <1>6, <2>3, Zenon DEF Reply
    <3>2. /\ d \in Msg /\ d.cmd = r.cmd /\ d.arg = r.arg /\ d.seq = r.seq
          /\ ~d.ok
      BY <2>1 DEF Datagram, Req, Msg
    <3>3. Honest(d)
      BY <3>2, <1>6, Zenon DEF Honest, Carries
    <3> QED  BY <3>1, <3>2, <3>3, <1>6, <2>3, RepliesOne, Zenon
  <2> QED  BY <2>2, <2>3, Zenon
<1>7. CASE r.cmd = "readstatus"
  <2>1. Reply(r) = Chunks(r)
    BY <1>7 DEF Reply
  <2>2. flavour = "ntpd"
    BY <1>7 DEF Asked
  <2> QED  BY <2>1, <2>2, <1>7, Chunked, Zenon
<1>8. CASE r.cmd = "readvars" /\ r.arg # 0 /\ Find(r.arg) = <<>>
  <2> PICK d : d = Datagram(r, FALSE, 0, <<>>, FALSE)
    BY Zenon
  <2>1. Reply(r) = <<d>>
    BY <1>8, Zenon DEF Reply
  <2>2. /\ d \in Msg /\ d.cmd = r.cmd /\ d.arg = r.arg /\ d.seq = r.seq
        /\ ~d.ok
    BY <1>1 DEF Datagram, Req, Msg
  <2>3. Honest(d)
    BY <2>2, <1>8, Zenon DEF Honest, Carries
  <2> QED  BY <2>1, <2>2, <2>3, <1>8, RepliesOne, Zenon
<1>9. CASE r.cmd = "readvars" /\ (r.arg = 0 \/ Find(r.arg) # <<>>)
  <2> PICK src : src = IF r.arg = 0 THEN <<>> ELSE Find(r.arg)
    OBVIOUS
  <2> DEFINE f == [i \in 1 .. VarParts |-> Datagram(r, TRUE, i, src, i < VarParts)]
  <2>1. Reply(r) = f
    BY <1>9 DEF Reply
  <2>2. src \in Seq(Source) /\ VarParts \in Nat /\ VarParts >= 2
    BY <1>1, Found, SessionAssumption
  <2>3. ASSUME NEW i \in 1 .. VarParts
        PROVE  /\ f[i] \in Msg /\ f[i].cmd = r.cmd /\ f[i].arg = r.arg
               /\ f[i].seq = r.seq /\ f[i].ok /\ f[i].n = i /\ f[i].src = src
               /\ f[i].more = (i < VarParts)
    <3>1. f[i] = Datagram(r, TRUE, i, src, i < VarParts)
      OBVIOUS
    <3> HIDE DEF f
    <3> QED  BY <3>1, <2>2 DEF Datagram, Req, Msg
  <2>4. f \in [1 .. VarParts -> Msg]
    BY <2>3, Zenon
  <2> HIDE DEF f
  <2>5. f \in Seq(Msg) /\ Len(f) = VarParts
    BY <2>2, <2>4, FcnIsSeq
  <2>6. ASSUME NEW i \in 1 .. VarParts
        PROVE  Honest(f[i])
    <3>1. CASE r.arg = 0
      BY <3>1, <2>3, <1>9 DEF Honest, Carries
    <3>2. CASE r.arg # 0
      BY <3>2, <2>3, <1>5, <1>9
    <3> QED  BY <3>1, <3>2, Zenon
  <2>7. ASSUME NEW m \in Elems(f)
        PROVE  Honest(m) /\ m.cmd = r.cmd /\ m.arg = r.arg /\ m.seq = r.seq
    <3>1. PICK i \in 1 .. VarParts : m = f[i]
      BY <2>5, Zenon DEF Elems
    <3> QED  BY <3>1, <2>3, <2>6, Zenon
  <2>8. \A k \in 1 .. Len(f) - 1 : f[k].more
    <3>1. \A k \in 1 .. VarParts - 1 : k \in 1 .. VarParts /\ k < VarParts
      BY <2>2
    <3> QED  BY <3>1, <2>3, <2>5, Zenon
  <2>9. Len(f) >= 1
    BY <2>2, <2>5
  <2> QED  BY <2>1, <2>3, <2>5, <2>7, <2>8, <2>9, <1>9, Zenon DEF Replies
<1>10. CASE r.cmd = "parent"
  <2> PICK n : n = IF "gm" \in able THEN 1 ELSE 0
    OBVIOUS
  <2> PICK d : d = Datagram(r, TRUE, n, <<>>, FALSE)
    BY Zenon
  <2>1. Reply(r) = <<d>>
    BY <1>10, Zenon DEF Reply
  <2>2. /\ d \in Msg /\ d.cmd = r.cmd /\ d.arg = r.arg /\ d.seq = r.seq
        /\ d.ok /\ d.n = n
    BY <1>1 DEF Datagram, Req, Msg
  <2>3. Honest(d)
    <3>1. n = 1 <=> "gm" \in able
      OBVIOUS
    <3> QED  BY <3>1, <2>2, <1>10, Zenon DEF Honest, Carries
  <2> QED  BY <2>1, <2>2, <2>3, <1>10, RepliesOne, Zenon
<1>11. CASE r.cmd \in {"portstats", "timestatus"}
  <2>1. CASE "np" \in able
    <3> PICK d : d = Datagram(r, TRUE, 0, <<>>, FALSE)
      BY Zenon
    <3>1. Reply(r) = <<d>>
      BY <2>1, <1>11, Zenon DEF Reply
    <3>2. /\ d \in Msg /\ d.cmd = r.cmd /\ d.arg = r.arg /\ d.seq = r.seq
          /\ d.ok
      BY <1>1 DEF Datagram, Req, Msg
    <3>3. Honest(d)
      BY <3>2, <2>1, <1>11, Zenon DEF Honest, Carries
    <3> QED  BY <3>1, <3>2, <3>3, <1>11, RepliesOne, Zenon
  <2>2. CASE "np" \notin able
    <3> PICK d : d = Datagram(r, FALSE, 0, <<>>, FALSE)
      BY Zenon
    <3>1. Reply(r) = <<d>>
      <4>1. ("np" \in able) = FALSE
        BY <2>2
      <4>2. Reply(r) = <<Datagram(r, "np" \in able, 0, <<>>, FALSE)>>
        BY <1>11, Zenon DEF Reply
      <4> QED  BY <4>1, <4>2, Zenon
    <3>2. /\ d \in Msg /\ d.cmd = r.cmd /\ d.arg = r.arg /\ d.seq = r.seq
          /\ ~d.ok
      BY <1>1 DEF Datagram, Req, Msg
    <3>3. Honest(d)
      BY <3>2, <2>2, <1>11, Zenon DEF Honest, Carries
    <3> QED  BY <3>1, <3>2, <3>3, <1>11, RepliesOne, Zenon
  <2> QED  BY <2>1, <2>2, Zenon
<1>12. CASE r.cmd = "status"
  <2> PICK d : d = Datagram(r, "whole" \in able, 0, <<>>, FALSE)
    BY Zenon
  <2>1. Reply(r) = <<d>>
    BY <1>12, Zenon DEF Reply
  <2>2. /\ d \in Msg /\ d.cmd = r.cmd /\ d.arg = r.arg /\ d.seq = r.seq
        /\ d.n = 0
    BY <1>1 DEF Datagram, Req, Msg
  <2>3. Honest(d)
    BY <2>2, <1>12, Zenon DEF Honest, Carries
  <2> QED  BY <2>1, <2>2, <2>3, <1>12, RepliesOne, Zenon
<1>13. CASE r.cmd \in {"tracking", "serverstats", "servervars", "time", "current", "default"}
  <2> PICK d : d = Datagram(r, TRUE, 0, <<>>, FALSE)
    BY Zenon
  <2>1. Reply(r) = <<d>>
    BY <1>13, Zenon DEF Reply
  <2>2. /\ d \in Msg /\ d.cmd = r.cmd /\ d.arg = r.arg /\ d.seq = r.seq
        /\ d.ok
    BY <1>1 DEF Datagram, Req, Msg
  <2>3. Honest(d)
    BY <2>2, <1>13, Zenon DEF Honest, Carries
  <2> QED  BY <2>1, <2>2, <2>3, <1>13, RepliesOne, Zenon
<1> QED
  <2>1. r.cmd \in {"nsources", "sourcedata", "ntpdata", "readstatus", "readvars",
                   "parent", "portstats", "timestatus", "status"}
                  \cup {"tracking", "serverstats", "servervars", "time", "current",
                        "default"}
    BY <1>1 DEF Cmds, PTPCalls, ChronyCalls
  <2> QED  BY <2>1, <1>3, <1>4, <1>6, <1>7, <1>8, <1>9, <1>10, <1>11, <1>12, <1>13

-----------------------------------------------------------------------------
(* Each step preserves the invariant                                       *)
-----------------------------------------------------------------------------
(* A daemon's sources are in states the model gives them.                   *)
LEMMA StatesTyped ==
  ASSUME NEW ss \in Seq(Source)
  PROVE  StatesOf(ss) \subseteq States
<1>1. \A i \in DOMAIN ss : ss[i] \in Source
  BY LenProperties, ElementOfSeq
<1>2. \A x \in Source : x.state \in States
  BY DEF Source
<1> QED  BY <1>1, <1>2, Zenon DEF StatesOf

(* The invariant holds when the session begins.                             *)
LEMMA InitInv == Init => IInv
<1> SUFFICES ASSUME Init PROVE IInv
  OBVIOUS
<1>1. sources \in Seq(Source) /\ Listing(sources)
  <2>1. CASE sources = <<>>
    <3>1. DOMAIN sources = {} /\ sources \in Seq(Source)
      BY <2>1
    <3> QED  BY <3>1, Zenon DEF Listing
  <2>2. CASE sources \in Listings
    <3>1. Listing(sources) /\ sources \in UNION {[1 .. n -> Source] : n \in 0 .. MaxSources}
      BY <2>2, Zenon DEF Listings
    <3>2. sources \in Seq(Source)
      BY <3>1, SeqDef, SessionAssumption
    <3> QED  BY <3>1, <3>2, Zenon
  <2> QED  BY <2>1, <2>2 DEF Init
<1>2. /\ first = sources /\ changes = 0 /\ faults = 0 /\ seen = StatesOf(sources)
      /\ lost = FALSE /\ misordered = FALSE /\ broke = FALSE /\ used = {}
      /\ pc = "dial" /\ outcome = "running" /\ Sequence = 1 /\ expired = FALSE
      /\ sock = FALSE /\ toServer = <<>> /\ toClient = <<>> /\ got = <<>>
      /\ result = [peers |-> NoPeers, n |-> 0, ids |-> {}, clockSource |-> "none",
                   gm |-> FALSE, ingress |-> FALSE, portStats |-> FALSE]
  BY Zenon DEF Init
<1>3. DOMAIN result.peers = {} /\ result.ingress = FALSE
      /\ result \in [peers : {result.peers}, n : Nat, ids : SUBSET Addrs,
                     clockSource : {result.clockSource},
                     gm : BOOLEAN, ingress : BOOLEAN, portStats : BOOLEAN]
  BY <1>2 DEF NoPeers
<1>4. StatesOf(sources) \subseteq States
  BY <1>1, StatesTyped, Zenon
<1>5. TypeInv
  <2>1. flavour \in {"chronyUDP", "chronyUnix", "ntpd", "ntpdate", "ptp", "oscillatord"}
    BY DEF Init, Sessions
  <2>2. room \in Nat /\ (flavour = "ntpd" => room # 0)
    BY SessionAssumption DEF Init
  <2>3. <<>> \in Seq(Msg) /\ <<>> \in Seq(Req)
    BY EmptySeq, Zenon
  <2>4. 1 \in Nat \ {0} /\ 0 \in Nat /\ FALSE \in BOOLEAN
    OBVIOUS
  <2>5. /\ "dial" \in {"dial", "send", "read", "report", "done"}
        /\ "running" \in {"running", "ok", "error"}
    OBVIOUS
  <2> QED  BY <2>1, <2>2, <2>3, <2>4, <2>5, <1>2, Zenon DEF TypeInv
<1>6. Daemon
  BY <1>1, <1>2, <1>4, Zenon DEF Daemon
<1>7. command \notin {"ntpdiag", "stats", "offset"}
  BY DEF Init, Sessions
<1>8. Control
  BY <1>2, <1>3, <1>7 DEF Control, Asking, SocketRemoved
<1>9. Underway /\ Numbered /\ Matched /\ Verdict
  BY <1>2 DEF Underway, Numbered, Matched, Verdict
<1>10. Elems(<<>>) = {}
  BY DEF Elems
<1>11. Answers
  BY <1>2, <1>10, Zenon DEF Answers
<1>12. Collected
  <2>1. Sound(result)
    BY <1>3, Zenon DEF Sound
  <2> QED  BY <2>1, <1>2, Zenon DEF Collected, Asking
<1> QED  BY <1>5, <1>6, <1>8, <1>9, <1>11, <1>12, Zenon DEF IInv

(* The first request of every session is one it may make.                   *)
LEMMA FirstFits ==
  ASSUME IInv, pc = "dial", NEW s
  PROVE  OnWay(result, FirstCall, s)
<1>1. flavour \in {"chronyUDP", "chronyUnix", "ntpd", "ntpdate", "ptp", "oscillatord"}
  BY Zenon DEF IInv, TypeInv
<1>2. DOMAIN result.peers = {}
  BY Zenon DEF IInv, Control
<1>3. /\ FirstCall \in Calls
      /\ flavour = "ptp" => FirstCall.cmd = "current"
      /\ flavour = "ntpdate" => FirstCall.cmd = "time" /\ FirstCall.arg \in Nat
      /\ flavour = "oscillatord" => FirstCall.cmd = "status"
      /\ Ntpd => FirstCall.cmd = "readstatus"
      /\ (flavour = "ntpd" /\ ~Ntpd) => FirstCall.cmd = "servervars"
      /\ Chrony => FirstCall.cmd = "tracking"
      /\ (flavour = "chronyUnix" /\ ~Chrony) => FirstCall.cmd = "serverstats"
      /\ flavour = "chronyUDP" => Chrony
  BY <1>1 DEF FirstCall, Call, Calls, Cmds, Args, PTPCalls, ChronyCalls, Chrony, Ntpd
<1>4. /\ FirstCall.cmd \notin {"sourcedata", "ntpdata", "readvars", "nsources",
                               "portstats", "timestatus"}
      /\ flavour \in {"ntpd", "ptp", "ntpdate", "oscillatord"} => ~Chrony
      /\ flavour \in {"ptp", "ntpdate", "oscillatord", "chronyUDP", "chronyUnix"} => ~Ntpd
  BY <1>1, <1>3 DEF Chrony, Ntpd
<1>5. Fits(FirstCall, s)
  <2>1. OfSession(FirstCall)
    BY <1>3, <1>4 DEF OfSession, PTPCalls, ChronyCalls
  <2> QED  BY <2>1, <1>4 DEF Fits
<1>6. ChronyWalk(result, FirstCall, s) /\ NtpdWalk(result, FirstCall)
  BY <1>2, <1>4 DEF ChronyWalk, NtpdWalk
<1> QED  BY <1>3, <1>4, <1>5, <1>6 DEF OnWay

(* Dialling only makes the first request the one to send.                   *)
LEMMA DialStep ==
  ASSUME IInv, Dial
  PROVE  IInv'
<1> USE DEF netVars, daemonVars, histVars
<1>1. /\ pc = "dial" /\ pc' = "send" /\ call' = FirstCall /\ sock' = (flavour \in Unix)
      /\ UNCHANGED <<flavour, command, cur, got, Sequence, expired, result, outcome,
                     toServer, toClient, faults, sources, room, able, changes, first,
                     used, lost, misordered, broke, seen>>
  BY Zenon DEF Dial
<1>2. TypeInv'
  <2>1. sock' \in BOOLEAN
    BY <1>1
  <2> QED  BY <2>1, <1>1, Zenon DEF IInv, TypeInv
<1>3. Daemon'
  BY <1>1, Zenon DEF IInv, Daemon, Listing, StatesOf
<1>4. outcome = "running" /\ toServer = <<>> /\ toClient = <<>>
      /\ command \notin {"ntpdiag", "stats", "offset"}
  BY <1>1, Zenon DEF IInv, Control
<1>5. Control'
  BY <1>1, <1>4, Zenon DEF Control, Asking, SocketRemoved
<1>6. Underway' /\ Numbered' /\ Verdict'
  BY <1>1, <1>4, Zenon DEF Underway, Numbered, Verdict
<1>7. Answers'
  <2>1. Elems(toClient)' \subseteq Elems(toClient) /\ Elems(toServer)' \subseteq Elems(toServer)
    BY <1>1, Zenon
  <2> QED  BY <2>1, <1>1, AnswersKept, Zenon DEF IInv
<1>8. Collected'
  <2>1. Sound(result) /\ OnWay(result, FirstCall, cur)
    BY <1>1, FirstFits, Zenon DEF IInv, Collected
  <2>2. /\ \A res : Sound(res) => Sound(res)'
        /\ \A res, c, s : OnWay(res, c, s) => OnWay(res, c, s)'
    BY <1>1, Persist, Zenon
  <2> QED  BY <2>1, <2>2, <1>1, <1>4, Zenon DEF Collected, Asking
<1>9. Matched'
  BY <1>1, Zenon DEF IInv, Matched
<1> QED  BY <1>2, <1>3, <1>5, <1>6, <1>7, <1>8, <1>9, Zenon DEF IInv

(* A connection that cannot be opened ends the session with an error.       *)
LEMMA DialFailsStep ==
  ASSUME IInv, DialFails
  PROVE  IInv'
<1> USE DEF netVars, daemonVars, clientVars
<1>1. /\ pc = "dial" /\ pc' = "done" /\ outcome' = "error" /\ broke' = TRUE
      /\ sock' \in IF flavour = "chronyUnix" THEN BOOLEAN ELSE {FALSE}
      /\ UNCHANGED <<flavour, command, call, cur, got, Sequence, expired, result,
                     toServer, toClient, faults, sources, room, able, changes, first,
                     used, lost, misordered, seen>>
  BY Zenon DEF DialFails
<1>2. sock' \in BOOLEAN /\ (sock' => flavour = "chronyUnix")
  BY <1>1, Zenon
<1>3. TypeInv'
  BY <1>1, <1>2, Zenon DEF IInv, TypeInv
<1>4. Daemon'
  BY <1>1, Zenon DEF IInv, Daemon, Listing, StatesOf
<1>5. Sequence = 1 /\ command \notin {"ntpdiag", "stats", "offset"}
  BY <1>1, Zenon DEF IInv, Control
<1>6. Control'
  BY <1>1, <1>2, <1>5, Zenon DEF Control, Asking, SocketRemoved
<1>7. Underway' /\ Numbered' /\ Verdict'
  BY <1>1, <1>5, Zenon DEF Underway, Numbered, Verdict
<1>8. Answers'
  <2>1. Elems(toClient)' \subseteq Elems(toClient) /\ Elems(toServer)' \subseteq Elems(toServer)
    BY <1>1, Zenon
  <2> QED  BY <2>1, <1>1, AnswersKept, Zenon DEF IInv
<1>9. Collected'
  <2>1. Sound(result)
    BY Zenon DEF IInv, Collected
  <2>2. \A res : Sound(res) => Sound(res)'
    BY <1>1, Persist, Zenon
  <2> QED  BY <2>1, <2>2, <1>1, Zenon DEF Collected, Asking
<1>10. Matched'
  BY <1>1, Zenon DEF IInv, Matched
<1> QED  BY <1>3, <1>4, <1>6, <1>7, <1>8, <1>9, <1>10, Zenon DEF IInv

(* Unless the deadline has passed or answers are out of order, nothing is   *)
(* under way when a request is sent: it is all there is to be answered.     *)
LEMMA SendStep ==
  ASSUME IInv, Send
  PROVE  IInv'
<1> USE DEF daemonVars, histVars
<1> PICK q : q = Request(call, RequestSeq)
  OBVIOUS
<1>1. /\ pc = "send" /\ pc' = "read" /\ toServer' = Append(toServer, q)
      /\ Sequence' = Sequence + 1 /\ got' = <<>>
      /\ expired' = (expired /\ flavour # "ntpdate")
      /\ UNCHANGED <<flavour, command, call, cur, result, sock, outcome, exit,
                     toClient, faults, sources, room, able, changes, first,
                     used, lost, misordered, broke, seen>>
  BY Zenon DEF Send
<1>2. /\ Sequence \in Nat \ {0} /\ toServer \in Seq(Req) /\ toClient \in Seq(Msg)
      /\ expired \in BOOLEAN
      /\ OnWay(result, call, cur) /\ call \in Calls /\ Fits(call, cur) /\ OfSession(call)
      /\ flavour \in {"chronyUDP", "chronyUnix", "ntpd", "ntpdate", "ptp", "oscillatord"}
  BY <1>1, Zenon DEF IInv, TypeInv, Collected, Asking, OnWay, Fits
<1>3. /\ RequestSeq \in Nat /\ AskedSeq' = RequestSeq
      /\ Sequence' \in Nat \ {0} /\ expired' \in BOOLEAN
  BY <1>1, <1>2 DEF RequestSeq, AskedSeq
<1>4. /\ q \in Req /\ q.cmd = call.cmd /\ q.arg = call.arg /\ q.seq = AskedSeq'
  BY <1>2, <1>3 DEF Request, Calls, Req
<1>5. /\ toServer' \in Seq(Req) /\ Len(toServer') = Len(toServer) + 1
      /\ Elems(toServer)' \subseteq Elems(toServer) \cup {q}
  BY <1>1, <1>2, <1>4, Appended, Zenon
<1>6. InStep' <=> InStep
  BY <1>1, <1>2 DEF InStep
<1>7. TypeInv'
  <2>1. <<>> \in Seq(Msg)
    BY EmptySeq, Zenon
  <2> QED  BY <2>1, <1>1, <1>2, <1>3, <1>5, Zenon DEF IInv, TypeInv
<1>8. Daemon'
  BY <1>1, Zenon DEF IInv, Daemon, Listing, StatesOf
<1>9. Control'
  <2>1. /\ outcome = "running" /\ command \notin {"ntpdiag", "stats", "offset"}
    BY <1>1, Zenon DEF IInv, Control, Asking
  <2> QED  BY <2>1, <1>1, Zenon DEF Control, Asking, SocketRemoved
<1>10. Underway'
  <2> SUFFICES ASSUME InStep'
               PROVE  /\ toServer' # <<>> => toClient' = <<>> /\ got' = <<>> /\ Len(toServer') = 1
                      /\ \A m \in Elems(toServer)' \cup Elems(toClient)' : OfCall(m)'
                      /\ \A k \in 1 .. Len(toClient') - 1 : More(toClient[k])'
    BY <1>1, Zenon DEF Underway
  <2>1. toServer = <<>> /\ toClient = <<>>
    BY <1>1, <1>6, Zenon DEF IInv, Underway
  <2>2. Len(toServer) = 0 /\ Len(toServer') = 1 /\ 1 .. Len(toClient) - 1 = {}
    BY <2>1, <1>5
  <2>3. Elems(<<>>) = {}
    BY DEF Elems
  <2>4. OfCall(q)'
    BY <1>1, <1>4, Zenon DEF OfCall
  <2>5. Elems(toServer)' \subseteq {q} /\ Elems(toClient)' = {}
    BY <2>1, <2>3, <1>1, <1>5, Zenon
  <2> QED  BY <2>1, <2>2, <2>4, <2>5, <1>1, Zenon
<1>11. Numbered'
  BY <1>1, <1>6, Zenon DEF IInv, Underway, Numbered
<1>12. Answers'
  <2>1. /\ \A m \in Elems(toClient)' : Honest(m)'
    <3>1. \A m : Honest(m) => Honest(m)'
      BY <1>1, Persist, Zenon
    <3>2. Elems(toClient)' = Elems(toClient)
      BY <1>1, Zenon
    <3> QED  BY <3>1, <3>2, Zenon DEF IInv, Answers
  <2>2. Asked(q)
    <3>1. call.cmd \in {"readstatus", "readvars"} => flavour = "ntpd"
      BY <1>2 DEF OfSession, PTPCalls, ChronyCalls, Chrony
    <3> QED  BY <3>1, <1>2, <1>4, Zenon DEF Asked, Fits
  <2>3. \A r : Asked(r) => Asked(r)'
    BY <1>1, Zenon DEF Asked
  <2> QED  BY <2>1, <2>2, <2>3, <1>5, Zenon DEF IInv, Answers
<1>13. Collected'
  BY <1>1, CollectedKept, Zenon DEF IInv, Asking
<1>14. Matched' /\ Verdict'
  BY <1>1, Zenon DEF IInv, Matched, Verdict
<1> QED  BY <1>7, <1>8, <1>9, <1>10, <1>11, <1>12, <1>13, <1>14, Zenon DEF IInv

(* A request that cannot be written ends its call.                          *)
LEMMA SendFailsStep ==
  ASSUME IInv, SendFails
  PROVE  IInv'
<1> USE DEF daemonVars, netVars
<1>1. /\ pc = "send" /\ Sequence' = Sequence + 1 /\ CallFails /\ broke' = TRUE
      /\ UNCHANGED <<flavour, command, got, expired, toServer, toClient, faults,
                     sources, room, able, changes, first,
                     used, lost, misordered, seen>>
  BY Zenon DEF SendFails
<1>2. Asking /\ Proceeds
  <2>1. Asking
    BY <1>1, Zenon DEF Asking
  <2> QED  BY <2>1, <1>1, FailedWell, Zenon
<1>3. /\ Collected' /\ Control' /\ Verdict'
      /\ pc' \in {"send", "report", "done"}
      /\ outcome' \in {"running", "ok", "error"} /\ sock' \in BOOLEAN
  BY <1>1, <1>2, Proceeded, Zenon
<1>4. TypeInv'
  <2>1. Sequence \in Nat \ {0}
    BY Zenon DEF IInv, TypeInv
  <2>2. Sequence' \in Nat \ {0} /\ broke' \in BOOLEAN
        /\ pc' \in {"dial", "send", "read", "report", "done"}
    BY <2>1, <1>1, <1>3
  <2> QED  BY <2>2, <1>1, <1>3, Zenon DEF IInv, TypeInv
<1>5. Daemon'
  BY <1>1, Zenon DEF IInv, Daemon, Listing, StatesOf
<1>6. pc' # "read"
  BY <1>3
<1>7. Underway' /\ Numbered'
  BY <1>1, <1>6, Zenon DEF IInv, Underway, Numbered, InStep
<1>8. Answers'
  <2>1. Elems(toClient)' \subseteq Elems(toClient) /\ Elems(toServer)' \subseteq Elems(toServer)
    BY <1>1, Zenon
  <2> QED  BY <2>1, <1>1, AnswersKept, Zenon DEF IInv
<1>9. Matched'
  BY <1>1, Zenon DEF IInv, Matched
<1> QED  BY <1>3, <1>4, <1>5, <1>7, <1>8, <1>9, Zenon DEF IInv

(* A datagram read is either a part of an answer or completes it.           *)
LEMMA ReadStep ==
  ASSUME IInv, Read
  PROVE  IInv'
<1> USE DEF daemonVars
<1> PICK m : m = Head(toClient)
  OBVIOUS
<1> PICK frags : frags = Append(got, m)
  BY Zenon
<1>1. /\ pc = "read" /\ MayRead /\ toClient' = Tail(toClient)
      /\ used' = used \cup {<<AskedSeq, m.seq>>}
      /\ IF More(m)
           THEN got' = frags
                /\ UNCHANGED <<pc, call, cur, result, sock, outcome, exit>>
           ELSE Answer(Assemble(got, m)) /\ got' = <<>>
      /\ UNCHANGED <<flavour, command, Sequence, expired, toServer, faults,
                     sources, room, able, changes, first, lost, misordered, broke, seen>>
  BY Zenon DEF Read, Assemble
<1>2. /\ m \in Msg /\ Honest(m) /\ frags \in Seq(Msg)
      /\ Tail(toClient) \in Seq(Msg) /\ Elems(Tail(toClient)) \subseteq Elems(toClient)
      /\ ~misordered => InStep /\ OfCall(m) /\ toServer = <<>>
      /\ (~misordered /\ ~More(m)) => Tail(toClient) = <<>>
  BY <1>1, Arrives, Zenon
<1>3. Daemon'
  BY <1>1, Zenon DEF IInv, Daemon, Listing, StatesOf
<1>4. Answers'
  <2>1. Elems(toClient)' \subseteq Elems(toClient) /\ Elems(toServer)' \subseteq Elems(toServer)
    BY <1>1, <1>2, Zenon
  <2> QED  BY <2>1, <1>1, AnswersKept, Zenon DEF IInv
<1>5. Matched'
  <2>1. ~misordered => m.seq = AskedSeq
    BY <1>2, Zenon DEF OfCall
  <2>2. <<AskedSeq, m.seq>>[1] = AskedSeq /\ <<AskedSeq, m.seq>>[2] = m.seq
    OBVIOUS
  <2>3. \A u \in used' : u \in used \/ u = <<AskedSeq, m.seq>>
    BY <1>1, Zenon
  <2> QED  BY <2>1, <2>2, <2>3, <1>1, Zenon DEF IInv, Matched
<1>6. InStep' <=> InStep
  BY <1>1, Zenon DEF InStep
<1>7. CASE More(m)
  <2>1. /\ got' = frags /\ pc' = "read"
        /\ UNCHANGED <<call, cur, result, sock, outcome, exit>>
    BY <1>1, <1>7, Zenon
  <2>2. TypeInv'
    BY <2>1, <1>1, <1>2, Zenon DEF IInv, TypeInv
  <2>3. Control'
    BY <2>1, <1>1, Zenon DEF IInv, Control, Asking, SocketRemoved
  <2>4. Collected'
    BY <2>1, <1>1, CollectedKept, Zenon DEF IInv, Asking
  <2>5. Verdict'
    BY <2>1, Zenon DEF Verdict
  <2>6. /\ Len(toClient) \in Nat \ {0} /\ Len(toClient') = Len(toClient) - 1
        /\ \A k \in 1 .. Len(toClient) - 1 : toClient'[k] = toClient[k + 1]
        /\ m = toClient[1] /\ toClient \in Seq(Msg) /\ got \in Seq(Msg)
    <3>1. toClient \in Seq(Msg) /\ toClient # <<>> /\ got \in Seq(Msg)
      BY <1>1, Zenon DEF IInv, TypeInv, MayRead
    <3> QED  BY <3>1, <1>1, Taken
  <2>7. Underway'
    <3> SUFFICES ASSUME InStep'
                 PROVE  /\ toServer' = <<>>
                        /\ \A x \in Elems(toServer)' \cup Elems(toClient)' : OfCall(x)'
                        /\ \A k \in 1 .. Len(toClient') - 1 : More(toClient[k])'
      BY <2>1, Zenon DEF Underway
    <3>1. /\ \A x \in Elems(toServer) \cup Elems(toClient) : OfCall(x)
          /\ \A k \in 1 .. Len(toClient) - 1 : More(toClient[k])
          /\ toServer = <<>>
      BY <1>1, <1>2, <1>6, Zenon DEF IInv, Underway, InStep
    <3>2. \A x : OfCall(x) => OfCall(x)'
      BY <2>1, <1>1, Zenon DEF OfCall, AskedSeq
    <3>3. \A k \in 1 .. Len(toClient') - 1 :
            k \in 1 .. Len(toClient) - 1 /\ k + 1 \in 1 .. Len(toClient) - 1
      BY <2>6
    <3>4. \A x : More(x) => More(x)'
      BY <1>1, Zenon DEF More
    <3>5. \A k \in 1 .. Len(toClient') - 1 : More(toClient'[k])
      BY <2>6, <3>1, <3>3, Zenon
    <3> QED  BY <3>1, <3>2, <3>4, <3>5, <1>1, <1>2, Zenon
  <2>8. Numbered'
    <3> SUFFICES ASSUME InStep, ~lost, toClient' # <<>>
                 PROVE  /\ (call'.cmd = "readvars" /\ (toClient'[1].ok \/ Len(toClient') > 1)) =>
                             /\ \A k \in 1 .. Len(got') : got'[k].n = k
                             /\ \A k \in 1 .. Len(toClient') :
                                  toClient'[k].ok /\ toClient'[k].n = Len(got') + k
                             /\ Len(got') + Len(toClient') = VarParts
                        /\ (call'.cmd = "readstatus" /\ changes' = 0 /\ ~Split') => got' = <<>>
      BY <1>1, <1>6, Zenon DEF Numbered
    <3>1. toClient # <<>>
      BY <1>1, Zenon DEF MayRead
    <3>2. Len(toClient) > 1
      <4>1. Len(toClient') \in Nat \ {0}
        BY <1>1, <1>2, EmptySeq
      <4> QED  BY <4>1, <2>6
    <3>3. ASSUME call.cmd = "readvars"
          PROVE  /\ \A k \in 1 .. Len(got') : got'[k].n = k
                 /\ \A k \in 1 .. Len(toClient') :
                      toClient'[k].ok /\ toClient'[k].n = Len(got') + k
                 /\ Len(got') + Len(toClient') = VarParts
      <4>1. /\ \A k \in 1 .. Len(got) : got[k].n = k
            /\ \A k \in 1 .. Len(toClient) : toClient[k].ok /\ toClient[k].n = Len(got) + k
            /\ Len(got) + Len(toClient) = VarParts
        BY <3>1, <3>2, <3>3, <1>1, Zenon DEF IInv, Numbered
      <4>2. /\ Len(got') = Len(got) + 1 /\ Len(got) \in Nat
            /\ \A k \in 1 .. Len(got) : got'[k] = got[k]
            /\ got'[Len(got) + 1] = m
        BY <2>1, <2>6, <1>2, AppendProperties, LenProperties
      <4>3. \A k \in 1 .. Len(got') : got'[k].n = k
        <5>1. m.n = Len(got) + 1
          BY <4>1, <2>6
        <5> QED  BY <5>1, <4>1, <4>2
      <4>4. ASSUME NEW k \in 1 .. Len(toClient')
            PROVE  toClient'[k].ok /\ toClient'[k].n = Len(got') + k
        <5>1. k \in 1 .. Len(toClient) - 1 /\ k + 1 \in 1 .. Len(toClient)
              /\ Len(got') + k = Len(got) + (k + 1)
          BY <2>6, <4>2
        <5> QED  BY <5>1, <4>1, <2>6, Zenon
      <4> QED  BY <4>1, <4>2, <4>3, <4>4, <2>6
    <3>4. ~(call.cmd = "readstatus" /\ changes = 0 /\ ~Split)
      <4>1. m.cmd = call.cmd /\ m.more
        BY <1>2, <1>7, Zenon DEF InStep, OfCall, More
      <4> QED  BY <4>1, <1>2, Zenon DEF Honest
    <3>5. Split' <=> Split
      BY <1>1, Zenon DEF Split
    <3> QED  BY <3>3, <3>4, <3>5, <2>1, <1>1, Zenon
  <2> QED  BY <2>2, <2>3, <2>4, <2>5, <2>7, <2>8, <1>3, <1>4, <1>5, Zenon DEF IInv
<1>8. CASE ~More(m)
  <2>1. Answer(Assemble(got, m)) /\ got' = <<>>
    BY <1>1, <1>8, Zenon
  <2>2. Asking /\ Proceeds
    BY <2>1, <1>1, <1>8, Answered, Zenon DEF Asking
  <2>3. /\ Collected' /\ Control' /\ Verdict'
        /\ pc' \in {"send", "report", "done"}
        /\ outcome' \in {"running", "ok", "error"} /\ sock' \in BOOLEAN
    BY <2>2, <1>1, Proceeded, Zenon
  <2>4. <<>> \in Seq(Msg) /\ pc' \in {"dial", "send", "read", "report", "done"} /\ pc' # "read"
    BY <2>3, EmptySeq
  <2>5. TypeInv'
    BY <2>1, <2>3, <2>4, <1>1, <1>2, Zenon DEF IInv, TypeInv
  <2>6. Underway' /\ Numbered'
    BY <2>4, <1>1, <1>2, <1>6, <1>8, Zenon DEF Underway, Numbered, InStep
  <2> QED  BY <2>3, <2>5, <2>6, <1>3, <1>4, <1>5, Zenon DEF IInv
<1> QED  BY <1>7, <1>8, Zenon

(* After the deadline every read fails, and so does the call but for the    *)
(* two data sets ptpcheck can do without.                                   *)
LEMMA ReadFailsStep ==
  ASSUME IInv, ReadFails
  PROVE  IInv'
<1> USE DEF daemonVars, netVars, histVars
<1>1. /\ pc = "read" /\ expired /\ CallFails
      /\ UNCHANGED <<flavour, command, got, Sequence, expired, toServer, toClient,
                     faults, sources, room, able, changes, first,
                     used, lost, misordered, broke, seen>>
  BY Zenon DEF ReadFails
<1>2. Asking /\ Proceeds
  <2>1. Asking
    BY <1>1, Zenon DEF Asking
  <2> QED  BY <2>1, <1>1, FailedWell, Zenon
<1>3. /\ Collected' /\ Control' /\ Verdict'
      /\ pc' \in {"send", "report", "done"}
      /\ outcome' \in {"running", "ok", "error"} /\ sock' \in BOOLEAN
  BY <1>1, <1>2, Proceeded, Zenon
<1>4. pc' # "read" /\ pc' \in {"dial", "send", "read", "report", "done"}
  BY <1>3
<1>5. TypeInv'
  BY <1>1, <1>3, <1>4, Zenon DEF IInv, TypeInv
<1>6. Daemon'
  BY <1>1, Zenon DEF IInv, Daemon, Listing, StatesOf
<1>7. flavour = "ntpdate" => pc' # "send"
  <2>1. flavour = "ntpdate" => call.cmd = "time"
    BY <1>2, Zenon DEF IInv, Collected, OnWay, Fits, OfSession
  <2>2. flavour = "ntpdate" => CloseAnd(result, "error")
    BY <2>1, <1>1 DEF CallFails
  <2> QED  BY <2>2 DEF CloseAnd
<1>8. Underway' /\ Numbered'
  BY <1>1, <1>4, <1>7, Zenon DEF Underway, Numbered, InStep
<1>9. Answers'
  <2>1. Elems(toClient)' \subseteq Elems(toClient) /\ Elems(toServer)' \subseteq Elems(toServer)
    BY <1>1, Zenon
  <2> QED  BY <2>1, <1>1, AnswersKept, Zenon DEF IInv
<1>10. Matched'
  BY <1>1, Zenon DEF IInv, Matched
<1> QED  BY <1>3, <1>5, <1>6, <1>8, <1>9, <1>10, Zenon DEF IInv

(* The passing of the deadline only weakens what is known of the datagrams  *)
(* under way.                                                               *)
LEMMA DeadlineStep ==
  ASSUME IInv, Deadline
  PROVE  IInv'
<1> USE DEF daemonVars, netVars, histVars
<1>1. /\ pc \in {"send", "read"} /\ expired' = TRUE
      /\ UNCHANGED <<flavour, command, pc, call, cur, got, Sequence, sock, result,
                     outcome, exit, toServer, toClient, faults, sources, room, able,
                     changes, first, used, lost, misordered, broke, seen>>
  BY Zenon DEF Deadline
<1>2. pc # "dial" /\ expired' \in BOOLEAN
  BY <1>1
<1>3. TypeInv'
  BY <1>1, <1>2, Zenon DEF IInv, TypeInv
<1>4. Daemon'
  BY <1>1, Zenon DEF IInv, Daemon, Listing, StatesOf
<1>5. Control'
  BY <1>1, <1>2, Zenon DEF IInv, Control, Asking, SocketRemoved
<1>6. InStep' => InStep
  BY <1>1, Zenon DEF InStep
<1>7. Underway'
  <2>1. /\ \A m : OfCall(m) => OfCall(m)'
        /\ \A m : More(m) => More(m)'
    BY <1>1, Zenon DEF OfCall, AskedSeq, More
  <2>2. Elems(toClient)' = Elems(toClient) /\ Elems(toServer)' = Elems(toServer)
    BY <1>1, Zenon
  <2>3. (InStep /\ pc = "read") =>
          /\ \A m \in Elems(toServer)' \cup Elems(toClient)' : OfCall(m)'
          /\ \A k \in 1 .. Len(toClient') - 1 : More(toClient[k])'
    BY <2>1, <2>2, <1>1, Zenon DEF IInv, Underway
  <2> QED  BY <2>3, <1>1, <1>6, Zenon DEF IInv, Underway
<1>8. Numbered'
  BY <1>1, <1>6, Zenon DEF IInv, Numbered, Split
<1>9. Answers'
  <2>1. Elems(toClient)' \subseteq Elems(toClient) /\ Elems(toServer)' \subseteq Elems(toServer)
    BY <1>1, Zenon
  <2> QED  BY <2>1, <1>1, AnswersKept, Zenon DEF IInv
<1>10. Collected'
  BY <1>1, CollectedKept, Zenon DEF IInv, Asking
<1>11. Matched' /\ Verdict'
  BY <1>1, Zenon DEF IInv, Matched, Verdict, FirstCall, Split
<1> QED  BY <1>3, <1>4, <1>5, <1>7, <1>8, <1>9, <1>10, <1>11, Zenon DEF IInv

(* The daemon's answer takes the place of the request.                      *)
LEMMA ServeStep ==
  ASSUME IInv, Serve
  PROVE  IInv'
<1> USE DEF daemonVars, clientVars, histVars
<1> PICK r : r = Head(toServer)
  OBVIOUS
<1> PICK ans : ans = Reply(r)
  OBVIOUS
<1>1. /\ toServer # <<>> /\ toServer' = Tail(toServer) /\ toClient' = toClient \o ans
      /\ UNCHANGED <<flavour, command, pc, call, cur, got, Sequence, expired, result,
                     sock, outcome, exit, faults, sources, room, able, changes, first,
                     used, lost, misordered, broke, seen>>
  BY Zenon DEF Serve
<1>2. toServer \in Seq(Req) /\ toClient \in Seq(Msg)
  BY Zenon DEF IInv, TypeInv
<1>3. /\ r \in Req /\ r \in Elems(toServer) /\ Len(toServer) \in Nat \ {0}
      /\ toServer' \in Seq(Req) /\ Len(toServer') = Len(toServer) - 1
      /\ Elems(toServer)' \subseteq Elems(toServer)
  BY <1>1, <1>2, Taken
<1>4. Replies(r, ans)
  <2>1. Asked(r)
    BY <1>3, Zenon DEF IInv, Answers
  <2> QED  BY <2>1, <1>3, Replied, Zenon
<1>5. ans \in Seq(Msg)
  BY <1>4, Zenon DEF Replies
<1>6. toClient' \in Seq(Msg) /\ Elems(toClient)' \subseteq Elems(toClient) \cup Elems(ans)
  BY <1>1, <1>2, <1>5, Joined, Zenon
<1>7. TypeInv'
  <2>1. TypeInv /\ toServer' \in Seq(Req) /\ toClient' \in Seq(Msg)
    BY <1>3, <1>6, Zenon DEF IInv
  <2> QED  BY <2>1, <1>1 DEF TypeInv
<1>8. Daemon'
  BY <1>1, Zenon DEF IInv, Daemon, Listing, StatesOf
<1>9. Control'
  <2>1. pc # "dial"
    BY <1>1, Zenon DEF IInv, Control
  <2> QED  BY <2>1, <1>1, Zenon DEF IInv, Control, Asking, SocketRemoved
<1>10. Answers'
  <2>1. \A m : Honest(m) => Honest(m)'
    BY <1>1, Persist, Zenon
  <2>2. \A q : Asked(q) => Asked(q)'
    BY <1>1, Zenon DEF Asked
  <2>3. \A m \in Elems(ans) : Honest(m)
    BY <1>4, Zenon DEF Replies
  <2> QED  BY <2>1, <2>2, <2>3, <1>3, <1>6, Zenon DEF IInv, Answers
<1>11. InStep' <=> InStep
  BY <1>1, Zenon DEF InStep
<1>12. (InStep /\ pc = "read") =>
         /\ toServer' = <<>> /\ toClient' = ans /\ got' = <<>> /\ Len(got') = 0
         /\ \A q \in Elems(toServer) : OfCall(q)
  <2> SUFFICES ASSUME InStep, pc = "read"
               PROVE  /\ toServer' = <<>> /\ toClient' = ans /\ got' = <<>> /\ Len(got') = 0
                      /\ \A q \in Elems(toServer) : OfCall(q)
    BY Zenon
  <2>1. /\ toClient = <<>> /\ got = <<>> /\ Len(toServer) = 1
        /\ \A q \in Elems(toServer) : OfCall(q)
    BY <1>1, Zenon DEF IInv, Underway
  <2>2. toServer' = <<>>
    BY <2>1, <1>3, EmptySeq
  <2>3. toClient' = ans
    BY <2>1, <1>1, <1>5, ConcatEmptySeq
  <2> QED  BY <2>1, <2>2, <2>3, <1>1
<1>13. Underway'
  <2>1. (InStep /\ pc = "send") => FALSE
    BY <1>1, Zenon DEF IInv, Underway
  <2>2. ASSUME InStep, pc = "read"
        PROVE  /\ \A m \in Elems(toServer)' \cup Elems(toClient)' : OfCall(m)'
               /\ \A k \in 1 .. Len(toClient') - 1 : More(toClient[k])'
    <3>1. \A m : OfCall(m) => OfCall(m)'
      BY <1>1, Zenon DEF OfCall, AskedSeq
    <3>2. OfCall(r) /\ toClient' = ans
      BY <2>2, <1>3, <1>12, Zenon
    <3>3. \A m \in Elems(ans) : OfCall(m)
      BY <3>2, <1>4, Zenon DEF Replies, OfCall
    <3>4. Elems(toClient)' = Elems(ans)
      BY <3>2, Zenon
    <3>5. \A m \in Elems(toServer)' \cup Elems(toClient)' : OfCall(m)'
      BY <3>1, <3>3, <3>4, <2>2, <1>3, <1>12, Zenon
    <3>6. ASSUME NEW k \in 1 .. Len(ans) - 1
          PROVE  More(ans[k])
      <4>1. Len(ans) > 1
        BY <1>5, LenProperties
      <4>2. flavour = "ntpd"
        <5>1. Asked(r)
          BY <1>3, Zenon DEF IInv, Answers
        <5> QED  BY <4>1, <5>1, <1>4, Zenon DEF Replies, Asked
      <4> QED  BY <4>2, <1>4, Zenon DEF Replies, More
    <3>7. \A m : More(m) => More(m)'
      BY <1>1, Zenon DEF More
    <3>8. \A k \in 1 .. Len(toClient') - 1 : More(toClient'[k])
      BY <3>2, <3>6, Zenon
    <3> QED  BY <3>5, <3>7, <3>8, Zenon
  <2> QED  BY <2>1, <2>2, <1>1, <1>11, <1>12, Zenon DEF Underway
<1>14. Numbered'
  <2> SUFFICES ASSUME InStep, pc = "read"
               PROVE  Numbered'
    BY <1>1, <1>11, Zenon DEF Numbered
  <2>1. toClient' = ans /\ got' = <<>> /\ Len(got') = 0 /\ OfCall(r)
    BY <1>3, <1>12, Zenon
  <2>2. (call.cmd = "readvars" /\ (ans[1].ok \/ Len(ans) > 1)) =>
          Len(ans) = VarParts /\ \A k \in 1 .. Len(ans) : ans[k].ok /\ ans[k].n = k
    BY <2>1, <1>4, Zenon DEF Replies, OfCall
  <2>3. Len(ans) \in Nat /\ 1 .. 0 = {} /\ 0 + Len(ans) = Len(ans)
        /\ \A k \in 1 .. Len(ans) : 0 + k = k
    BY <1>5, LenProperties
  <2>4. \A k \in 1 .. Len(got') : got'[k].n = k
    BY <2>1, <2>3, Zenon
  <2>5. \A k \in 1 .. Len(ans) : Len(got') + k = k
    BY <2>1, <2>3, Zenon
  <2>6. call' = call /\ Len(got') + Len(ans) = Len(ans)
    BY <2>1, <2>3, <1>1, Zenon
  <2> QED  BY <2>1, <2>2, <2>4, <2>5, <2>6, Zenon DEF Numbered
<1>15. Collected'
  BY <1>1, CollectedKept, Zenon DEF IInv, Asking
<1>16. Matched' /\ Verdict'
  BY <1>1, Zenon DEF IInv, Matched, Verdict, FirstCall, Split
<1> QED  BY <1>7, <1>8, <1>9, <1>10, <1>13, <1>14, <1>15, <1>16, Zenon DEF IInv

(* A change of the daemon's sources between two requests makes no answer    *)
(* untrue of what has been seen.                                            *)
LEMMA ChangeStep ==
  ASSUME IInv, Change
  PROVE  IInv'
<1> USE DEF netVars, clientVars
<1>1. /\ pc = "send" /\ changes' = changes + 1 /\ sources' \in Listings
      /\ seen' = seen \cup StatesOf(sources')
      /\ UNCHANGED <<flavour, command, pc, call, cur, got, Sequence, expired, result,
                     sock, outcome, exit, toServer, toClient, faults,
                     room, able, first, used, lost, misordered, broke>>
  BY Zenon DEF Change
<1>2. changes' \in Nat /\ changes' # 0
  <2>1. changes \in Nat
    BY Zenon DEF IInv, TypeInv
  <2> QED  BY <2>1, <1>1
<1>3. sources' \in Seq(Source)
  <2>1. sources' \in UNION {[1 .. n -> Source] : n \in 0 .. MaxSources}
    BY <1>1, Zenon DEF Listings
  <2> QED  BY <2>1, SeqDef, SessionAssumption
<1>4. TypeInv'
  BY <1>1, <1>2, Zenon DEF IInv, TypeInv
<1>5. Daemon'
  <2>1. StatesOf(sources') \subseteq States /\ StatesOf(sources)' = StatesOf(sources')
    BY <1>3, StatesTyped, Zenon DEF StatesOf
  <2>2. seen' \subseteq States /\ StatesOf(sources)' \subseteq seen'
    BY <2>1, <1>1, Zenon DEF IInv, Daemon
  <2> QED  BY <2>2, <1>1, <1>2, <1>3, Zenon DEF IInv, Daemon, Listing
<1>6. Control'
  BY <1>1, Zenon DEF IInv, Control, Asking, SocketRemoved
<1>7. Underway' /\ Numbered' /\ Verdict'
  BY <1>1, Zenon DEF IInv, Underway, Numbered, InStep, Verdict
<1>8. Answers'
  <2>1. Elems(toClient)' \subseteq Elems(toClient) /\ Elems(toServer)' \subseteq Elems(toServer)
    BY <1>1, Zenon
  <2> QED  BY <2>1, <1>1, <1>2, AnswersKept, Zenon DEF IInv
<1>9. Collected'
  BY <1>1, <1>2, CollectedKept, Zenon DEF IInv, Asking
<1>10. Matched'
  BY <1>1, Zenon DEF IInv, Matched
<1> QED  BY <1>4, <1>5, <1>6, <1>7, <1>8, <1>9, <1>10, Zenon DEF IInv

(* A loss leaves the datagrams of the current answer in their order.        *)
LEMMA LoseStep ==
  ASSUME IInv, Lose
  PROVE  IInv'
<1> USE DEF daemonVars, clientVars
<1>1. /\ pc = "read" /\ flavour \in UDP /\ faults' = faults + 1 /\ lost' = TRUE
      /\ \/ toServer # <<>> /\ toServer' = Tail(toServer) /\ toClient' = toClient
         \/ \E k \in DOMAIN toClient :
              toClient' = Without(toClient, k) /\ toServer' = toServer
      /\ UNCHANGED <<flavour, command, pc, call, cur, got, Sequence, expired, result,
                     sock, outcome, exit, sources, room, able, changes, first,
                     used, misordered, broke, seen>>
  BY Zenon DEF Lose
<1>2. toServer \in Seq(Req) /\ toClient \in Seq(Msg) /\ faults \in Nat
  BY Zenon DEF IInv, TypeInv
<1>3. faults' \in Nat /\ faults' # 0 /\ lost' \in BOOLEAN
  BY <1>1, <1>2
<1>4. /\ toServer' \in Seq(Req) /\ toClient' \in Seq(Msg)
      /\ Elems(toServer)' \subseteq Elems(toServer) /\ Elems(toClient)' \subseteq Elems(toClient)
      /\ \A k \in 1 .. Len(toClient') - 1 :
           \E j \in 1 .. Len(toClient) - 1 : toClient'[k] = toClient[j]
      /\ toClient = <<>> => toClient' = <<>>
      /\ (toServer' # <<>> /\ Len(toServer) = 1) => toServer' = toServer
      /\ toServer = <<>> => toServer' = <<>>
  <2>1. CASE toServer # <<>> /\ toServer' = Tail(toServer) /\ toClient' = toClient
    <3>1. /\ toServer' \in Seq(Req) /\ Len(toServer') = Len(toServer) - 1
          /\ Elems(toServer)' \subseteq Elems(toServer)
      BY <2>1, <1>2, Taken, Zenon
    <3>2. Len(toServer) = 1 => toServer' = <<>>
      BY <3>1, EmptySeq
    <3> QED  BY <3>1, <3>2, <2>1, <1>2, Zenon
  <2>2. ASSUME NEW k \in DOMAIN toClient,
               toClient' = Without(toClient, k), toServer' = toServer
        PROVE  /\ toClient' \in Seq(Msg)
               /\ Elems(toClient)' \subseteq Elems(toClient)
               /\ \A i \in 1 .. Len(toClient') - 1 :
                    \E j \in 1 .. Len(toClient) - 1 : toClient'[i] = toClient[j]
               /\ toClient # <<>>
    <3>1. /\ toClient' \in Seq(Msg) /\ Len(toClient') = Len(toClient) - 1
          /\ \A j \in 1 .. Len(toClient) - 1 :
               toClient'[j] = IF j < k THEN toClient[j] ELSE toClient[j + 1]
          /\ Elems(toClient)' \subseteq Elems(toClient)
      BY <2>2, <1>2, Removed, Zenon
    <3>2. Len(toClient) \in Nat
      BY <1>2, LenProperties
    <3>3. \A i \in 1 .. Len(toClient') - 1 :
            /\ i \in 1 .. Len(toClient) - 1 /\ i + 1 \in 1 .. Len(toClient) - 1
      BY <3>1, <3>2
    <3>4. toClient # <<>>
      BY <1>2
    <3> QED  BY <3>1, <3>3, <3>4, Zenon
  <2> QED  BY <2>1, <2>2, <1>1, <1>2, Zenon
<1>5. TypeInv'
  BY <1>1, <1>3, <1>4, Zenon DEF IInv, TypeInv
<1>6. Daemon'
  BY <1>1, <1>3, Zenon DEF IInv, Daemon, Listing, StatesOf
<1>7. Control'
  BY <1>1, Zenon DEF IInv, Control, Asking, SocketRemoved
<1>8. Underway'
  <2>1. InStep' <=> InStep
    BY <1>1, Zenon DEF InStep
  <2> SUFFICES ASSUME InStep
               PROVE  /\ toServer' # <<>> =>
                           toClient' = <<>> /\ got' = <<>> /\ Len(toServer') = 1
                      /\ \A m \in Elems(toServer)' \cup Elems(toClient)' : OfCall(m)'
                      /\ \A k \in 1 .. Len(toClient') - 1 : More(toClient[k])'
    BY <2>1, <1>1, Zenon DEF Underway
  <2>2. /\ toServer # <<>> => toClient = <<>> /\ got = <<>> /\ Len(toServer) = 1
        /\ \A m \in Elems(toServer) \cup Elems(toClient) : OfCall(m)
        /\ \A k \in 1 .. Len(toClient) - 1 : More(toClient[k])
    BY <1>1, Zenon DEF IInv, Underway
  <2>3. /\ \A m : OfCall(m) => OfCall(m)'
        /\ \A m : More(m) => More(m)'
    BY <1>1, Zenon DEF OfCall, AskedSeq, More
  <2>4. \A k \in 1 .. Len(toClient') - 1 : More(toClient'[k])
    BY <2>2, <1>4, Zenon
  <2>5. toServer' # <<>> => toServer # <<>> /\ toServer' = toServer
    BY <2>2, <1>4, Zenon
  <2> QED  BY <2>2, <2>3, <2>4, <2>5, <1>1, <1>4, Zenon
<1>9. Numbered'
  BY <1>1, Zenon DEF Numbered
<1>10. Answers'
  BY <1>1, <1>4, AnswersKept, Zenon DEF IInv
<1>11. Collected'
  BY <1>1, CollectedKept, Zenon DEF IInv, Asking
<1>12. Matched' /\ Verdict'
  BY <1>1, Zenon DEF IInv, Matched, Verdict
<1> QED  BY <1>5, <1>6, <1>7, <1>8, <1>9, <1>10, <1>11, <1>12, Zenon DEF IInv

(* A repeated or overtaken datagram is still a true one.                    *)
LEMMA MisorderStep ==
  ASSUME IInv, Misorder
  PROVE  IInv'
<1> USE DEF daemonVars, clientVars
<1>1. /\ pc = "read" /\ flavour \in UDP /\ faults' = faults + 1 /\ misordered' = TRUE
      /\ toClient # <<>>
      /\ toClient' \in {Append(toClient, Head(toClient)),
                        Append(Tail(toClient), Head(toClient))}
      /\ UNCHANGED <<flavour, command, pc, call, cur, got, Sequence, expired, result,
                     sock, outcome, exit, toServer, sources, room, able, changes, first,
                     used, lost, broke, seen>>
  BY Zenon DEF Misorder
<1>2. toClient \in Seq(Msg) /\ faults \in Nat
  BY Zenon DEF IInv, TypeInv
<1>3. faults' \in Nat /\ faults' # 0 /\ misordered' \in BOOLEAN
  BY <1>1, <1>2
<1>4. toClient' \in Seq(Msg) /\ Elems(toClient)' \subseteq Elems(toClient)
  <2>1. /\ Head(toClient) \in Msg /\ Head(toClient) \in Elems(toClient)
        /\ Tail(toClient) \in Seq(Msg) /\ Elems(Tail(toClient)) \subseteq Elems(toClient)
    BY <1>1, <1>2, Taken, Zenon
  <2>2. /\ Append(toClient, Head(toClient)) \in Seq(Msg)
        /\ Elems(Append(toClient, Head(toClient))) \subseteq Elems(toClient) \cup {Head(toClient)}
    BY <2>1, <1>2, Appended, Zenon
  <2>3. /\ Append(Tail(toClient), Head(toClient)) \in Seq(Msg)
        /\ Elems(Append(Tail(toClient), Head(toClient)))
             \subseteq Elems(Tail(toClient)) \cup {Head(toClient)}
    BY <2>1, Appended, Zenon
  <2> QED  BY <2>1, <2>2, <2>3, <1>1, Zenon
<1>5. TypeInv'
  BY <1>1, <1>3, <1>4, Zenon DEF IInv, TypeInv
<1>6. Daemon'
  BY <1>1, <1>3, Zenon DEF IInv, Daemon, Listing, StatesOf
<1>7. Control'
  BY <1>1, Zenon DEF IInv, Control, Asking, SocketRemoved
<1>8. Underway' /\ Numbered' /\ Matched' /\ Verdict'
  BY <1>1, Zenon DEF Underway, Numbered, InStep, Matched, Verdict
<1>9. Answers'
  <2>1. Elems(toServer)' \subseteq Elems(toServer)
    BY <1>1, Zenon
  <2> QED  BY <2>1, <1>1, <1>4, AnswersKept, Zenon DEF IInv
<1>10. Collected'
  BY <1>1, CollectedKept, Zenon DEF IInv, Asking
<1> QED  BY <1>5, <1>6, <1>7, <1>8, <1>9, <1>10, Zenon DEF IInv

(* A session that begins by listing sources is a check of chronyd or ntpd.  *)
LEMMA OfLists ==
  ASSUME flavour \in {"chronyUDP", "chronyUnix", "ntpd", "ntpdate", "ptp", "oscillatord"},
         FirstCall.cmd \in Lists
  PROVE  Chrony \/ Ntpd
BY DEF FirstCall, Call, Lists, Chrony, Ntpd

(* What the states of sources become as selections of peers.                *)
LEMMA Selected ==
  /\ chronyToPeerSelection["sync"] = "sys"
  /\ \A s \in SourceStates :
       /\ chronyToPeerSelection[s] = "sys" => s = "sync"
       /\ chronyToPeerSelection[s] \in {"candidate", "backup", "sys", "pps"} =>
            s \in {"sync", "candidate"}
BY DEF chronyToPeerSelection, SourceStates

(* ntpcheck diag fails exactly without a system peer, stats exactly without *)
(* a usable one.                                                            *)
LEMMA Diagnosed ==
  ASSUME NEW peers
  PROVE  /\ ExitStatus(ntpDiagnose(peers)) \in {0, 1}
         /\ ExitStatus(ntpDiagnose(peers)) = 1 <=> FindSysPeer(peers) = {}
         /\ NewNTPStats(peers) # NoStats =>
              FindSysPeer(peers) # {} \/ FindGoodPeers(peers) # {}
<1> DEFINE status(v) == checkAgainstThreshold(v, 1, 1000, FALSE)
<1>1. \A v : status(v) # "critical"
  BY DEF checkAgainstThreshold
<1>2. "critical" \in ntpDiagnose(peers) <=> FindSysPeer(peers) = {}
  <2>1. CASE FindSysPeer(peers) = {}
    BY <2>1 DEF ntpDiagnose
  <2>2. CASE FindSysPeer(peers) # {}
    <3>1. ntpDiagnose(peers) = {status(peers[i].off) : i \in FindSysPeer(peers)}
      BY <2>2, Zenon DEF ntpDiagnose
    <3> HIDE DEF status
    <3>2. \A x \in ntpDiagnose(peers) : x # "critical"
      BY <3>1, <1>1, Zenon
    <3> QED  BY <3>2, <2>2, Zenon
  <2> QED  BY <2>1, <2>2, Zenon
<1>3. /\ ExitStatus(ntpDiagnose(peers)) \in {0, 1}
      /\ ExitStatus(ntpDiagnose(peers)) = 1 <=> "critical" \in ntpDiagnose(peers)
  BY DEF ExitStatus
<1>4. ASSUME NewNTPStats(peers) # NoStats
      PROVE  FindSysPeer(peers) # {} \/ FindGoodPeers(peers) # {}
  BY <1>4, Zenon DEF NewNTPStats
<1> QED  BY <1>2, <1>3, <1>4, Zenon

(* When a check of an unchanged daemon succeeded, every source it had is    *)
(* the peer of some index, and shown as it is.                              *)
LEMMA AllShown ==
  ASSUME IInv, outcome = "ok", NEW res, res = result, NEW k \in DOMAIN first,
         ChronyClear \/ NtpdClear
  PROVE  \E i \in DOMAIN res.peers : Shows(res.peers[i], first[k])
<1>1. Sound(res) /\ Complete(res)
  BY Zenon DEF IInv, Collected
<1>2. first \in Seq(Source) /\ Listing(first)
  BY Zenon DEF IInv, Daemon
<1>3. CASE ChronyClear
  <2>1. /\ res.n = Len(first) /\ DOMAIN res.peers = 0 .. res.n - 1
        /\ \A j \in 0 .. res.n - 1 : Shows(res.peers[j], first[j + 1])
    BY <1>1, <1>3, Zenon DEF Complete, Walked
  <2>2. k - 1 \in 0 .. res.n - 1 /\ (k - 1) + 1 = k
    BY <2>1, <1>2, LenProperties
  <2>3. Shows(res.peers[k - 1], first[(k - 1) + 1])
    BY <2>1, <2>2, Zenon
  <2> QED  BY <2>1, <2>2, <2>3, Zenon
<1>4. CASE NtpdClear
  <2> PICK i : i = first[k].addr
    OBVIOUS
  <2>1. i \in DOMAIN res.peers
    BY <1>1, <1>4, Zenon DEF Complete, AddrsOf
  <2>2. PICK j \in DOMAIN first : first[j].addr = i /\ Shows(res.peers[i], first[j])
    BY <2>1, <1>1, <1>4, Zenon DEF Sound
  <2>3. j = k
    BY <2>2, <1>2, Zenon DEF Listing
  <2> QED  BY <2>1, <2>2, <2>3, Zenon
<1> QED  BY <1>3, <1>4, Zenon

(* The command that prints the result says of the daemon what was found.    *)
LEMMA ReportStep ==
  ASSUME IInv, Report
  PROVE  IInv'
<1> USE DEF daemonVars, netVars, clientVars, histVars
<1>1. /\ pc = "report" /\ pc' = "done"
      /\ command' \in IF command = "check" THEN {"ntpdiag", "stats", "offset"}
                     ELSE {command}
      /\ exit' = CASE command' = "ntpdiag" -> ExitStatus(ntpDiagnose(result.peers))
                   [] command' \in {"stats", "offset"} ->
                        IF NewNTPStats(result.peers) = NoStats THEN 1 ELSE 0
                   [] flavour = "ptp" -> ExitStatus(ptpDiagnose(result))
                   [] OTHER -> 0
      /\ UNCHANGED <<flavour, call, cur, got, Sequence, expired, result, sock, outcome,
                     toServer, toClient, faults, sources, room, able, changes, first,
                     used, lost, misordered, broke, seen>>
  BY Zenon DEF Report
<1>2. command' = "serverstats" <=> command = "serverstats"
  BY <1>1
<1>3. outcome = "ok" /\ sock = FALSE
  BY <1>1, Zenon DEF IInv, Control, TypeInv
<1>4. TypeInv'
  BY <1>1, Zenon DEF IInv, TypeInv
<1>5. Daemon'
  BY <1>1, Zenon DEF IInv, Daemon, Listing, StatesOf
<1>6. Control'
  BY <1>1, <1>3, Zenon DEF Control, Asking, SocketRemoved
<1>7. Underway' /\ Numbered'
  BY <1>1, Zenon DEF Underway, Numbered
<1>8. Answers'
  <2>1. Elems(toClient)' \subseteq Elems(toClient) /\ Elems(toServer)' \subseteq Elems(toServer)
    BY <1>1, Zenon
  <2> QED  BY <2>1, <1>1, <1>2, AnswersKept, Zenon DEF IInv
<1>9. ~Asking'
  BY <1>1 DEF Asking
<1>10. Collected'
  BY <1>1, <1>2, <1>9, CollectedKept, Zenon DEF IInv
<1>11. Matched'
  BY <1>1, Zenon DEF IInv, Matched
<1>12. Verdict'
  <2> PICK res : res = result
    OBVIOUS
  <2> SUFFICES ASSUME FirstCall'.cmd \in Lists
               PROVE  Verdict'
    BY Zenon DEF Verdict
  <2>a. (Chrony \/ Ntpd) /\ flavour # "ptp"
    <3>1. (Chrony \/ Ntpd)'
      BY <1>4 DEF TypeInv, FirstCall, Call, Lists, Chrony, Ntpd
    <3>2. Chrony \/ Ntpd
      BY <3>1, <1>1, <1>2, Zenon DEF Chrony, Ntpd
    <3> QED  BY <3>2 DEF Chrony, Ntpd
  <2>0. /\ command' = "ntpdiag" => exit' = ExitStatus(ntpDiagnose(res.peers))
        /\ command' = "stats" => exit' = IF NewNTPStats(res.peers) = NoStats THEN 1 ELSE 0
    BY <2>a, <1>1
  <2>1. /\ \A i \in DOMAIN res.peers : \E s \in seen : res.peers[i].sel = chronyToPeerSelection[s]
        /\ seen \subseteq SourceStates
    BY SessionAssumption, Zenon DEF IInv, Collected, Sound, GoodPeer, Daemon
  <2>2. ASSUME command' = "ntpdiag", exit' = 0
        PROVE  "sync" \in seen
    <3>1. ExitStatus(ntpDiagnose(res.peers)) # 1
      BY <2>0, <2>2
    <3>2. FindSysPeer(res.peers) # {}
      BY <3>1, Diagnosed, Zenon
    <3>3. PICK i \in DOMAIN res.peers : res.peers[i].sel = "sys"
      BY <3>2, Zenon DEF FindSysPeer
    <3> QED  BY <3>3, <2>1, Selected, Zenon
  <2>3. ASSUME command' = "stats", exit' = 0
        PROVE  seen \cap {"sync", "candidate"} # {}
    <3>1. NewNTPStats(res.peers) # NoStats
      BY <2>0, <2>3
    <3>2. FindSysPeer(res.peers) # {} \/ FindGoodPeers(res.peers) # {}
      BY <3>1, Diagnosed, Zenon
    <3>3. PICK i \in DOMAIN res.peers :
            res.peers[i].sel \in {"candidate", "backup", "sys", "pps"}
      BY <3>2, Zenon DEF FindSysPeer, FindGoodPeers
    <3>4. PICK s \in seen : s \in {"sync", "candidate"}
      BY <3>3, <2>1, Selected, Zenon
    <3> QED  BY <3>4, Zenon
  <2>4. ASSUME command' = "ntpdiag", exit' = 1, changes = 0, faults = 0, ~Split
        PROVE  "sync" \notin seen
    <3>1. exit' = ExitStatus(ntpDiagnose(res.peers))
      BY <2>0, <2>4, Zenon
    <3>2. FindSysPeer(res.peers) = {}
      BY <3>1, <2>4, Diagnosed, Zenon
    <3>4. ChronyClear \/ NtpdClear
      BY <2>a, <2>4, Zenon DEF IInv, Daemon, ChronyClear, NtpdClear
    <3>5. seen = StatesOf(first)
      BY <2>4, Zenon DEF IInv, Daemon
    <3>6. ASSUME NEW k \in DOMAIN first, first[k].state = "sync"
          PROVE  FALSE
      <4>1. PICK i \in DOMAIN res.peers : Shows(res.peers[i], first[k])
        BY <3>4, <1>3, AllShown, Zenon
      <4>2. res.peers[i].sel = "sys"
        BY <4>1, <3>6, Selected, Zenon DEF Shows
      <4> QED  BY <4>2, <3>2, Zenon DEF FindSysPeer
    <3> QED  BY <3>5, <3>6, Zenon DEF StatesOf
  <2>5. Split' <=> Split
    BY <1>1, Zenon DEF Split
  <2> QED  BY <2>2, <2>3, <2>4, <2>5, <1>1, Zenon DEF Verdict
<1> QED  BY <1>4, <1>5, <1>6, <1>7, <1>8, <1>10, <1>11, <1>12, Zenon DEF IInv

(* Every step preserves the invariant.                                      *)
LEMMA NextInv == IInv /\ [Next]_vars => IInv'
<1> SUFFICES ASSUME IInv, [Next]_vars PROVE IInv'
  OBVIOUS
<1>1. CASE Next
  BY <1>1, DialStep, DialFailsStep, SendStep, SendFailsStep, ReadStep, ReadFailsStep,
     ReportStep, DeadlineStep, ServeStep, ChangeStep, LoseStep, MisorderStep, Zenon
     DEF Next, Client
<1>2. CASE UNCHANGED vars
  <2>1. /\ UNCHANGED <<flavour, command, pc, call, cur, got, Sequence, expired, result,
                       sock, outcome, exit, toServer, toClient, faults, sources, room,
                       able, changes, first, used, lost, misordered, broke, seen>>
    BY <1>2, Zenon DEF vars, clientVars, netVars, daemonVars, histVars
  <2>2. TypeInv' /\ Daemon' /\ Control'
    <3>1. TypeInv'
      BY <2>1 DEF IInv, TypeInv
    <3>2. Daemon'
      BY <2>1, Zenon DEF IInv, Daemon, Listing, StatesOf
    <3>3. Control'
      BY <2>1, Zenon DEF IInv, Control, Asking, SocketRemoved
    <3> QED  BY <3>1, <3>2, <3>3, Zenon
  <2>3. Underway'
    <3>1. /\ \A m : OfCall(m) => OfCall(m)'
          /\ \A m : More(m) => More(m)'
          /\ InStep' => InStep
      BY <2>1, Zenon DEF OfCall, AskedSeq, More, InStep
    <3>2. Elems(toClient)' = Elems(toClient) /\ Elems(toServer)' = Elems(toServer)
      BY <2>1, Zenon
    <3>3. (InStep /\ pc = "read") =>
            /\ \A m \in Elems(toServer)' \cup Elems(toClient)' : OfCall(m)'
            /\ \A k \in 1 .. Len(toClient') - 1 : More(toClient[k])'
      BY <3>1, <3>2, <2>1, Zenon DEF IInv, Underway
    <3> QED  BY <3>1, <3>3, <2>1, Zenon DEF IInv, Underway
  <2>4. Numbered'
    BY <2>1, Zenon DEF IInv, Numbered, Split, InStep
  <2>5. Answers'
    <3>1. Elems(toClient)' \subseteq Elems(toClient) /\ Elems(toServer)' \subseteq Elems(toServer)
      BY <2>1, Zenon
    <3> QED  BY <3>1, <2>1, AnswersKept, Zenon DEF IInv
  <2>6. Collected'
    BY <2>1, CollectedKept, Zenon DEF IInv, Asking
  <2>7. Matched' /\ Verdict'
    BY <2>1, Zenon DEF IInv, Matched, Verdict, FirstCall, Split
  <2> QED  BY <2>2, <2>3, <2>4, <2>5, <2>6, <2>7, Zenon DEF IInv
<1> QED  BY <1>1, <1>2, Zenon

-----------------------------------------------------------------------------
(* Theorems                                                                *)
-----------------------------------------------------------------------------
(* The invariant holds in every state of every session.                     *)
THEOREM Invariance == Spec => []IInv
BY InitInv, NextInv, PTL DEF Spec

(* Without comparing a single sequence number the clients use only answers  *)
(* to the request just made, unless the network repeated or reordered one,  *)
(* and a peer of ntpd is built of all of its variables unless one was lost. *)
THEOREM AnswersOwnRequest == Spec => []OwnAnswer
<1>1. IInv => OwnAnswer
  BY Zenon DEF IInv, Matched, Collected, Sound, GoodPeer, OwnAnswer
<1> QED  BY <1>1, Invariance, PTL

(* A check that succeeds against a daemon whose sources did not change      *)
(* shows each of them once, in its state and with its offset, whatever was  *)
(* lost on the way (chronyd) or if nothing was (ntpd).                      *)
THEOREM ShowsTheSources == Spec => []SnapshotUnlessChanged
<1>1. ASSUME IInv PROVE SnapshotUnlessChanged
  <2> PICK res : res = result
    OBVIOUS
  <2>1. Sound(res) /\ (outcome = "ok" => Complete(res))
    BY <1>1, Zenon DEF IInv, Collected
  <2>2. \A i \in DOMAIN res.peers : PairConsistent(res.peers[i])
    BY <2>1, Zenon DEF Sound, GoodPeer
  <2>3. ASSUME outcome = "ok", changes = 0, ~misordered, ~Split,
               lost => flavour # "ntpd", FirstCall.cmd \in Lists
        PROVE  /\ {<<res.peers[i].addr, res.peers[i].sel, res.peers[i].off>> :
                      i \in DOMAIN res.peers}
                    = {<<first[k].addr, chronyToPeerSelection[first[k].state], first[k].off>> :
                         k \in DOMAIN first}
               /\ \A i, j \in DOMAIN res.peers :
                    res.peers[i].addr = res.peers[j].addr => i = j
    <3>1. Chrony \/ Ntpd
      BY <2>3, <1>1, OfLists, Zenon DEF IInv, TypeInv
    <3>2. ChronyClear \/ NtpdClear
      BY <3>1, <2>3, Zenon DEF ChronyClear, NtpdClear, Ntpd
    <3>3. /\ first \in Seq(Source) /\ Listing(first)
          /\ Len(first) \in Nat /\ DOMAIN first = 1 .. Len(first)
      BY <1>1, LenProperties DEF IInv, Daemon
    <3>4. \A k \in DOMAIN first : \E i \in DOMAIN res.peers : Shows(res.peers[i], first[k])
      BY <3>2, <2>3, <1>1, AllShown, Zenon
    <3>5. \A i \in DOMAIN res.peers : \E k \in DOMAIN first : Shows(res.peers[i], first[k])
      <4>1. CASE ChronyClear
        <5>1. /\ res.n = Len(first) /\ DOMAIN res.peers = 0 .. res.n - 1
              /\ \A j \in 0 .. res.n - 1 : Shows(res.peers[j], first[j + 1])
          BY <4>1, <2>1, <2>3, Zenon DEF Complete, Walked
        <5>2. \A j \in 0 .. res.n - 1 : j + 1 \in DOMAIN first
          BY <5>1, <3>3
        <5> QED  BY <5>1, <5>2, Zenon
      <4>2. CASE NtpdClear
        BY <4>2, <2>1, Zenon DEF Sound
      <4> QED  BY <4>1, <4>2, <3>2, Zenon
    <3>6. \A i, j \in DOMAIN res.peers : res.peers[i].addr = res.peers[j].addr => i = j
      <4>1. CASE ChronyClear
        <5>1. /\ res.n = Len(first) /\ DOMAIN res.peers = 0 .. res.n - 1
              /\ \A j \in 0 .. res.n - 1 : res.peers[j].addr = first[j + 1].addr
          BY <4>1, <2>1, <2>3, Zenon DEF Complete, Walked, Shows
        <5>2. ASSUME NEW i \in 0 .. res.n - 1, NEW j \in 0 .. res.n - 1,
                     res.peers[i].addr = res.peers[j].addr
              PROVE  i = j
          <6>1. first[i + 1].addr = first[j + 1].addr
            BY <5>1, <5>2, Zenon
          <6>2. i + 1 \in DOMAIN first /\ j + 1 \in DOMAIN first
            BY <5>1, <3>3
          <6>3. i + 1 = j + 1
            BY <6>1, <6>2, <3>3, Zenon DEF Listing
          <6> QED  BY <6>3
        <5> QED  BY <5>1, <5>2, Zenon
      <4>2. CASE NtpdClear
        <5>1. \A i \in DOMAIN res.peers : res.peers[i].addr = i
          <6>1. \A i \in DOMAIN res.peers :
                  \E k \in DOMAIN first : first[k].addr = i /\ Shows(res.peers[i], first[k])
            BY <4>2, <2>1, Zenon DEF Sound
          <6>2. \A p, x : Shows(p, x) => p.addr = x.addr
            BY Zenon DEF Shows
          <6> QED  BY <6>1, <6>2
        <5> QED  BY <5>1, Zenon
      <4> QED  BY <4>1, <4>2, <3>2, Zenon
    <3> DEFINE p(i) == <<res.peers[i].addr, res.peers[i].sel, res.peers[i].off>>
               q(k) == <<first[k].addr, chronyToPeerSelection[first[k].state], first[k].off>>
    <3>7. \A i, k : Shows(res.peers[i], first[k]) => p(i) = q(k)
      BY Zenon DEF Shows
    <3> HIDE DEF p, q
    <3>8. {p(i) : i \in DOMAIN res.peers} = {q(k) : k \in DOMAIN first}
      <4>1. \A i \in DOMAIN res.peers : \E k \in DOMAIN first : p(i) = q(k)
        BY <3>5, <3>7, Zenon
      <4>2. \A k \in DOMAIN first : \E i \in DOMAIN res.peers : p(i) = q(k)
        BY <3>4, <3>7, Zenon
      <4> QED  BY <4>1, <4>2
    <3> USE DEF p, q
    <3> QED  BY <3>6, <3>8, Zenon
  <2> QED  BY <2>2, <2>3, Zenon DEF SnapshotUnlessChanged
<1>2. IInv => SnapshotUnlessChanged
  BY <1>1, Zenon
<1> QED  BY <1>2, Invariance, PTL

(* diag and stats report a usable time only if the daemon had a source for  *)
(* it, diag reports none only if it had none, and ptpcheck neither fails    *)
(* for want of optional data nor invents them.                              *)
THEOREM VerdictRight == Spec => []VerdictAgrees
<1>1. IInv => (flavour = "ptp" => OptionalIsOptional)
  BY Zenon DEF IInv, Control, Collected, Sound, Complete, OptionalIsOptional
<1>2. IInv => VerdictAgrees
  BY <1>1, Zenon DEF IInv, Verdict, VerdictAgrees
<1> QED  BY <1>2, Invariance, PTL

(* However a session ends, its socket file is gone, unless the connection   *)
(* to chronyd could not be set up.                                          *)
THEOREM NoSocketLeft == Spec => []SocketRemoved
<1>1. IInv => SocketRemoved
  BY Zenon DEF IInv, Control
<1> QED  BY <1>1, Invariance, PTL

=============================================================================
