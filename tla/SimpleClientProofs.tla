------------------------- MODULE SimpleClientProofs -------------------------
(***************************************************************************)
(* Proofs of the safety properties of SimpleClient for any clock offset,   *)
(* channel capacity and time-out, any number of messages, and whatever the *)
(* network loses, reorders or duplicates; and that it implements           *)
(* TimeTransfer.                                                           *)
(***************************************************************************)
EXTENDS SimpleClient, TLAPS

-----------------------------------------------------------------------------
(* Facts about the operators                                               *)
-----------------------------------------------------------------------------
Elems(s) == {s[k] : k \in 1 .. Len(s)}
Ordered(s) == \A k, l \in 1 .. Len(s) : k <= l => s[k].rx <= s[l].rx

\* The sets of numbers.
LEMMA Numbers ==
  /\ Seqs \subseteq Nat /\ 0 \in Seqs /\ Zero \in Nat
  /\ Times \subseteq Nat \ {Zero}
  /\ \A n \in Nat : (n + 1) % SeqMod \in Seqs /\ n % SeqMod \in Seqs
  /\ \A n \in 1 .. MaxTime : n \in Times /\ n + ClockOffset \in Times
  BY ClientAssumption DEF Seqs, Times, Zero

\* Small numbers are not changed by a modulus.
LEMMA ModSmall ==
  ASSUME NEW a \in Nat, NEW b \in Nat \ {0}, a < b
  PROVE  a % b = a
  OBVIOUS

\* What a reader goroutine does to inChan.
LEMMA AppendElems ==
  ASSUME NEW s \in Seq(Msgs), NEW m \in Msgs
  PROVE  /\ Append(s, m) \in Seq(Msgs) /\ Len(Append(s, m)) = Len(s) + 1
         /\ Elems(Append(s, m)) = Elems(s) \cup {m}
         /\ (Ordered(s) /\ \A n \in Elems(s) : n.rx <= m.rx) => Ordered(Append(s, m))
<1> DEFINE t == Append(s, m)
<1>1. /\ t \in Seq(Msgs) /\ Len(s) \in Nat /\ Len(t) = Len(s) + 1
      /\ t[Len(s) + 1] = m
      /\ \A k \in 1 .. Len(s) : t[k] = s[k]
  OBVIOUS
<1> HIDE DEF t
<1>2. \A k \in 1 .. Len(t) : k \in 1 .. Len(s) \/ k = Len(s) + 1
  BY <1>1
<1>3. \A k \in 1 .. Len(s) : k \in 1 .. Len(t)
  BY <1>1
<1>4. Len(s) + 1 \in 1 .. Len(t)
  BY <1>1
<1>5. Elems(t) = Elems(s) \cup {m}
  BY <1>1, <1>2, <1>3, <1>4, Zenon DEF Elems
<1>6. ASSUME Ordered(s), \A n \in Elems(s) : n.rx <= m.rx
      PROVE  Ordered(t)
  <2> SUFFICES ASSUME NEW k \in 1 .. Len(t), NEW l \in 1 .. Len(t), k <= l
               PROVE  t[k].rx <= t[l].rx
    BY Zenon DEF Ordered
  <2>1. \A j \in 1 .. Len(s) : s[j].rx <= m.rx
    BY <1>6, Zenon DEF Elems
  <2>2. m.rx <= m.rx
    <3>1. m.rx \in Times \cup {Zero}
      BY Zenon DEF Msgs
    <3>2. m.rx \in Nat
      BY <3>1, Numbers, Zenon
    <3>3. QED
      BY <3>2
  <2>3. QED
    BY <1>1, <1>2, <1>6, <2>1, <2>2 DEF Ordered
<1>7. QED
  BY <1>1, <1>5, <1>6, Zenon DEF t

\* What the main loop does to it.
LEMMA TailElems ==
  ASSUME NEW s \in Seq(Msgs), s # <<>>
  PROVE  /\ Head(s) \in Msgs /\ Head(s) \in Elems(s)
         /\ Tail(s) \in Seq(Msgs) /\ Len(Tail(s)) = Len(s) - 1 /\ Len(s) \in Nat
         /\ Elems(Tail(s)) \subseteq Elems(s)
         /\ Ordered(s) => Ordered(Tail(s)) /\ \A n \in Elems(s) : Head(s).rx <= n.rx
<1> DEFINE t == Tail(s)
<1>1. /\ t \in Seq(Msgs) /\ Len(s) \in Nat /\ Len(s) >= 1 /\ Len(t) = Len(s) - 1
      /\ Head(s) = s[1] /\ Head(s) \in Msgs
      /\ \A k \in 1 .. Len(t) : t[k] = s[k + 1] /\ k + 1 \in 1 .. Len(s)
  OBVIOUS
<1> HIDE DEF t
<1>2. 1 \in 1 .. Len(s)
  BY <1>1
<1>3. Elems(t) \subseteq Elems(s) /\ Head(s) \in Elems(s)
  BY <1>1, <1>2 DEF Elems
<1>4. ASSUME Ordered(s)
      PROVE  Ordered(t) /\ \A n \in Elems(s) : Head(s).rx <= n.rx
  <2>1. \A k, l \in 1 .. Len(t) : k <= l => k + 1 <= l + 1
    OBVIOUS
  <2>2. Ordered(t)
    BY <1>1, <1>4, <2>1, Zenon DEF Ordered
  <2>3. \A k \in 1 .. Len(s) : 1 <= k
    BY <1>1
  <2>4. QED
    BY <1>1, <1>2, <1>4, <2>2, <2>3, Zenon DEF Ordered, Elems
<1>5. QED
  BY <1>1, <1>3, <1>4, Zenon DEF t

\* Half rounds by at most one half.
LEMMA HalfRounds ==
  ASSUME NEW d \in Int
  PROVE  Half(d) \in Int /\ d - 2 * Half(d) \in {-1, 0, 1}
<1>1. CASE d >= 0
  BY <1>1 DEF Half
<1>2. CASE d < 0
  <2>1. -d \in Nat /\ -d - 2 * ((-d) \div 2) \in {0, 1} /\ (-d) \div 2 \in Int
    BY <1>2
  <2>2. Half(d) = -((-d) \div 2)
    BY <1>2 DEF Half
  <2>3. QED
    BY <2>1, <2>2
<1>3. QED
  BY <1>1, <1>2

-----------------------------------------------------------------------------
(* The handshake: the inductive invariant                                  *)
-----------------------------------------------------------------------------
(* Messages on their way to the client, and those it has not handled yet.  *)
Incoming == toClient \cup Elems(inChan)

(* A request on its way asks for what the client has asked for.            *)
Requested == \A m \in toServer : m.type = "request" => m.what \in asked

(* A grant on its way was granted.                                         *)
Granted ==
  \A m \in Incoming : m.type = "grant" /\ m.ts # Zero => m.what \in granted

(* Only a cancellation leads to the state in which Run returns nil.        *)
DoneMeansCancelled == state = "done" => cancelled

HInv ==
  /\ TypeOK /\ Requested /\ Granted /\ HandshakeInOrder
  /\ DoneMeansCancelled /\ NilMeansCancelled

-----------------------------------------------------------------------------
(* Types                                                                   *)
-----------------------------------------------------------------------------
MsgTypes == {"request", "ack", "delayReq", "grant", "cancel", "announce",
             "sync", "followUp", "delayResp", "other", "bad"}

\* The constructor of messages makes messages.
LEMMA MsgType ==
  ASSUME NEW t \in MsgTypes, NEW w \in Grants \cup {"none"}, NEW s \in Seqs,
         NEW ts \in Times \cup {Zero}
  PROVE  Msg(t, w, s, ts) \in Msgs
  BY Zenon DEF Msg, Msgs, MsgTypes

\* The initial state is well typed.
LEMMA InitType == Init => TypeOK
<1> SUFFICES ASSUME Init
             PROVE  TypeOK
  BY Zenon
<1>1. NoData \in Stamps
  BY Zenon DEF NoData, Stamps
<1>2. serverToClient \in [Seqs -> Stamps] /\ clientToServer \in [Seqs -> Stamps]
  BY <1>1, Zenon DEF Init
<1>3. now \in 1 .. MaxTime /\ sends \in 0 .. MaxSends /\ extras \in 0 .. MaxExtras
      /\ nsync \in 0 .. MaxSyncs /\ genSequence \in Seqs /\ eventSequence \in Seqs
  BY ClientAssumption, Numbers DEF Init
<1>4. inChan \in Seq(Msgs) /\ Len(inChan) <= InChanSize
  BY ClientAssumption DEF Init
<1>5. QED
  BY <1>2, <1>3, <1>4, Zenon DEF Init, TypeOK, NoReport

\* Storing a time stamp keeps the type of the measurements.
LEMMA StoreType ==
  ASSUME NEW m \in [Seqs -> Stamps], NEW s \in Seqs, NEW ts \in Times \cup {Zero}
  PROVE  /\ [m EXCEPT ![s].send = ts] \in [Seqs -> Stamps]
         /\ [m EXCEPT ![s].recv = ts] \in [Seqs -> Stamps]
<1>1. m[s] \in Stamps
  BY Zenon
<1>2. [m[s] EXCEPT !.send = ts] \in Stamps /\ [m[s] EXCEPT !.recv = ts] \in Stamps
  BY <1>1, Zenon DEF Stamps
<1>3. QED
  BY <1>2, Zenon

\* Results are made of two samples.
LEMMA ResultType ==
  ASSUME NEW x \in Stamps, NEW y \in Stamps, y.recv # Zero
  PROVE  Result(x, y) \in [sync : Stamps, delay : Stamps, Delay : Int, Offset : Int,
                           Timestamp : Times]
<1>1. /\ x.send \in Int /\ x.recv \in Int /\ y.send \in Int /\ y.recv \in Int
      /\ y.recv \in Times
  <2>1. /\ x.send \in Times \cup {Zero} /\ x.recv \in Times \cup {Zero}
        /\ y.send \in Times \cup {Zero} /\ y.recv \in Times \cup {Zero}
    BY Zenon DEF Stamps
  <2>2. \A t \in Times \cup {Zero} : t \in Int /\ (t # Zero => t \in Times)
    BY Numbers
  <2>3. QED
    BY <2>1, <2>2, Zenon
<1> DEFINE d == Half((y.recv - y.send) + (x.recv - x.send))
<1>2. d \in Int
  BY <1>1, HalfRounds
<1>3. (x.recv - x.send) - d \in Int
  BY <1>1, <1>2
<1>4. Result(x, y) = [sync |-> x, delay |-> y, Delay |-> d,
                      Offset |-> (x.recv - x.send) - d, Timestamp |-> y.recv]
  BY Zenon DEF Result
<1> HIDE DEF d
<1>5. QED
  BY <1>1, <1>2, <1>3, <1>4

\* What Tick, the failures and the ends of the main loop leave alone.
clientFrame == <<inChan, seqVars, mVars, report, toServer, toClient, extras, srvVars,
                 syncTimes, delayTimes, asked, holds, cancelled>>

\* Handling a message keeps the types.
LEMMA HandlerType ==
  ASSUME TypeOK, NEW m \in Msgs, handleMsg(m)
  PROVE  /\ state' \in {"init", "inProgress", "done"}
         /\ outcome' \in {"running", "nil", "error", "deadline"} \/ outcome' = outcome
         /\ genSequence' \in Seqs /\ eventSequence' \in Seqs /\ sends' \in 0 .. MaxSends
         /\ serverToClient' \in [Seqs -> Stamps] /\ clientToServer' \in [Seqs -> Stamps]
         /\ currentUTCoffset' \in BOOLEAN
         /\ report' \subseteq [sync : Stamps, delay : Stamps, Delay : Int, Offset : Int,
                               Timestamp : Times]
         /\ toServer' \subseteq Msgs
         /\ asked' \subseteq Grants /\ holds' \subseteq Grants /\ cancelled' \in BOOLEAN
<1> USE DEF seqVars, mVars, clientVars
<1>1. /\ m.type \in MsgTypes /\ m.what \in Grants \cup {"none"} /\ m.seq \in Seqs
      /\ m.ts \in Times \cup {Zero} /\ m.rx \in Times \cup {Zero}
  BY Zenon DEF Msgs, MsgTypes
<1>2. \A e \in Seqs : (e + 1) % SeqMod \in Seqs
  BY Numbers, Zenon
<1>3. \A n \in 0 .. MaxSends : n < MaxSends => n + 1 \in 0 .. MaxSends
  BY ClientAssumption
<1>4. CASE handleGrantUnicast(m)
  <2>1. ASSUME NEW w \in Grants, reqUnicast(w)
        PROVE  /\ genSequence' \in Seqs /\ sends' \in 0 .. MaxSends /\ toServer' \subseteq Msgs
               /\ asked' \subseteq Grants
    <3>1. Msg("request", w, genSequence, Zero) \in Msgs
      BY MsgType, Zenon DEF TypeOK, MsgTypes
    <3>2. QED
      BY <1>2, <1>3, <2>1, <3>1, Zenon DEF reqUnicast, sendGeneralMsg, TypeOK
  <2>2. UNCHANGED <<mVars, report, cancelled>>
    BY <1>4, Zenon DEF handleGrantUnicast
  <2>3. state' \in {"init", "inProgress", "done"}
    BY <1>4, Zenon DEF handleGrantUnicast, TypeOK
  <2>4. CASE m.ts = Zero
    BY <1>4, <2>2, <2>3, <2>4, Zenon DEF handleGrantUnicast, TypeOK
  <2>5. CASE m.ts # Zero /\ m.what \in DOMAIN NextRequest
    <3>1. NextRequest[m.what] \in Grants /\ m.what \in Grants
      BY <2>5 DEF NextRequest, Grants
    <3>2. holds' = holds \cup {m.what}
      BY <1>4, <2>5, <3>1, Zenon DEF handleGrantUnicast, NextRequest
    <3>3. CASE reqUnicast(NextRequest[m.what]) /\ UNCHANGED <<eventSequence, outcome>>
      BY <2>1, <2>2, <2>3, <3>1, <3>2, <3>3, Zenon DEF TypeOK
    <3>4. CASE SendFails /\ UNCHANGED <<seqVars, toServer, asked>>
      BY <2>2, <2>3, <3>1, <3>2, <3>4, Zenon DEF TypeOK, SendFails
    <3>5. QED
      BY <1>4, <2>5, <3>3, <3>4, Zenon DEF handleGrantUnicast, NextRequest
  <2>6. CASE m.ts # Zero /\ m.what \notin DOMAIN NextRequest
    BY <1>4, <2>2, <2>3, <2>6, Zenon DEF handleGrantUnicast, TypeOK, Grants
  <2>7. QED
    BY <2>4, <2>5, <2>6, Zenon
<1>5. CASE handleCancelUnicast(m)
  <2>1. m.what \in Grants \cup {"none"} /\ Msg("ack", m.what, genSequence, Zero) \in Msgs
    BY <1>1, MsgType, Zenon DEF TypeOK, MsgTypes
  <2>2. QED
    BY <1>2, <1>3, <1>5, <2>1, Zenon DEF handleCancelUnicast, sendGeneralMsg, SendFails, TypeOK
<1>6. CASE handleAnnounce(m)
  BY <1>6, Zenon DEF handleAnnounce, TypeOK
<1>7. CASE handleSync(m)
  <2>1. serverToClient' \in [Seqs -> Stamps]
    BY <1>1, <1>7, StoreType, Zenon DEF handleSync, addSync, TypeOK
  <2>2. QED
    BY <1>7, <2>1, Zenon DEF handleSync, TypeOK
<1>8. CASE handleFollowUp(m)
  <2>1. serverToClient' \in [Seqs -> Stamps]
    BY <1>1, <1>8, StoreType, Zenon DEF handleFollowUp, addFollowUp, TypeOK
  <2>2. clientToServer' \in [Seqs -> Stamps]
    <3>1. now \in Times \cup {Zero} /\ eventSequence \in Seqs
      BY Numbers, Zenon DEF TypeOK
    <3>2. CASE addDelayReq(eventSequence, now)
      BY <3>1, <3>2, StoreType, Zenon DEF addDelayReq, TypeOK
    <3>3. CASE UNCHANGED clientToServer
      BY <3>3, Zenon DEF TypeOK
    <3>4. QED
      BY <1>8, <3>2, <3>3, Zenon DEF handleFollowUp
  <2>3. Msg("delayReq", "none", eventSequence, now) \in Msgs
    BY MsgType, Numbers, Zenon DEF TypeOK, MsgTypes
  <2>4. QED
    BY <1>2, <1>3, <1>8, <2>1, <2>2, <2>3, Zenon DEF handleFollowUp, SendFails, TypeOK
<1>9. CASE handleDelay(m)
  <2>1. clientToServer' \in [Seqs -> Stamps]
    BY <1>1, <1>9, StoreType, Zenon DEF handleDelay, addDelayResp, TypeOK
  <2>2. report' \subseteq [sync : Stamps, delay : Stamps, Delay : Int, Offset : Int,
                           Timestamp : Times]
    <3>1. CASE UNCHANGED report
      BY <3>1, Zenon DEF TypeOK
    <3>2. ASSUME NEW s \in latest(serverToClient), NEW r \in latest(clientToServer'),
                 report' = {Result(serverToClient[s], clientToServer'[r])}
          PROVE  report' \subseteq [sync : Stamps, delay : Stamps, Delay : Int, Offset : Int,
                                    Timestamp : Times]
      <4>1. /\ serverToClient[s] \in Stamps /\ clientToServer'[r] \in Stamps
            /\ clientToServer'[r].recv # Zero
        BY <2>1, Zenon DEF latest, Complete, TypeOK
      <4>2. QED
        BY <3>2, <4>1, ResultType, Zenon
    <3>3. QED
      BY <1>9, <3>1, <3>2, Zenon DEF handleDelay
  <2>3. QED
    BY <1>9, <2>1, <2>2, Zenon DEF handleDelay, TypeOK
<1>10. CASE handleOther(m)
  BY <1>10, Zenon DEF handleOther, TypeOK
<1>11. QED
  BY <1>4, <1>5, <1>6, <1>7, <1>8, <1>9, <1>10, Zenon DEF handleMsg

\* The type invariant is inductive.
LEMMA TypeStep ==
  ASSUME TypeOK, Requested, [Next]_vars
  PROVE  TypeOK'
<1> USE DEF seqVars, mVars, srvVars
<1>1. \A n \in 1 .. MaxTime : n < MaxTime => n + 1 \in 1 .. MaxTime
  BY ClientAssumption
<1>2. CASE Receive
  <2>1. inChan # <<>> /\ inChan' = Tail(inChan) /\ handleMsg(Head(inChan))
    BY <1>2, Zenon DEF Receive
  <2>2. Head(inChan) \in Msgs /\ inChan' \in Seq(Msgs) /\ Len(inChan') <= InChanSize
    BY <2>1, TailElems, ClientAssumption DEF TypeOK
  <2>3. UNCHANGED <<now, asleep, toClient, extras, srvVars, syncTimes, delayTimes>>
    BY <1>2, Zenon DEF Receive
  <2>4. QED
    BY <2>1, <2>2, <2>3, HandlerType, Zenon DEF TypeOK
<1>3. CASE AskForAnnounce
  <2>1. Msg("request", "announce", genSequence, Zero) \in Msgs /\ "announce" \in Grants
    BY MsgType, Zenon DEF TypeOK, MsgTypes, Grants
  <2>2. \A e \in Seqs : (e + 1) % SeqMod \in Seqs
    BY Numbers, Zenon
  <2>3. \A n \in 0 .. MaxSends : n < MaxSends => n + 1 \in 0 .. MaxSends
    BY ClientAssumption
  <2>4. UNCHANGED <<now, state, inChan, mVars, report, toClient, extras, srvVars,
                    syncTimes, delayTimes, holds, cancelled>>
    BY <1>3, Zenon DEF AskForAnnounce
  <2>5. /\ genSequence' \in Seqs /\ sends' \in 0 .. MaxSends /\ toServer' \subseteq Msgs
        /\ asked' \subseteq Grants /\ eventSequence' = eventSequence
    BY <1>3, <2>1, <2>2, <2>3, Zenon DEF AskForAnnounce, reqUnicast, sendGeneralMsg, TypeOK
  <2>6. asleep' \in BOOLEAN /\ (outcome' = outcome \/ outcome' = "error")
    BY <1>3, Zenon DEF AskForAnnounce, SendFails, TypeOK
  <2>7. QED
    BY <2>4, <2>5, <2>6, Zenon DEF TypeOK
<1>4. CASE Finish \/ CtxDone \/ SetupFails \/ ReadFails
  <2>1. /\ outcome' \in {"nil", "deadline", "error"}
        /\ UNCHANGED <<now, state, asleep, clientFrame>>
    BY <1>4, Zenon DEF Finish, CtxDone, SetupFails, ReadFails, clientVars, clientFrame
  <2>2. QED
    BY <2>1, Zenon DEF clientFrame, TypeOK
<1>5. CASE Tick
  <2>1. now' \in 1 .. MaxTime
    BY <1>1, <1>5, Zenon DEF Tick, TypeOK
  <2>2. asleep' = FALSE /\ UNCHANGED <<state, outcome, clientFrame>>
    BY <1>5, Zenon DEF Tick, clientVars, clientFrame
  <2>3. QED
    BY <2>1, <2>2, Zenon DEF clientFrame, TypeOK
<1>6. ASSUME NEW m \in toClient, NEW again \in BOOLEAN, Deliver(m, again)
      PROVE  TypeOK'
  <2>1. m \in Msgs /\ now \in Times
    BY Numbers, Zenon DEF TypeOK
  <2>2. [m EXCEPT !.rx = now] \in Msgs
    BY <2>1, Zenon DEF Msgs
  <2>3. inChan' \in Seq(Msgs) /\ Len(inChan') <= InChanSize
    BY <1>6, <2>2, AppendElems, ClientAssumption DEF Deliver, TypeOK
  <2>4. UNCHANGED <<now, state, outcome, asleep, clientVars, srvVars, delayTimes>>
    BY <1>6, Zenon DEF Deliver
  <2>5. toClient' \subseteq Msgs /\ extras' \in 0 .. MaxExtras
    BY <1>6, ClientAssumption DEF Deliver, TypeOK
  <2>6. [send |-> m.ts, recv |-> now] \in Stamps
    BY <2>1, Zenon DEF Msgs, Stamps
  <2>7. syncTimes' \subseteq Stamps
    BY <1>6, <2>6, Zenon DEF Deliver, TypeOK
  <2>8. QED
    BY <2>3, <2>4, <2>5, <2>7, Zenon DEF clientVars, TypeOK
<1>7. ASSUME NEW m \in toServer, NEW d \in {0, 1}, ServerGrant(m, d)
      PROVE  TypeOK'
  <2>1. m \in Msgs /\ d \in Times \cup {Zero} /\ 0 \in Seqs
    BY Numbers, ClientAssumption DEF TypeOK, Times, Zero
  <2>2. Msg("grant", m.what, 0, d) \in Msgs /\ m.what \in Grants \cup {"none"}
    BY <2>1, MsgType, Zenon DEF Msgs, MsgTypes
  <2>3. UNCHANGED <<serverFrame, extras, nsync, syncTimes, delayTimes>>
    BY <1>7, Zenon DEF ServerGrant
  <2>4. m.what \in Grants
    BY <1>7, Zenon DEF ServerGrant, Requested, TypeOK
  <2>5. QED
    BY <1>7, <2>2, <2>3, <2>4, Zenon DEF ServerGrant, serverFrame, TypeOK
<1>8. ASSUME NEW t \in {"announce", "cancel", "other", "bad"}, ServerSends(t)
      PROVE  TypeOK'
  <2>1. Msg(t, "announce", 0, Zero) \in Msgs
    BY MsgType, Numbers, Zenon DEF MsgTypes, Grants
  <2>2. extras' \in 0 .. MaxExtras
    BY <1>8, ClientAssumption DEF ServerSends, TypeOK
  <2>3. UNCHANGED <<serverFrame, toServer, srvVars, syncTimes, delayTimes>>
    BY <1>8, Zenon DEF ServerSends
  <2>4. QED
    BY <1>8, <2>1, <2>2, <2>3, Zenon DEF ServerSends, serverFrame, TypeOK
<1>9. CASE ServerSync
  <2>1. nsync % SeqMod \in Seqs /\ now + ClockOffset \in Times
    BY Numbers DEF TypeOK
  <2>2. \A t \in {"sync", "followUp"} : Msg(t, "none", nsync % SeqMod, now + ClockOffset) \in Msgs
    BY <2>1, MsgType, Zenon DEF MsgTypes
  <2>3. nsync' \in 0 .. MaxSyncs
    <3>1. nsync < MaxSyncs /\ nsync' = nsync + 1
      BY <1>9, Zenon DEF ServerSync
    <3>2. QED
      BY <3>1, ClientAssumption DEF TypeOK
  <2>4. UNCHANGED <<serverFrame, extras, toServer, granted, syncTimes, delayTimes>>
    BY <1>9, Zenon DEF ServerSync
  <2>5. toClient' \subseteq Msgs
    BY <1>9, <2>2, Zenon DEF ServerSync, TypeOK
  <2>6. QED
    BY <2>3, <2>4, <2>5, Zenon DEF serverFrame, TypeOK
<1>10. ASSUME NEW m \in toServer, ServerDelayResp(m)
       PROVE  TypeOK'
  <2>1. m \in Msgs /\ now + ClockOffset \in Times
    BY Numbers, Zenon DEF TypeOK
  <2>2. Msg("delayResp", "none", m.seq, now + ClockOffset) \in Msgs
    BY <2>1, MsgType, Zenon DEF Msgs, MsgTypes
  <2>3. [send |-> m.ts, recv |-> now + ClockOffset] \in Stamps
    BY <2>1, Zenon DEF Msgs, Stamps
  <2>4. UNCHANGED <<serverFrame, extras, srvVars, syncTimes>>
    BY <1>10, Zenon DEF ServerDelayResp
  <2>5. QED
    BY <1>10, <2>2, <2>3, <2>4, Zenon DEF ServerDelayResp, serverFrame, TypeOK
<1>11. CASE UNCHANGED vars
  BY <1>11, Zenon DEF vars, netVars, histVars, TypeOK
<1>12. QED
  BY <1>2, <1>3, <1>4, <1>5, <1>6, <1>7, <1>8, <1>9, <1>10, <1>11, Zenon
     DEF Next, ClientStep, ServerStep

-----------------------------------------------------------------------------
(* The handshake                                                           *)
-----------------------------------------------------------------------------
\* The part of the invariant that concerns the handshake.
Handshake == Requested /\ Granted /\ HandshakeInOrder

\* A step that asks, grants and notes nothing and adds no message leaves the
\* handshake as it is.
LEMMA HandshakeFrame ==
  ASSUME Handshake, UNCHANGED <<asked, granted, holds>>,
         toServer' \subseteq toServer, Incoming' \subseteq Incoming
  PROVE  Handshake'
  BY Zenon DEF Handshake, Requested, Granted, HandshakeInOrder, NextRequest

\* So does a step that adds messages other than requests and grants.
LEMMA HandshakeOthers ==
  ASSUME Handshake, UNCHANGED <<asked, granted, holds>>,
         \A m \in toServer' : m \in toServer \/ m.type # "request",
         \A m \in Incoming' : m \in Incoming \/ m.type # "grant"
  PROVE  Handshake'
  BY Zenon DEF Handshake, Requested, Granted, HandshakeInOrder, NextRequest

\* What becomes of the messages when the main loop takes one.
LEMMA ReceiveIncoming ==
  ASSUME TypeOK, Receive
  PROVE  /\ Head(inChan) \in Msgs /\ Head(inChan) \in Incoming
         /\ Incoming' \subseteq Incoming /\ toClient' = toClient
         /\ handleMsg(Head(inChan))
<1>1. inChan # <<>> /\ inChan' = Tail(inChan) /\ inChan \in Seq(Msgs) /\ toClient' = toClient
  BY Zenon DEF Receive, TypeOK
<1>2. handleMsg(Head(inChan))
  BY Zenon DEF Receive
<1>3. Head(inChan) \in Elems(inChan) /\ Elems(inChan') \subseteq Elems(inChan)
      /\ Head(inChan) \in Msgs
  BY <1>1, TailElems, Zenon
<1>4. QED
  BY <1>1, <1>2, <1>3, Zenon DEF Incoming

\* What becomes of them when a reader goroutine takes one.
LEMMA DeliverIncoming ==
  ASSUME TypeOK, NEW m \in toClient, NEW again \in BOOLEAN, Deliver(m, again)
  PROVE  LET n == [m EXCEPT !.rx = now]
         IN  /\ n \in Msgs /\ n.type = m.type /\ n.what = m.what
             /\ n.seq = m.seq /\ n.ts = m.ts /\ n.rx = now
             /\ Elems(inChan') = Elems(inChan) \cup {n}
             /\ toClient' \subseteq toClient
             /\ Incoming' \subseteq Incoming \cup {n}
<1> DEFINE n == [m EXCEPT !.rx = now]
<1>1. m \in Msgs /\ now \in Times
  BY Numbers, Zenon DEF TypeOK
<1>2. /\ n \in Msgs /\ n.type = m.type /\ n.what = m.what /\ n.seq = m.seq /\ n.ts = m.ts
      /\ n.rx = now
  BY <1>1, Zenon DEF Msgs
<1>3. inChan' = Append(inChan, n) /\ toClient' \subseteq toClient /\ inChan \in Seq(Msgs)
  BY Zenon DEF Deliver, TypeOK
<1> HIDE DEF n
<1>4. Elems(inChan') = Elems(inChan) \cup {n}
  BY <1>2, <1>3, AppendElems, Zenon
<1>5. QED
  BY <1>2, <1>3, <1>4, Zenon DEF Incoming, n

\* The fields of a message that was made.
LEMMA MsgFields ==
  ASSUME NEW t, NEW w, NEW s, NEW ts
  PROVE  /\ Msg(t, w, s, ts).type = t /\ Msg(t, w, s, ts).what = w
         /\ Msg(t, w, s, ts).seq = s /\ Msg(t, w, s, ts).ts = ts
         /\ Msg(t, w, s, ts).rx = Zero
  BY Zenon DEF Msg

\* Asking for a message type.
LEMMA AskStep ==
  ASSUME Handshake, NEW w \in Grants, reqUnicast(w), granted' = granted,
         holds \subseteq holds', holds' \subseteq granted, Incoming' \subseteq Incoming,
         \A v \in DOMAIN NextRequest : NextRequest[v] = w => v \in holds'
  PROVE  Handshake'
<1>1. /\ asked' = asked \cup {w}
      /\ toServer' = toServer \cup {Msg("request", w, genSequence, Zero)}
  BY Zenon DEF reqUnicast, sendGeneralMsg
<1>2. Requested'
  BY <1>1, MsgFields DEF Handshake, Requested
<1>3. Granted'
  BY Zenon DEF Handshake, Granted
<1>4. HandshakeInOrder'
  BY <1>1, Zenon DEF Handshake, HandshakeInOrder, NextRequest
<1>5. QED
  BY <1>2, <1>3, <1>4, Zenon DEF Handshake

\* Handling a message.
LEMMA HandlerHandshake ==
  ASSUME TypeOK, Handshake, Receive
  PROVE  Handshake'
<1> USE DEF seqVars, mVars, srvVars, clientVars
<1> DEFINE m == Head(inChan)
<1>1. m \in Msgs /\ m \in Incoming /\ Incoming' \subseteq Incoming /\ handleMsg(m)
  BY ReceiveIncoming, Zenon
<1>2. granted' = granted
  BY Zenon DEF Receive
<1> HIDE DEF m
<1>3. CASE handleGrantUnicast(m)
  <2>1. CASE m.ts = Zero
    BY <1>1, <1>2, <1>3, <2>1, HandshakeFrame, Zenon DEF handleGrantUnicast
  <2>2. CASE m.ts # Zero
    <3>1. m.what \in granted /\ m.what \in Grants /\ holds' = holds \cup {m.what}
      BY <1>1, <1>3, <2>2, Zenon DEF handleGrantUnicast, Handshake, Granted, TypeOK
    <3>2. holds \subseteq holds' /\ holds' \subseteq granted
      BY <3>1, Zenon DEF Handshake, HandshakeInOrder
    <3>3. CASE m.what \in DOMAIN NextRequest /\ reqUnicast(NextRequest[m.what])
      <4>1. NextRequest[m.what] \in Grants
        BY <3>3 DEF NextRequest, Grants
      <4>2. \A v \in DOMAIN NextRequest : NextRequest[v] = NextRequest[m.what] => v \in holds'
        BY <3>1, <3>3 DEF NextRequest
      <4>3. QED
        BY <1>1, <1>2, <3>2, <3>3, <4>1, <4>2, AskStep, Zenon
    <3>4. CASE UNCHANGED <<toServer, asked>>
      BY <1>1, <1>2, <3>2, <3>4, Zenon DEF Handshake, Requested, Granted, HandshakeInOrder, NextRequest
    <3>5. QED
      BY <1>3, <2>2, <3>3, <3>4, Zenon DEF handleGrantUnicast
  <2>3. QED
    BY <2>1, <2>2, Zenon
<1>4. CASE handleCancelUnicast(m)
  <2>1. UNCHANGED <<asked, holds>>
    BY <1>4, Zenon DEF handleCancelUnicast
  <2>2. toServer' = toServer \/ toServer' = toServer \cup {Msg("ack", m.what, genSequence, Zero)}
    BY <1>4, Zenon DEF handleCancelUnicast, sendGeneralMsg
  <2>3. \A n \in toServer' : n \in toServer \/ n.type # "request"
    BY <2>2, MsgFields
  <2>4. QED
    BY <1>1, <1>2, <2>1, <2>3, HandshakeOthers, Zenon
<1>5. CASE handleFollowUp(m)
  <2>1. UNCHANGED <<asked, holds>>
    BY <1>5, Zenon DEF handleFollowUp
  <2>2. toServer' = toServer \/ toServer' = toServer \cup {Msg("delayReq", "none", eventSequence, now)}
    BY <1>5, Zenon DEF handleFollowUp
  <2>3. \A n \in toServer' : n \in toServer \/ n.type # "request"
    <3>1. Msg("delayReq", "none", eventSequence, now).type = "delayReq"
      BY Zenon DEF Msg
    <3>2. QED
      BY <2>2, <3>1, Zenon
  <2>4. QED
    BY <1>1, <1>2, <2>1, <2>3, HandshakeOthers, Zenon
<1>6. CASE handleAnnounce(m) \/ handleSync(m) \/ handleDelay(m) \/ handleOther(m)
  <2>1. UNCHANGED <<asked, holds, toServer>>
    BY <1>6, Zenon DEF handleAnnounce, handleSync, handleDelay, handleOther
  <2>2. QED
    BY <1>1, <1>2, <2>1, HandshakeFrame, Zenon
<1>7. QED
  BY <1>1, <1>3, <1>4, <1>5, <1>6, Zenon DEF handleMsg

\* The handshake part of the invariant is inductive.
LEMMA HandshakeStep ==
  ASSUME TypeOK, Handshake, [Next]_vars
  PROVE  Handshake'
<1> USE DEF seqVars, mVars, srvVars
<1>1. CASE Receive
  BY <1>1, HandlerHandshake, Zenon
<1>2. CASE AskForAnnounce
  <2>1. UNCHANGED <<inChan, toClient, granted, holds>>
    BY <1>2, Zenon DEF AskForAnnounce
  <2>2. Incoming' \subseteq Incoming
    BY <2>1, Zenon DEF Incoming, Elems
  <2>3. CASE reqUnicast("announce")
    <3>1. "announce" \in Grants /\ \A v \in DOMAIN NextRequest : NextRequest[v] # "announce"
      BY DEF Grants, NextRequest
    <3>2. QED
      BY <2>1, <2>2, <2>3, <3>1, AskStep, Zenon DEF Handshake, HandshakeInOrder
  <2>4. CASE UNCHANGED <<toServer, asked>>
    BY <2>1, <2>2, <2>4, HandshakeFrame, Zenon
  <2>5. QED
    BY <1>2, <2>3, <2>4, Zenon DEF AskForAnnounce
<1>3. CASE Finish \/ CtxDone \/ SetupFails \/ ReadFails \/ Tick
  <2>1. UNCHANGED clientFrame
    BY <1>3, Zenon DEF Finish, CtxDone, SetupFails, ReadFails, Tick, clientVars, clientFrame
  <2>2. Incoming' \subseteq Incoming /\ toServer' \subseteq toServer
    BY <2>1, Zenon DEF clientFrame, Incoming, Elems
  <2>3. QED
    BY <2>1, <2>2, HandshakeFrame, Zenon DEF clientFrame
<1>4. ASSUME NEW m \in toClient, NEW again \in BOOLEAN, Deliver(m, again)
      PROVE  Handshake'
  <2> DEFINE n == [m EXCEPT !.rx = now]
  <2>1. /\ n.type = m.type /\ n.what = m.what /\ n.ts = m.ts
        /\ Incoming' \subseteq Incoming \cup {n}
    BY <1>4, DeliverIncoming, Zenon
  <2>2. UNCHANGED <<toServer, asked, granted, holds>>
    BY <1>4, Zenon DEF Deliver, clientVars
  <2>3. m \in Incoming
    BY Zenon DEF Incoming
  <2> HIDE DEF n
  <2>4. QED
    BY <2>1, <2>2, <2>3, Zenon DEF Handshake, Requested, Granted, HandshakeInOrder, NextRequest
<1>5. ASSUME NEW m \in toServer, NEW d \in {0, 1}, ServerGrant(m, d)
      PROVE  Handshake'
  <2>1. /\ m.type = "request" /\ toServer' \subseteq toServer
        /\ toClient' = toClient \cup {Msg("grant", m.what, 0, d)}
        /\ granted' = IF d = Zero THEN granted ELSE granted \cup {m.what}
    BY <1>5, Zenon DEF ServerGrant
  <2>2. UNCHANGED <<inChan, asked, holds>>
    BY <1>5, Zenon DEF ServerGrant, serverFrame
  <2>3. Incoming' \subseteq Incoming \cup {Msg("grant", m.what, 0, d)}
    BY <2>1, <2>2, Zenon DEF Incoming, Elems
  <2>4. m.what \in asked
    BY <2>1, Zenon DEF Handshake, Requested
  <2>5. Granted'
    BY <2>1, <2>3, MsgFields DEF Handshake, Granted
  <2>6. QED
    BY <2>1, <2>2, <2>4, <2>5, Zenon DEF Handshake, Requested, HandshakeInOrder, NextRequest
<1>6. CASE ServerSync \/ (\E t \in {"announce", "cancel", "other", "bad"} : ServerSends(t))
           \/ (\E m \in toServer : ServerDelayResp(m))
  <2>1. \A n \in toClient' : n \in toClient \/ n.type # "grant"
    <3>1. CASE ServerSync
      <4>1. \A t \in {"sync", "followUp"} :
              Msg(t, "none", nsync % SeqMod, now + ClockOffset).type = t
        BY Zenon DEF Msg
      <4>2. QED
        BY <3>1, <4>1, Zenon DEF ServerSync
    <3>2. ASSUME NEW t \in {"announce", "cancel", "other", "bad"}, ServerSends(t)
          PROVE  \A n \in toClient' : n \in toClient \/ n.type # "grant"
      <4>1. Msg(t, "announce", 0, Zero).type = t
        BY MsgFields
      <4>2. QED
        BY <3>2, <4>1, Zenon DEF ServerSends
    <3>3. ASSUME NEW m \in toServer, ServerDelayResp(m)
          PROVE  \A n \in toClient' : n \in toClient \/ n.type # "grant"
      <4>1. Msg("delayResp", "none", m.seq, now + ClockOffset).type = "delayResp"
        BY Zenon DEF Msg
      <4>2. QED
        BY <3>3, <4>1, Zenon DEF ServerDelayResp
    <3>4. QED
      BY <1>6, <3>1, <3>2, <3>3, Zenon
  <2>2. UNCHANGED <<inChan, asked, holds, granted>>
    BY <1>6, Zenon DEF ServerSync, ServerSends, ServerDelayResp, serverFrame
  <2>3. toServer' \subseteq toServer
    BY <1>6, Zenon DEF ServerSync, ServerSends, ServerDelayResp
  <2>4. \A n \in Incoming' : n \in Incoming \/ n.type # "grant"
    BY <2>1, <2>2, Zenon DEF Incoming, Elems
  <2>5. QED
    BY <2>2, <2>3, <2>4, HandshakeOthers, Zenon
<1>7. CASE UNCHANGED vars
  <2>1. UNCHANGED <<inChan, asked, holds, granted, toClient, toServer>>
    BY <1>7, Zenon DEF vars, netVars, histVars
  <2>2. Incoming' \subseteq Incoming /\ toServer' \subseteq toServer
    BY <2>1, Zenon DEF Incoming, Elems
  <2>3. QED
    BY <2>1, <2>2, HandshakeFrame, Zenon
<1>8. QED
  BY <1>1, <1>2, <1>3, <1>4, <1>5, <1>6, <1>7, Zenon DEF Next, ClientStep, ServerStep

\* Run returns nil only in state done, which only handleCancelUnicast sets.
LEMMA CancelledStep ==
  ASSUME TypeOK, DoneMeansCancelled, NilMeansCancelled, [Next]_vars
  PROVE  DoneMeansCancelled' /\ NilMeansCancelled'
<1> USE DEF DoneMeansCancelled, NilMeansCancelled, clientVars
<1>1. CASE Receive
  <2>1. ASSUME NEW m, handleMsg(m)
        PROVE  /\ state' = "done" => state = "done" \/ cancelled'
               /\ outcome' # "nil" \/ outcome' = outcome
               /\ cancelled => cancelled'
    BY <2>1, Zenon DEF handleMsg, handleGrantUnicast, handleCancelUnicast, handleAnnounce, handleSync,
       handleFollowUp, handleDelay, handleOther, SendFails
  <2>2. handleMsg(Head(inChan))
    BY <1>1, Zenon DEF Receive
  <2>3. QED
    BY <2>1, <2>2, Zenon
<1>2. CASE AskForAnnounce
  <2>1. UNCHANGED <<state, cancelled>> /\ (outcome' = outcome \/ outcome' = "error")
    BY <1>2, Zenon DEF AskForAnnounce, SendFails
  <2>2. QED
    BY <2>1, Zenon
<1>3. CASE Finish
  BY <1>3, Zenon DEF Finish, Default
<1>4. CASE CtxDone \/ SetupFails \/ ReadFails \/ Tick
  <2>1. UNCHANGED <<state, cancelled>> /\ outcome' \in {outcome, "error", "deadline"}
    BY <1>4, Zenon DEF CtxDone, SetupFails, ReadFails, Tick
  <2>2. QED
    BY <2>1, Zenon
<1>5. CASE ServerStep \/ (\E m \in toClient, again \in BOOLEAN : Deliver(m, again)) \/ UNCHANGED vars
  <2>1. UNCHANGED <<state, outcome, cancelled>>
    BY <1>5, Zenon DEF ServerStep, ServerGrant, ServerSends, ServerSync, ServerDelayResp,
       serverFrame, Deliver, vars, histVars
  <2>2. QED
    BY <2>1, Zenon
<1>6. QED
  BY <1>1, <1>2, <1>3, <1>4, <1>5, Zenon DEF Next, ClientStep

\* The invariant of the handshake holds throughout.
THEOREM HandshakeInvariance == Spec => []HInv
<1>1. Init => HInv
  <2> SUFFICES ASSUME Init
               PROVE  HInv
    BY Zenon
  <2>1. Incoming = {}
    BY DEF Init, Incoming, Elems
  <2>2. QED
    BY <2>1, InitType, Zenon DEF Init, HInv, Requested, Granted, HandshakeInOrder, NextRequest,
       DoneMeansCancelled, NilMeansCancelled
<1>2. HInv /\ [Next]_vars => HInv'
  BY TypeStep, HandshakeStep, CancelledStep, Zenon DEF HInv, Handshake
<1>3. QED
  BY <1>1, <1>2, PTL DEF Spec

\* Every variable keeps its type; in particular inChan never holds more than
\* its capacity.
THEOREM TypeCorrect == Spec => []TypeOK
  BY HandshakeInvariance, PTL DEF HInv

\* Whatever is lost, duplicated or reordered, the client asks for Sync and
\* Delay_Resp messages only once it holds the grant before, and holds only
\* what the server has granted.
THEOREM HandshakeOrdered == Spec => []HandshakeInOrder
  BY HandshakeInvariance, PTL DEF HInv

\* Run returns nil only after a cancellation.
THEOREM NilOnlyCancelled == Spec => []NilMeansCancelled
  BY HandshakeInvariance, PTL DEF HInv



-----------------------------------------------------------------------------
(* The samples: the inductive invariant.  It holds as long as sequence     *)
(* numbers are not used again, which 16 bits allow for the length of a run.*)
-----------------------------------------------------------------------------
NoReuse == MaxSyncs <= SeqMod /\ MaxSends < SeqMod

Syncs == {m \in Incoming : m.type \in {"sync", "followUp"}}

(* Sync and FollowUp of one number carry one time, and so does the sample  *)
(* stored under that number.                                               *)
SyncNumbers ==
  /\ \A m \in Syncs : m.seq < nsync /\ m.ts # Zero /\ m.ts <= now + ClockOffset
  /\ \A m, n \in Syncs : m.seq = n.seq => m.ts = n.ts
  /\ \A s \in Seqs : s >= nsync => serverToClient[s] = NoData
  /\ \A m \in Syncs : serverToClient[m.seq].send \in {Zero, m.ts}

(* A time of receipt, stored or still in inChan, is one of that message.   *)
SyncReceipts ==
  /\ \A m \in Syncs : serverToClient[m.seq].recv # Zero =>
       [send |-> m.ts, recv |-> serverToClient[m.seq].recv] \in syncTimes
  /\ \A m \in Elems(inChan) : m.type = "sync" => [send |-> m.ts, recv |-> m.rx] \in syncTimes
  /\ \A s \in Complete(serverToClient) : serverToClient[s] \in syncTimes
  /\ \A x \in syncTimes : x.send <= x.recv + ClockOffset

(* Messages are handled in the order of their receipt.                     *)
InOrder ==
  /\ Ordered(inChan)
  /\ \A m \in Elems(inChan) : m.rx <= now /\ m.rx # Zero
  /\ \A s \in Seqs, m \in Elems(inChan) : serverToClient[s].recv <= m.rx
  /\ \A s \in Seqs : serverToClient[s].recv <= now

SyncInv == SyncNumbers /\ SyncReceipts /\ InOrder

-----------------------------------------------------------------------------
(* Samples of Sync messages                                                *)
-----------------------------------------------------------------------------
\* The types of what the steps below compare.
LEMMA StampTypes ==
  ASSUME TypeOK
  PROVE  /\ now \in Nat /\ now # Zero /\ nsync \in Nat /\ ClockOffset \in Nat
         /\ \A s \in Seqs : /\ serverToClient[s] \in Stamps /\ clientToServer[s] \in Stamps
                            /\ serverToClient[s].recv \in Nat /\ serverToClient[s].send \in Nat
                            /\ clientToServer[s].recv \in Nat /\ clientToServer[s].send \in Nat
         /\ \A m \in Msgs : m.seq \in Seqs /\ m.ts \in Nat /\ m.rx \in Nat
         /\ Incoming \subseteq Msgs /\ Elems(inChan) \subseteq Msgs
         /\ \A x \in Stamps : x.send \in Nat /\ x.recv \in Nat
<1>1. \A t \in Times \cup {Zero} : t \in Nat
  BY Numbers, Zenon
<1>2. now \in Nat /\ now # Zero /\ nsync \in Nat /\ ClockOffset \in Nat
  BY ClientAssumption DEF TypeOK, Zero
<1>3. \A x \in Stamps : x.send \in Nat /\ x.recv \in Nat
  BY <1>1, Zenon DEF Stamps
<1>4. \A s \in Seqs : serverToClient[s] \in Stamps /\ clientToServer[s] \in Stamps
  BY Zenon DEF TypeOK
<1>5. \A m \in Msgs : m.seq \in Seqs /\ m.ts \in Nat /\ m.rx \in Nat
  BY <1>1, Zenon DEF Msgs
<1>6. Elems(inChan) \subseteq Msgs
  <2>1. inChan \in Seq(Msgs)
    BY Zenon DEF TypeOK
  <2>2. \A k \in 1 .. Len(inChan) : inChan[k] \in Msgs
    BY <2>1
  <2>3. QED
    BY <2>2, Zenon DEF Elems
<1>7. Incoming \subseteq Msgs
  BY <1>6, Zenon DEF Incoming, TypeOK
<1>8. QED
  BY <1>2, <1>3, <1>4, <1>5, <1>6, <1>7, Zenon

\* A step that stores and sends no Sync and no FollowUp keeps the samples.
LEMMA SyncFrame ==
  ASSUME TypeOK, TypeOK', SyncInv, UNCHANGED <<serverToClient, nsync, syncTimes>>, now' >= now,
         Syncs' \subseteq Syncs, Elems(inChan)' \subseteq Elems(inChan), Ordered(inChan)'
  PROVE  SyncInv'
<1>1. now \in Nat /\ now' \in Nat /\ ClockOffset \in Nat
  BY ClientAssumption DEF TypeOK
<1>2. \A m \in Msgs : m.ts \in Nat /\ m.rx \in Nat
  BY StampTypes, Zenon
<1>3. Syncs \subseteq Msgs /\ Elems(inChan) \subseteq Msgs
  BY StampTypes, Zenon DEF Syncs
<1>4. \A s \in Seqs : serverToClient[s].recv \in Nat
  BY StampTypes, Zenon
<1>5. \A m \in Syncs' : m.ts <= now' + ClockOffset
  BY <1>1, <1>2, <1>3 DEF SyncInv, SyncNumbers
<1>6. SyncNumbers'
  BY <1>5, Zenon DEF SyncInv, SyncNumbers
<1>7. SyncReceipts'
  BY Zenon DEF SyncInv, SyncReceipts, Complete
<1>8. InOrder'
  BY <1>1, <1>2, <1>3, <1>4 DEF SyncInv, InOrder
<1>9. QED
  BY <1>6, <1>7, <1>8, Zenon DEF SyncInv

\* handleSync: the time of receipt is stored with the time of sending that a
\* FollowUp has brought or will bring.
LEMMA SyncHandled ==
  ASSUME TypeOK, TypeOK', SyncInv, Receive, handleSync(Head(inChan))
  PROVE  SyncInv'
<1> DEFINE m == Head(inChan)
<1>1. /\ m \in Msgs /\ m \in Elems(inChan) /\ Elems(inChan)' \subseteq Elems(inChan)
      /\ Ordered(inChan)' /\ \A n \in Elems(inChan) : m.rx <= n.rx
  <2>1. inChan # <<>> /\ inChan' = Tail(inChan) /\ inChan \in Seq(Msgs)
    BY Zenon DEF Receive, TypeOK
  <2>2. Ordered(inChan)
    BY Zenon DEF SyncInv, InOrder
  <2>3. QED
    BY <2>1, <2>2, TailElems, Zenon
<1>2. m \in Syncs /\ Syncs' \subseteq Syncs
  BY <1>1, ReceiveIncoming, Zenon DEF Syncs, Incoming, handleSync
<1>3. UNCHANGED <<nsync, syncTimes, now>>
  BY Zenon DEF Receive, srvVars
<1>4. m.type = "sync" /\ serverToClient' = [serverToClient EXCEPT ![m.seq].recv = m.rx]
  BY Zenon DEF handleSync, addSync
<1> HIDE DEF m
<1>5. m.seq \in Seqs /\ m.rx \in Nat /\ m.rx # Zero /\ m.rx <= now
  BY <1>1, StampTypes, Zenon DEF SyncInv, InOrder
<1>6. /\ serverToClient'[m.seq].recv = m.rx
      /\ serverToClient'[m.seq].send = serverToClient[m.seq].send
      /\ \A s \in Seqs : s # m.seq => serverToClient'[s] = serverToClient[s]
  <2>1. serverToClient[m.seq] \in [send : Times \cup {Zero}, recv : Times \cup {Zero}]
    BY <1>5, Zenon DEF TypeOK, Stamps
  <2>2. DOMAIN serverToClient = Seqs
    BY Zenon DEF TypeOK
  <2>3. QED
    BY <1>4, <1>5, <2>1, <2>2, Zenon
<1>7. \A n \in Syncs : n.seq \in Seqs
  BY StampTypes, Zenon DEF Syncs
<1>8. SyncNumbers'
  <2>1. \A s \in Seqs : s >= nsync => s # m.seq
    <3>1. m.seq < nsync /\ m.seq \in Nat /\ nsync \in Nat
      <4>1. m.seq < nsync
        BY <1>2, Zenon DEF SyncInv, SyncNumbers
      <4>2. QED
        BY <1>5, <4>1, Numbers, StampTypes, Zenon
    <3>2. QED
      BY <3>1, Numbers
  <2>2. \A n \in Syncs : serverToClient'[n.seq].send = serverToClient[n.seq].send
    BY <1>6, <1>7, Zenon
  <2>3. QED
    BY <1>2, <1>3, <1>6, <2>1, <2>2, Zenon DEF SyncInv, SyncNumbers
<1>9. SyncReceipts'
  <2>1. [send |-> m.ts, recv |-> m.rx] \in syncTimes
    BY <1>1, <1>4, Zenon DEF SyncInv, SyncReceipts
  <2>2. \A n \in Syncs : n.seq = m.seq => n.ts = m.ts
    BY <1>2, Zenon DEF SyncInv, SyncNumbers
  <2>3. \A n \in Syncs : serverToClient'[n.seq].recv # Zero =>
          [send |-> n.ts, recv |-> serverToClient'[n.seq].recv] \in syncTimes
    BY <1>6, <1>7, <2>1, <2>2, Zenon DEF SyncInv, SyncReceipts
  <2>4. \A s \in Complete(serverToClient') : serverToClient'[s] \in syncTimes
    <3> SUFFICES ASSUME NEW s \in Complete(serverToClient')
                 PROVE  serverToClient'[s] \in syncTimes
      BY Zenon
    <3>1. s \in Seqs /\ serverToClient'[s].send # Zero /\ serverToClient'[s].recv # Zero
          /\ serverToClient'[s] \in Stamps
      BY Zenon DEF Complete, TypeOK
    <3>2. CASE s # m.seq
      BY <1>6, <3>1, <3>2, Zenon DEF SyncInv, SyncReceipts, Complete, TypeOK
    <3>3. CASE s = m.seq
      <4>1. serverToClient'[s].send = m.ts
        BY <1>2, <1>6, <3>1, <3>3, Zenon DEF SyncInv, SyncNumbers
      <4>2. serverToClient'[s] = [send |-> m.ts, recv |-> m.rx]
        BY <1>6, <3>1, <3>3, <4>1, Zenon DEF Stamps
      <4>3. QED
        BY <2>1, <4>2, Zenon
    <3>4. QED
      BY <3>2, <3>3, Zenon
  <2>5. QED
    BY <1>1, <1>2, <1>3, <2>3, <2>4, Zenon DEF SyncInv, SyncReceipts
<1>10. InOrder'
  BY <1>1, <1>3, <1>5, <1>6, Zenon DEF SyncInv, InOrder
<1>11. QED
  BY <1>8, <1>9, <1>10, Zenon DEF SyncInv

\* addFollowUp: the time of sending is stored.
LEMMA FollowUpHandled ==
  ASSUME TypeOK, TypeOK', SyncInv, Receive, handleFollowUp(Head(inChan))
  PROVE  SyncInv'
<1> DEFINE m == Head(inChan)
<1>1. /\ m \in Msgs /\ m \in Elems(inChan) /\ Elems(inChan)' \subseteq Elems(inChan)
      /\ Ordered(inChan)'
  <2>1. inChan # <<>> /\ inChan' = Tail(inChan) /\ inChan \in Seq(Msgs)
    BY Zenon DEF Receive, TypeOK
  <2>2. Ordered(inChan)
    BY Zenon DEF SyncInv, InOrder
  <2>3. QED
    BY <2>1, <2>2, TailElems, Zenon
<1>2. m \in Syncs /\ Syncs' \subseteq Syncs
  BY <1>1, ReceiveIncoming, Zenon DEF Syncs, Incoming, handleFollowUp
<1>3. UNCHANGED <<nsync, syncTimes, now>>
  BY Zenon DEF Receive, srvVars
<1>4. serverToClient' = [serverToClient EXCEPT ![m.seq].send = m.ts]
  BY Zenon DEF handleFollowUp, addFollowUp
<1> HIDE DEF m
<1>5. m.seq \in Seqs /\ m.ts \in Nat /\ m.ts # Zero
  BY <1>1, <1>2, StampTypes, Zenon DEF SyncInv, SyncNumbers
<1>6. /\ serverToClient'[m.seq].send = m.ts
      /\ serverToClient'[m.seq].recv = serverToClient[m.seq].recv
      /\ \A s \in Seqs : s # m.seq => serverToClient'[s] = serverToClient[s]
  <2>1. serverToClient[m.seq] \in [send : Times \cup {Zero}, recv : Times \cup {Zero}]
    BY <1>5, Zenon DEF TypeOK, Stamps
  <2>2. DOMAIN serverToClient = Seqs
    BY Zenon DEF TypeOK
  <2>3. QED
    BY <1>4, <1>5, <2>1, <2>2, Zenon
<1>7. \A n \in Syncs : n.seq \in Seqs
  BY StampTypes, Zenon DEF Syncs
<1>8. \A s \in Seqs : serverToClient'[s].recv = serverToClient[s].recv
  BY <1>6, Zenon
<1>9. SyncNumbers'
  <2>1. \A s \in Seqs : s >= nsync => s # m.seq
    <3>1. m.seq < nsync /\ m.seq \in Nat /\ nsync \in Nat
      <4>1. m.seq < nsync
        BY <1>2, Zenon DEF SyncInv, SyncNumbers
      <4>2. QED
        BY <1>5, <4>1, Numbers, StampTypes, Zenon
    <3>2. QED
      BY <3>1, Numbers
  <2>2. \A n \in Syncs : n.seq = m.seq => n.ts = m.ts
    BY <1>2, Zenon DEF SyncInv, SyncNumbers
  <2>3. \A n \in Syncs : serverToClient'[n.seq].send \in {Zero, n.ts}
    BY <1>6, <1>7, <2>2, Zenon DEF SyncInv, SyncNumbers
  <2>4. QED
    BY <1>2, <1>3, <1>6, <2>1, <2>3, Zenon DEF SyncInv, SyncNumbers
<1>10. SyncReceipts'
  <2>1. \A s \in Complete(serverToClient') : serverToClient'[s] \in syncTimes
    <3> SUFFICES ASSUME NEW s \in Complete(serverToClient')
                 PROVE  serverToClient'[s] \in syncTimes
      BY Zenon
    <3>1. s \in Seqs /\ serverToClient'[s].send # Zero /\ serverToClient'[s].recv # Zero
          /\ serverToClient'[s] \in Stamps
      BY Zenon DEF Complete, TypeOK
    <3>2. CASE s # m.seq
      BY <1>6, <3>1, <3>2, Zenon DEF SyncInv, SyncReceipts, Complete, TypeOK
    <3>3. CASE s = m.seq
      <4>1. serverToClient'[s] = [send |-> m.ts, recv |-> serverToClient[m.seq].recv]
        BY <1>6, <3>1, <3>3, Zenon DEF Stamps
      <4>2. QED
        BY <1>2, <1>6, <3>1, <3>3, <4>1, Zenon DEF SyncInv, SyncReceipts
    <3>4. QED
      BY <3>2, <3>3, Zenon
  <2>2. QED
    BY <1>1, <1>2, <1>3, <1>7, <1>8, <2>1, Zenon DEF SyncInv, SyncReceipts
<1>11. InOrder'
  BY <1>1, <1>3, <1>8, Zenon DEF SyncInv, InOrder
<1>12. QED
  BY <1>9, <1>10, <1>11, Zenon DEF SyncInv

\* A reader goroutine notes the time of receipt.
LEMMA SyncDelivered ==
  ASSUME TypeOK, TypeOK', SyncInv, NEW m \in toClient, NEW again \in BOOLEAN, Deliver(m, again)
  PROVE  SyncInv'
<1> DEFINE n == [m EXCEPT !.rx = now]
<1>1. /\ n \in Msgs /\ n.type = m.type /\ n.seq = m.seq /\ n.ts = m.ts /\ n.rx = now
      /\ Elems(inChan)' = Elems(inChan) \cup {n} /\ Incoming' \subseteq Incoming \cup {n}
  BY DeliverIncoming, Zenon
<1>2. UNCHANGED <<serverToClient, nsync, now>>
  BY Zenon DEF Deliver, clientVars, mVars, srvVars
<1>3. syncTimes' = IF m.type = "sync"
                     THEN syncTimes \cup {[send |-> m.ts, recv |-> now]} ELSE syncTimes
  BY Zenon DEF Deliver
<1>4. Ordered(inChan')
  <2>1. inChan' = Append(inChan, n) /\ inChan \in Seq(Msgs)
    BY Zenon DEF Deliver, TypeOK
  <2>2. Ordered(inChan) /\ \A l \in Elems(inChan) : l.rx <= n.rx
    BY <1>1, Zenon DEF SyncInv, InOrder
  <2>3. QED
    BY <1>1, <2>1, <2>2, AppendElems, Zenon
<1> HIDE DEF n
<1>5. m \in Incoming /\ m \in Msgs
  BY Zenon DEF Incoming, TypeOK
<1>6. \A l \in Syncs' : \/ l \in Syncs
                        \/ l = n /\ m \in Syncs
  BY <1>1, <1>5, Zenon DEF Syncs
<1>7. SyncNumbers'
  <2>1. \A l \in Syncs' : \E k \in Syncs : l.seq = k.seq /\ l.ts = k.ts
    BY <1>1, <1>6, Zenon
  <2>2. \A k, l \in Syncs : k.seq = l.seq => k.ts = l.ts
    BY Zenon DEF SyncInv, SyncNumbers
  <2>3. \A k, l \in Syncs' : k.seq = l.seq => k.ts = l.ts
    BY <2>1, <2>2
  <2>4. \A l \in Syncs' : /\ l.seq < nsync /\ l.ts # Zero /\ l.ts <= now + ClockOffset
                          /\ serverToClient[l.seq].send \in {Zero, l.ts}
    BY <2>1 DEF SyncInv, SyncNumbers
  <2>5. QED
    BY <1>2, <2>3, <2>4, Zenon DEF SyncInv, SyncNumbers
<1>8. SyncReceipts'
  <2>1. \A l \in Syncs' : \E k \in Syncs : l.seq = k.seq /\ l.ts = k.ts
    BY <1>1, <1>6, Zenon
  <2>2. syncTimes \subseteq syncTimes'
    BY <1>3, Zenon
  <2>3. \A l \in Syncs' : serverToClient[l.seq].recv # Zero =>
          [send |-> l.ts, recv |-> serverToClient[l.seq].recv] \in syncTimes'
    BY <2>1, <2>2, Zenon DEF SyncInv, SyncReceipts
  <2>4. \A l \in Elems(inChan)' : l.type = "sync" => [send |-> l.ts, recv |-> l.rx] \in syncTimes'
    BY <1>1, <1>3, <2>2, Zenon DEF SyncInv, SyncReceipts
  <2>5. \A x \in syncTimes' : x.send <= x.recv + ClockOffset
    <3>1. m.type = "sync" => m.ts <= now + ClockOffset
      BY <1>5, Zenon DEF Syncs, SyncInv, SyncNumbers
    <3>2. QED
      BY <1>3, <3>1 DEF SyncInv, SyncReceipts
  <2>6. QED
    BY <1>2, <2>2, <2>3, <2>4, <2>5, Zenon DEF SyncInv, SyncReceipts, Complete
<1>9. InOrder'
  BY <1>1, <1>2, <1>4, StampTypes DEF SyncInv, InOrder
<1>10. QED
  BY <1>7, <1>8, <1>9, Zenon DEF SyncInv

\* A new Sync has a number that nothing has been stored under.
LEMMA SyncSent ==
  ASSUME NoReuse, TypeOK, TypeOK', SyncInv, ServerSync
  PROVE  SyncInv'
<1> DEFINE Sent(t) == Msg(t, "none", nsync % SeqMod, now + ClockOffset)
<1>1. /\ nsync < MaxSyncs /\ nsync' = nsync + 1
      /\ toClient' = toClient \cup {Sent(t) : t \in {"sync", "followUp"}}
      /\ UNCHANGED <<inChan, now, serverToClient, syncTimes>>
  BY Zenon DEF ServerSync, serverFrame, mVars
<1>2. nsync \in Nat /\ nsync % SeqMod = nsync /\ nsync \in Seqs
  <2>1. nsync \in Nat /\ MaxSyncs \in Nat /\ SeqMod \in Nat \ {0} /\ MaxSyncs <= SeqMod
    BY StampTypes, ClientAssumption, Zenon DEF NoReuse
  <2>2. nsync < SeqMod
    <3>1. nsync < MaxSyncs
      BY <1>1, Zenon
    <3>2. QED
      BY <2>1, <3>1
  <2>3. QED
    BY <2>1, <2>2, ModSmall DEF Seqs
<1>3. now + ClockOffset \in Times /\ now + ClockOffset # Zero /\ now \in Nat /\ ClockOffset \in Nat
  BY Numbers, ClientAssumption, Zenon DEF TypeOK
<1>4. \A t \in {"sync", "followUp"} : Sent(t).seq = nsync /\ Sent(t).ts = now + ClockOffset
  BY <1>2, Zenon DEF Msg
<1>5. Elems(inChan)' = Elems(inChan)
  BY <1>1, Zenon DEF Elems
<1>6. Incoming' = Incoming \cup {Sent(t) : t \in {"sync", "followUp"}}
  BY <1>1, <1>5, Zenon DEF Incoming
<1>7. \A l \in Syncs' : l \in Syncs \/ (l.seq = nsync /\ l.ts = now + ClockOffset)
  BY <1>4, <1>6, Zenon DEF Syncs
<1> HIDE DEF Sent
<1>8. serverToClient[nsync] = NoData
  BY <1>2 DEF SyncInv, SyncNumbers
<1>9. \A l \in Syncs : l.seq \in Nat /\ l.seq < nsync
  BY StampTypes, Numbers, Zenon DEF Syncs, SyncInv, SyncNumbers
<1>10. SyncNumbers'
  <2>1. \A l \in Syncs' : l.seq < nsync + 1 /\ l.ts # Zero /\ l.ts <= now + ClockOffset
    BY <1>2, <1>3, <1>7, <1>9 DEF SyncInv, SyncNumbers
  <2>2. \A k, l \in Syncs' : k.seq = l.seq => k.ts = l.ts
    BY <1>2, <1>7, <1>9 DEF SyncInv, SyncNumbers
  <2>3. \A s \in Seqs : s >= nsync + 1 => s >= nsync
    BY <1>2, Numbers
  <2>4. \A l \in Syncs' : serverToClient[l.seq].send \in {Zero, l.ts}
    BY <1>7, <1>8 DEF SyncInv, SyncNumbers, NoData
  <2>5. QED
    BY <1>1, <2>1, <2>2, <2>3, <2>4, Zenon DEF SyncInv, SyncNumbers
<1>11. SyncReceipts'
  <2>1. \A l \in Syncs' : serverToClient[l.seq].recv # Zero =>
          [send |-> l.ts, recv |-> serverToClient[l.seq].recv] \in syncTimes
    BY <1>7, <1>8 DEF SyncInv, SyncReceipts, NoData
  <2>2. QED
    BY <1>1, <1>5, <2>1, Zenon DEF SyncInv, SyncReceipts, Complete
<1>12. InOrder'
  BY <1>1, <1>5, Zenon DEF SyncInv, InOrder, Ordered
<1>13. QED
  BY <1>10, <1>11, <1>12, Zenon DEF SyncInv

\* The part of the invariant that concerns Sync messages is inductive.
LEMMA SyncStep ==
  ASSUME NoReuse, TypeOK, TypeOK', SyncInv, [Next]_vars
  PROVE  SyncInv'
<1> USE DEF seqVars, mVars, srvVars
<1>1. CASE Receive
  <2> DEFINE m == Head(inChan)
  <2>1. CASE handleSync(m)
    BY <1>1, <2>1, SyncHandled, Zenon
  <2>2. CASE handleFollowUp(m)
    BY <1>1, <2>2, FollowUpHandled, Zenon
  <2>3. CASE ~handleSync(m) /\ ~handleFollowUp(m)
    <3>1. handleMsg(m) /\ Incoming' \subseteq Incoming
      BY <1>1, ReceiveIncoming, Zenon
    <3>2. serverToClient' = serverToClient
      BY <2>3, <3>1, Zenon DEF handleMsg, handleGrantUnicast, handleCancelUnicast, handleAnnounce,
         handleDelay, handleOther, clientVars
    <3>3. UNCHANGED <<nsync, syncTimes, now>>
      BY <1>1, Zenon DEF Receive
    <3>4. Elems(inChan)' \subseteq Elems(inChan) /\ Ordered(inChan)'
      <4>1. inChan # <<>> /\ inChan' = Tail(inChan) /\ inChan \in Seq(Msgs)
        BY <1>1, Zenon DEF Receive, TypeOK
      <4>2. QED
        BY <4>1, TailElems, Zenon DEF SyncInv, InOrder
    <3>5. now' >= now /\ Syncs' \subseteq Syncs
      BY <3>1, <3>3, StampTypes DEF Syncs
    <3>6. QED
      BY <3>2, <3>3, <3>4, <3>5, SyncFrame, Zenon
  <2>4. QED
    BY <2>1, <2>2, <2>3, Zenon
<1>2. CASE AskForAnnounce \/ Finish \/ CtxDone \/ SetupFails \/ ReadFails \/ Tick
           \/ (\E m \in toServer, d \in {0, 1} : ServerGrant(m, d))
           \/ (\E t \in {"announce", "cancel", "other", "bad"} : ServerSends(t))
           \/ (\E m \in toServer : ServerDelayResp(m)) \/ UNCHANGED vars
  <2>1. UNCHANGED <<inChan, serverToClient, nsync, syncTimes>>
    BY <1>2, Zenon DEF AskForAnnounce, Finish, CtxDone, SetupFails, ReadFails, Tick, ServerGrant,
       ServerSends, ServerDelayResp, serverFrame, clientVars, vars, netVars, histVars
  <2>2. now' = now \/ now' = now + 1
    BY <1>2, Zenon DEF AskForAnnounce, Finish, CtxDone, SetupFails, ReadFails, Tick, ServerGrant,
       ServerSends, ServerDelayResp, serverFrame, vars
  <2>3. \A n \in toClient' : n \in toClient \/ n.type \notin {"sync", "followUp"}
    <3>1. ASSUME NEW m, NEW d, ServerGrant(m, d)
          PROVE  \A n \in toClient' : n \in toClient \/ n.type \notin {"sync", "followUp"}
      BY <3>1 DEF ServerGrant, Msg
    <3>2. ASSUME NEW t \in {"announce", "cancel", "other", "bad"}, ServerSends(t)
          PROVE  \A n \in toClient' : n \in toClient \/ n.type \notin {"sync", "followUp"}
      BY <3>2 DEF ServerSends, Msg
    <3>3. ASSUME NEW m, ServerDelayResp(m)
          PROVE  \A n \in toClient' : n \in toClient \/ n.type \notin {"sync", "followUp"}
      <4>1. Msg("delayResp", "none", m.seq, now + ClockOffset).type = "delayResp"
        BY Zenon DEF Msg
      <4>2. toClient' = toClient \cup {Msg("delayResp", "none", m.seq, now + ClockOffset)}
        BY <3>3, Zenon DEF ServerDelayResp
      <4>3. QED
        BY <4>1, <4>2, Zenon
    <3>4. CASE AskForAnnounce \/ Finish \/ CtxDone \/ SetupFails \/ ReadFails \/ Tick \/ UNCHANGED vars
      <4>1. toClient' = toClient
        BY <3>4, Zenon DEF AskForAnnounce, Finish, CtxDone, SetupFails, ReadFails, Tick, vars,
           netVars
      <4>2. QED
        BY <4>1, Zenon
    <3>5. QED
      BY <1>2, <3>1, <3>2, <3>3, <3>4, Zenon
  <2>4. Elems(inChan)' = Elems(inChan) /\ Ordered(inChan)'
    BY <2>1, Zenon DEF Elems, Ordered, SyncInv, InOrder
  <2>5. Syncs' \subseteq Syncs
    BY <2>3, <2>4, Zenon DEF Syncs, Incoming
  <2>6. now' >= now
    BY <2>2, StampTypes
  <2>7. QED
    BY <2>1, <2>4, <2>5, <2>6, SyncFrame, Zenon
<1>3. ASSUME NEW m \in toClient, NEW again \in BOOLEAN, Deliver(m, again)
      PROVE  SyncInv'
  BY <1>3, SyncDelivered, Zenon
<1>4. CASE ServerSync
  BY <1>4, SyncSent, Zenon
<1>5. QED
  BY <1>1, <1>2, <1>3, <1>4, Zenon DEF Next, ClientStep, ServerStep

-----------------------------------------------------------------------------
(* Samples of Delay_Req messages                                           *)
-----------------------------------------------------------------------------
DelayReqs == {m \in toServer : m.type = "delayReq"}
DelayResps == {m \in Incoming : m.type = "delayResp"}

(* A Delay_Req on its way has its time of sending stored, and no answer.   *)
Unanswered ==
  /\ \A m \in DelayReqs : /\ m.seq < eventSequence /\ m.ts # Zero /\ m.ts <= now
                          /\ clientToServer[m.seq] = [send |-> m.ts, recv |-> Zero]
  /\ \A m, n \in DelayReqs : m.seq = n.seq => m = n
  /\ \A m \in DelayReqs, n \in DelayResps : m.seq # n.seq
  /\ \A s \in Seqs : s >= eventSequence => clientToServer[s] = NoData
  /\ eventSequence <= sends

(* An answer belongs to the Delay_Req whose time of sending is stored.     *)
Answered ==
  /\ \A m \in DelayResps :
       /\ m.seq < eventSequence /\ m.ts # Zero
       /\ clientToServer[m.seq].send # Zero
       /\ clientToServer[m.seq].recv \in {Zero, m.ts}
       /\ [send |-> clientToServer[m.seq].send, recv |-> m.ts] \in delayTimes
  /\ \A m, n \in DelayResps : m.seq = n.seq => m.ts = n.ts
  /\ \A s \in Complete(clientToServer) : clientToServer[s] \in delayTimes
  /\ \A y \in delayTimes : y.send + ClockOffset <= y.recv

DelayInv == Unanswered /\ Answered

\* A step that stores no time stamp and sends neither Delay_Req nor Delay_Resp
\* keeps the samples.
LEMMA DelayFrame ==
  ASSUME TypeOK, TypeOK', DelayInv, UNCHANGED <<clientToServer, eventSequence, delayTimes>>,
         sends' >= sends, now' >= now, DelayReqs' \subseteq DelayReqs, DelayResps' \subseteq DelayResps
  PROVE  DelayInv'
<1>1. now \in Nat /\ now' \in Nat /\ sends \in Nat /\ sends' \in Nat
      /\ eventSequence \in Nat
  BY ClientAssumption, Numbers DEF TypeOK
<1>2. \A m \in DelayReqs : m.ts \in Nat
  BY StampTypes, Zenon DEF DelayReqs, TypeOK
<1>3. \A m \in DelayReqs' : m.ts <= now'
  <2>1. \A m \in DelayReqs : m.ts <= now
    BY Zenon DEF DelayInv, Unanswered
  <2>2. QED
    BY <1>1, <1>2, <2>1
<1>4. eventSequence' <= sends'
  BY <1>1 DEF DelayInv, Unanswered
<1>5. Unanswered'
  BY <1>3, <1>4, Zenon DEF DelayInv, Unanswered
<1>6. Answered'
  BY Zenon DEF DelayInv, Answered, Complete
<1>7. QED
  BY <1>5, <1>6, Zenon DEF DelayInv

\* handleFollowUp sends a Delay_Req under a number that was not used yet.
LEMMA DelayReqSent ==
  ASSUME NoReuse, TypeOK, TypeOK', DelayInv, Receive, sends < MaxSends, sends' = sends + 1,
         toServer' = toServer \cup {Msg("delayReq", "none", eventSequence, now)},
         addDelayReq(eventSequence, now), eventSequence' = (eventSequence + 1) % SeqMod
  PROVE  DelayInv'
<1> DEFINE q == Msg("delayReq", "none", eventSequence, now)
<1>1. q.type = "delayReq" /\ q.seq = eventSequence /\ q.ts = now
  BY Zenon DEF Msg
<1>2. DelayReqs' = DelayReqs \cup {q}
  BY <1>1, Zenon DEF DelayReqs
<1> HIDE DEF q
<1>3. UNCHANGED <<now, delayTimes>>
  BY Zenon DEF Receive
<1>4. DelayResps' \subseteq DelayResps
  BY ReceiveIncoming, Zenon DEF DelayResps
<1>5. /\ eventSequence \in Seqs /\ eventSequence \in Nat /\ eventSequence <= sends
      /\ sends \in Nat /\ now \in Nat /\ now # Zero
  BY Numbers, ClientAssumption, StampTypes DEF TypeOK, DelayInv, Unanswered
<1>6. eventSequence' = eventSequence + 1
  <2>1. eventSequence + 1 < SeqMod
    BY <1>5, ClientAssumption DEF NoReuse
  <2>2. QED
    BY <1>5, <2>1, ModSmall, ClientAssumption
<1>7. clientToServer[eventSequence] = NoData
  BY <1>5 DEF DelayInv, Unanswered
<1>8. /\ clientToServer'[eventSequence] = [send |-> now, recv |-> Zero]
      /\ \A s \in Seqs : s # eventSequence => clientToServer'[s] = clientToServer[s]
  BY <1>5, <1>7 DEF addDelayReq, TypeOK, NoData
<1>9. /\ \A m \in DelayReqs : m.seq \in Seqs /\ m.seq # eventSequence /\ m.seq < eventSequence + 1
      /\ \A m \in DelayResps : m.seq \in Seqs /\ m.seq # eventSequence /\ m.seq < eventSequence + 1
  <2>1. /\ \A m \in DelayReqs : m.seq \in Seqs
        /\ \A m \in DelayResps : m.seq \in Seqs
    BY StampTypes, Zenon DEF DelayReqs, DelayResps, TypeOK
  <2>2. /\ \A m \in DelayReqs : m.seq < eventSequence
        /\ \A m \in DelayResps : m.seq < eventSequence
    BY Zenon DEF DelayInv, Unanswered, Answered
  <2>3. \A k \in Seqs : k < eventSequence => k # eventSequence /\ k < eventSequence + 1
    BY <1>5, Numbers
  <2>4. QED
    BY <2>1, <2>2, <2>3, Zenon
<1>10. Unanswered'
  <2>1. \A m \in DelayReqs' : /\ m.seq < eventSequence' /\ m.ts # Zero /\ m.ts <= now'
                              /\ clientToServer'[m.seq] = [send |-> m.ts, recv |-> Zero]
    <3>1. ASSUME NEW m \in DelayReqs
          PROVE  /\ m.seq < eventSequence' /\ m.ts # Zero /\ m.ts <= now'
                 /\ clientToServer'[m.seq] = [send |-> m.ts, recv |-> Zero]
      <4>1. /\ m.ts # Zero /\ m.ts <= now
            /\ clientToServer[m.seq] = [send |-> m.ts, recv |-> Zero]
        BY Zenon DEF DelayInv, Unanswered
      <4>2. QED
        BY <1>3, <1>6, <1>8, <1>9, <4>1, Zenon
    <3>2. /\ q.seq < eventSequence' /\ q.ts # Zero /\ q.ts <= now'
          /\ clientToServer'[q.seq] = [send |-> q.ts, recv |-> Zero]
      BY <1>1, <1>3, <1>5, <1>6, <1>8
    <3>3. QED
      BY <1>2, <3>1, <3>2, Zenon
  <2>2. \A m, n \in DelayReqs' : m.seq = n.seq => m = n
    BY <1>1, <1>2, <1>9, Zenon DEF DelayInv, Unanswered
  <2>3. \A m \in DelayReqs', n \in DelayResps' : m.seq # n.seq
    BY <1>1, <1>2, <1>4, <1>9, Zenon DEF DelayInv, Unanswered
  <2>4. \A s \in Seqs : s >= eventSequence' => clientToServer'[s] = NoData
    <3>1. \A s \in Seqs : s >= eventSequence + 1 => s # eventSequence /\ s >= eventSequence
      BY <1>5, Numbers
    <3>2. QED
      BY <1>6, <1>8, <3>1, Zenon DEF DelayInv, Unanswered
  <2>5. eventSequence' <= sends'
    BY <1>5, <1>6
  <2>6. QED
    BY <2>1, <2>2, <2>3, <2>4, <2>5, Zenon DEF Unanswered
<1>11. Answered'
  <2>1. \A s \in Complete(clientToServer') : s \in Complete(clientToServer)
                                             /\ clientToServer'[s] = clientToServer[s]
    <3>1. DOMAIN clientToServer = Seqs /\ DOMAIN clientToServer' = Seqs
      BY DEF TypeOK
    <3>2. \A s \in Complete(clientToServer') : s # eventSequence
      BY <1>8 DEF Complete
    <3>3. QED
      BY <1>8, <3>1, <3>2, Zenon DEF Complete
  <2>2. QED
    BY <1>3, <1>4, <1>6, <1>8, <1>9, <2>1, Zenon DEF DelayInv, Answered
<1>12. QED
  BY <1>10, <1>11, Zenon DEF DelayInv

\* handleDelay stores the time the server has received the Delay_Req.
LEMMA DelayHandled ==
  ASSUME TypeOK, TypeOK', DelayInv, Receive, handleDelay(Head(inChan))
  PROVE  DelayInv'
<1> DEFINE m == Head(inChan)
<1>1. m \in Msgs /\ m \in Incoming /\ DelayResps' \subseteq DelayResps
  BY ReceiveIncoming, Zenon DEF DelayResps
<1>2. m.type = "delayResp" /\ clientToServer' = [clientToServer EXCEPT ![m.seq].recv = m.ts]
  BY Zenon DEF handleDelay, addDelayResp
<1>3. UNCHANGED <<now, delayTimes, eventSequence, sends, toServer>>
  BY Zenon DEF Receive, handleDelay, seqVars
<1> HIDE DEF m
<1>4. m \in DelayResps /\ DelayReqs' = DelayReqs
  BY <1>1, <1>2, <1>3, Zenon DEF DelayResps, DelayReqs
<1>5. m.seq \in Seqs /\ m.ts \in Nat
  BY <1>1, StampTypes, Zenon
<1>6. /\ clientToServer'[m.seq].recv = m.ts
      /\ clientToServer'[m.seq].send = clientToServer[m.seq].send
      /\ \A s \in Seqs : s # m.seq => clientToServer'[s] = clientToServer[s]
  <2>1. clientToServer[m.seq] \in [send : Times \cup {Zero}, recv : Times \cup {Zero}]
    BY <1>5, Zenon DEF TypeOK, Stamps
  <2>2. DOMAIN clientToServer = Seqs
    BY Zenon DEF TypeOK
  <2>3. QED
    BY <1>2, <1>5, <2>1, <2>2, Zenon
<1>7. /\ \A n \in DelayReqs : n.seq \in Seqs /\ n.seq # m.seq
      /\ \A n \in DelayResps : n.seq \in Seqs
  BY <1>4, StampTypes, Zenon DEF DelayReqs, DelayResps, TypeOK, DelayInv, Unanswered
<1>8. \A n \in DelayResps : n.seq = m.seq => n.ts = m.ts
  BY <1>4, Zenon DEF DelayInv, Answered
<1>9. Unanswered'
  <2>1. \A s \in Seqs : s >= eventSequence => s # m.seq
    <3>1. m.seq < eventSequence
      BY <1>4, Zenon DEF DelayInv, Answered
    <3>2. m.seq \in Nat /\ eventSequence \in Nat /\ Seqs \subseteq Nat
      BY <1>5, Numbers, Zenon DEF TypeOK
    <3>3. QED
      BY <3>1, <3>2
  <2>2. QED
    BY <1>1, <1>3, <1>4, <1>6, <1>7, <2>1, Zenon DEF DelayInv, Unanswered
<1>10. Answered'
  <2>1. [send |-> clientToServer[m.seq].send, recv |-> m.ts] \in delayTimes
    BY <1>4, Zenon DEF DelayInv, Answered
  <2>2. \A s \in Complete(clientToServer') : clientToServer'[s] \in delayTimes
    <3> SUFFICES ASSUME NEW s \in Complete(clientToServer')
                 PROVE  clientToServer'[s] \in delayTimes
      BY Zenon
    <3>1. s \in Seqs /\ clientToServer'[s].send # Zero /\ clientToServer'[s].recv # Zero
          /\ clientToServer'[s] \in Stamps
      BY Zenon DEF Complete, TypeOK
    <3>2. CASE s # m.seq
      BY <1>6, <3>1, <3>2, Zenon DEF DelayInv, Answered, Complete, TypeOK
    <3>3. CASE s = m.seq
      <4>1. clientToServer'[s] = [send |-> clientToServer[m.seq].send, recv |-> m.ts]
        BY <1>6, <3>1, <3>3, Zenon DEF Stamps
      <4>2. QED
        BY <2>1, <4>1, Zenon
    <3>4. QED
      BY <3>2, <3>3, Zenon
  <2>3. \A n \in DelayResps :
          /\ clientToServer'[n.seq].send = clientToServer[n.seq].send
          /\ clientToServer'[n.seq].recv \in {Zero, n.ts}
    BY <1>6, <1>7, <1>8, Zenon DEF DelayInv, Answered
  <2>4. QED
    BY <1>1, <1>3, <2>2, <2>3, Zenon DEF DelayInv, Answered
<1>11. QED
  BY <1>9, <1>10, Zenon DEF DelayInv

\* The server answers a Delay_Req once.
LEMMA DelayRespSent ==
  ASSUME TypeOK, TypeOK', DelayInv, NEW m \in toServer, ServerDelayResp(m)
  PROVE  DelayInv'
<1> DEFINE q == Msg("delayResp", "none", m.seq, now + ClockOffset)
           y == [send |-> m.ts, recv |-> now + ClockOffset]
<1>1. q.type = "delayResp" /\ q.seq = m.seq /\ q.ts = now + ClockOffset
  BY Zenon DEF Msg
<1>2. /\ m \in DelayReqs /\ toServer' = toServer \ {m} /\ toClient' = toClient \cup {q}
      /\ delayTimes' = delayTimes \cup {y}
      /\ UNCHANGED <<now, inChan, eventSequence, sends, clientToServer>>
  BY Zenon DEF DelayReqs, ServerDelayResp, serverFrame, seqVars, mVars
<1> HIDE DEF q
<1>3. DelayReqs' = DelayReqs \ {m}
  BY <1>2, Zenon DEF DelayReqs
<1>4. DelayResps' = DelayResps \cup {q}
  BY <1>1, <1>2, Zenon DEF DelayResps, Incoming, Elems
<1>5. now + ClockOffset \in Nat /\ now + ClockOffset # Zero /\ now \in Nat /\ ClockOffset \in Nat
  BY Numbers, StampTypes, Zenon DEF TypeOK
<1>6. /\ m.seq < eventSequence /\ m.ts # Zero /\ m.ts <= now
      /\ clientToServer[m.seq].send = m.ts /\ clientToServer[m.seq].recv = Zero
  <2>1. /\ m.seq < eventSequence /\ m.ts # Zero /\ m.ts <= now
        /\ clientToServer[m.seq] = [send |-> m.ts, recv |-> Zero]
    BY <1>2, Zenon DEF DelayInv, Unanswered
  <2>2. QED
    BY <2>1
<1>7. /\ \A n \in DelayReqs : n # m => n.seq # m.seq
      /\ \A n \in DelayResps : n.seq # m.seq
  BY <1>2, Zenon DEF DelayInv, Unanswered
<1>8. Unanswered'
  BY <1>1, <1>2, <1>3, <1>4, <1>7, Zenon DEF DelayInv, Unanswered
<1>9. Answered'
  <2>1. y.send + ClockOffset <= y.recv
    <3>1. m.ts \in Nat
      BY StampTypes, Zenon DEF TypeOK
    <3>2. QED
      BY <1>5, <1>6, <3>1
  <2>2. [send |-> clientToServer[q.seq].send, recv |-> q.ts] \in delayTimes'
    BY <1>1, <1>2, <1>6, Zenon
  <2> HIDE DEF y
  <2>3. \A n \in DelayResps' :
          /\ n.seq < eventSequence /\ n.ts # Zero
          /\ clientToServer[n.seq].send # Zero
          /\ clientToServer[n.seq].recv \in {Zero, n.ts}
          /\ [send |-> clientToServer[n.seq].send, recv |-> n.ts] \in delayTimes'
    <3>1. \A n \in DelayResps :
            /\ n.seq < eventSequence /\ n.ts # Zero
            /\ clientToServer[n.seq].send # Zero
            /\ clientToServer[n.seq].recv \in {Zero, n.ts}
            /\ [send |-> clientToServer[n.seq].send, recv |-> n.ts] \in delayTimes'
      BY <1>2, Zenon DEF DelayInv, Answered
    <3>2. QED
      BY <1>1, <1>4, <1>5, <1>6, <2>2, <3>1, Zenon
  <2>4. \A k, n \in DelayResps' : k.seq = n.seq => k.ts = n.ts
    BY <1>1, <1>4, <1>7 DEF DelayInv, Answered
  <2>5. \A x \in delayTimes' : x.send + ClockOffset <= x.recv
    BY <1>2, <2>1, Zenon DEF DelayInv, Answered
  <2>6. \A s \in Complete(clientToServer') : clientToServer'[s] \in delayTimes'
    BY <1>2, Zenon DEF DelayInv, Answered, Complete
  <2>7. QED
    BY <1>2, <2>3, <2>4, <2>5, <2>6, Zenon DEF Answered
<1>10. QED
  BY <1>8, <1>9, Zenon DEF DelayInv

\* A reader goroutine changes nothing of a Delay_Resp but its time of receipt.
LEMMA DelayDelivered ==
  ASSUME TypeOK, TypeOK', DelayInv, NEW m \in toClient, NEW again \in BOOLEAN, Deliver(m, again)
  PROVE  DelayInv'
<1> DEFINE n == [m EXCEPT !.rx = now]
<1>1. n.type = m.type /\ n.seq = m.seq /\ n.ts = m.ts /\ Incoming' \subseteq Incoming \cup {n}
  BY DeliverIncoming, Zenon
<1>2. UNCHANGED <<toServer, eventSequence, sends, clientToServer, now, delayTimes>>
  BY Zenon DEF Deliver, clientVars, seqVars, mVars
<1> HIDE DEF n
<1>3. DelayReqs' = DelayReqs
  BY <1>2, Zenon DEF DelayReqs
<1>4. \A l \in DelayResps' : \E k \in DelayResps : k.seq = l.seq /\ k.ts = l.ts
  <2>1. m \in Incoming
    BY Zenon DEF Incoming
  <2>2. QED
    BY <1>1, <2>1, Zenon DEF DelayResps
<1>5. Unanswered'
  <2>1. \A k \in DelayReqs, l \in DelayResps' : k.seq # l.seq
    BY <1>4 DEF DelayInv, Unanswered
  <2>2. QED
    BY <1>2, <1>3, <2>1, Zenon DEF DelayInv, Unanswered
<1>6. Answered'
  <2>1. \A l \in DelayResps' :
          /\ l.seq < eventSequence /\ l.ts # Zero
          /\ clientToServer[l.seq].send # Zero
          /\ clientToServer[l.seq].recv \in {Zero, l.ts}
          /\ [send |-> clientToServer[l.seq].send, recv |-> l.ts] \in delayTimes
    BY <1>4 DEF DelayInv, Answered
  <2>2. \A k, l \in DelayResps' : k.seq = l.seq => k.ts = l.ts
    BY <1>4 DEF DelayInv, Answered
  <2>3. QED
    BY <1>2, <2>1, <2>2, Zenon DEF DelayInv, Answered, Complete
<1>7. QED
  BY <1>5, <1>6, Zenon DEF DelayInv

\* The part of the invariant that concerns Delay_Req messages is inductive.
LEMMA DelayStep ==
  ASSUME NoReuse, TypeOK, TypeOK', DelayInv, [Next]_vars
  PROVE  DelayInv'
<1> USE DEF seqVars, mVars, srvVars
<1>1. sends \in Nat /\ now \in Nat
  BY ClientAssumption DEF TypeOK
<1>2. CASE Receive
  <2> DEFINE m == Head(inChan)
  <2>1. handleMsg(m) /\ DelayResps' \subseteq DelayResps
    BY <1>2, ReceiveIncoming, Zenon DEF DelayResps
  <2>2. UNCHANGED <<now, delayTimes>>
    BY <1>2, Zenon DEF Receive
  <2>3. now' >= now
    BY <1>1, <2>2
  <2> HIDE DEF m
  <2>4. CASE handleDelay(m)
    BY <1>2, <2>4, DelayHandled, Zenon DEF m
  <2>5. CASE handleFollowUp(m)
    <3>1. CASE UNCHANGED <<sends, toServer, clientToServer, eventSequence>>
      <4>1. DelayReqs' \subseteq DelayReqs /\ sends' >= sends
        BY <1>1, <3>1 DEF DelayReqs
      <4>2. QED
        BY <2>1, <2>2, <2>3, <3>1, <4>1, DelayFrame, Zenon
    <3>2. CASE /\ sends < MaxSends /\ sends' = sends + 1
               /\ toServer' = toServer \cup {Msg("delayReq", "none", eventSequence, now)}
               /\ addDelayReq(eventSequence, now)
               /\ eventSequence' = (eventSequence + 1) % SeqMod
      BY <1>2, <3>2, DelayReqSent, Zenon
    <3>3. QED
      BY <2>5, <3>1, <3>2, Zenon DEF handleFollowUp
  <2>6. CASE ~handleDelay(m) /\ ~handleFollowUp(m)
    <3>1. UNCHANGED <<clientToServer, eventSequence>>
      BY <2>1, <2>6, Zenon DEF handleMsg, handleGrantUnicast, handleCancelUnicast, handleAnnounce,
         handleSync, handleOther, clientVars
    <3>2. /\ sends' = sends \/ sends' = sends + 1
          /\ \A q \in toServer' : q \in toServer \/ q.type # "delayReq"
      <4>1. ASSUME NEW t \in {"request", "ack"}, NEW w, sendGeneralMsg(t, w)
            PROVE  /\ sends' = sends + 1
                   /\ \A q \in toServer' : q \in toServer \/ q.type # "delayReq"
        BY <4>1 DEF sendGeneralMsg, Msg
      <4>2. \/ \E t \in {"request", "ack"} : \E w : sendGeneralMsg(t, w)
            \/ UNCHANGED <<sends, toServer>>
        BY <2>1, <2>6, Zenon DEF handleMsg, handleGrantUnicast, handleCancelUnicast, handleAnnounce,
           handleSync, handleOther, clientVars, reqUnicast
      <4>3. QED
        BY <4>1, <4>2, Zenon
    <3>3. sends' >= sends /\ DelayReqs' \subseteq DelayReqs
      BY <1>1, <3>2 DEF DelayReqs
    <3>4. QED
      BY <2>1, <2>2, <2>3, <3>1, <3>3, DelayFrame, Zenon
  <2>7. QED
    BY <2>4, <2>5, <2>6, Zenon
<1>3. CASE AskForAnnounce
  <2>1. UNCHANGED <<now, delayTimes, inChan, toClient, clientToServer>>
    BY <1>3, Zenon DEF AskForAnnounce
  <2>2. /\ eventSequence' = eventSequence
        /\ \/ UNCHANGED <<sends, toServer>>
           \/ /\ sends' = sends + 1
              /\ toServer' = toServer \cup {Msg("request", "announce", genSequence, Zero)}
    BY <1>3, Zenon DEF AskForAnnounce, reqUnicast, sendGeneralMsg
  <2>3. Msg("request", "announce", genSequence, Zero).type = "request"
    BY Zenon DEF Msg
  <2>4. sends' >= sends /\ now' >= now
    BY <1>1, <2>1, <2>2
  <2>5. DelayReqs' \subseteq DelayReqs
    BY <2>2, <2>3, Zenon DEF DelayReqs
  <2>6. DelayResps' \subseteq DelayResps
    BY <2>1, Zenon DEF DelayResps, Incoming, Elems
  <2>7. QED
    BY <2>1, <2>2, <2>4, <2>5, <2>6, DelayFrame, Zenon
<1>4. CASE Finish \/ CtxDone \/ SetupFails \/ ReadFails \/ Tick \/ ServerSync
           \/ (\E m \in toServer, d \in {0, 1} : ServerGrant(m, d))
           \/ (\E t \in {"announce", "cancel", "other", "bad"} : ServerSends(t))
           \/ UNCHANGED vars
  <2>1. UNCHANGED <<inChan, clientToServer, eventSequence, delayTimes, sends>>
    BY <1>4, Zenon DEF Finish, CtxDone, SetupFails, ReadFails, Tick, ServerGrant, ServerSync,
       ServerSends, serverFrame, clientVars, vars, netVars, histVars
  <2>2. now' = now \/ now' = now + 1
    BY <1>4, Zenon DEF Finish, CtxDone, SetupFails, ReadFails, Tick, ServerGrant, ServerSync,
       ServerSends, serverFrame, vars
  <2>3. toServer' \subseteq toServer
    BY <1>4, Zenon DEF Finish, CtxDone, SetupFails, ReadFails, Tick, ServerGrant, ServerSync,
       ServerSends, clientVars, vars, netVars
  <2>4. \A n \in toClient' : n \in toClient \/ n.type # "delayResp"
    <3>1. ASSUME NEW m, NEW d, ServerGrant(m, d)
          PROVE  \A n \in toClient' : n \in toClient \/ n.type # "delayResp"
      BY <3>1 DEF ServerGrant, Msg
    <3>2. ASSUME NEW t \in {"announce", "cancel", "other", "bad"}, ServerSends(t)
          PROVE  \A n \in toClient' : n \in toClient \/ n.type # "delayResp"
      BY <3>2 DEF ServerSends, Msg
    <3>3. CASE ServerSync
      BY <3>3 DEF ServerSync, Msg
    <3>4. CASE Finish \/ CtxDone \/ SetupFails \/ ReadFails \/ Tick \/ UNCHANGED vars
      <4>1. toClient' = toClient
        BY <3>4, Zenon DEF Finish, CtxDone, SetupFails, ReadFails, Tick, vars, netVars
      <4>2. QED
        BY <4>1, Zenon
    <3>5. QED
      BY <1>4, <3>1, <3>2, <3>3, <3>4, Zenon
  <2>5. DelayResps' \subseteq DelayResps /\ DelayReqs' \subseteq DelayReqs
    BY <2>1, <2>3, <2>4, Zenon DEF DelayResps, DelayReqs, Incoming, Elems
  <2>6. now' >= now /\ sends' >= sends
    BY <1>1, <2>1, <2>2
  <2>7. QED
    BY <2>1, <2>5, <2>6, DelayFrame, Zenon
<1>5. ASSUME NEW m \in toClient, NEW again \in BOOLEAN, Deliver(m, again)
      PROVE  DelayInv'
  BY <1>5, DelayDelivered, Zenon
<1>6. ASSUME NEW m \in toServer, ServerDelayResp(m)
      PROVE  DelayInv'
  BY <1>6, DelayRespSent, Zenon
<1>7. QED
  BY <1>2, <1>3, <1>4, <1>5, <1>6, Zenon DEF Next, ClientStep, ServerStep

-----------------------------------------------------------------------------
(* What the steps store                                                    *)
-----------------------------------------------------------------------------
(* The last result is made of two real exchanges; no complete sample that  *)
(* is as late gets lost.                                                   *)
Reported ==
  /\ \A r, q \in report : r = q
  /\ \A r \in report :
       /\ r = Result(r.sync, r.delay)
       /\ r.sync \in syncTimes /\ r.delay \in delayTimes
       /\ \E s \in Complete(serverToClient) : r.sync.recv <= serverToClient[s].recv
       /\ \E s \in Complete(clientToServer) : r.delay.recv <= clientToServer[s].recv

SInv == HInv /\ SyncInv /\ DelayInv /\ Reported

\* A Sync or a FollowUp completes at most the sample of its own number; one
\* that is complete stays so, and is at most received later.
LEMMA SyncStored ==
  ASSUME TypeOK, TypeOK', SyncInv, Receive,
         handleSync(Head(inChan)) \/ handleFollowUp(Head(inChan))
  PROVE  LET q == Head(inChan).seq
         IN  /\ \A s \in Complete(serverToClient) :
                  /\ s \in Complete(serverToClient')
                  /\ serverToClient'[s].send = serverToClient[s].send
                  /\ serverToClient[s].recv <= serverToClient'[s].recv
             /\ \A s \in Seqs : s # q => serverToClient'[s] = serverToClient[s]
             /\ q \in Seqs
<1> DEFINE m == Head(inChan)
<1>1. m \in Msgs /\ m \in Elems(inChan)
  <2>1. inChan # <<>> /\ inChan \in Seq(Msgs)
    BY Zenon DEF Receive, TypeOK
  <2>2. QED
    BY <2>1, TailElems, Zenon
<1>2. m \in Syncs
  BY <1>1, Zenon DEF Syncs, Incoming, handleSync, handleFollowUp
<1>3. \/ serverToClient' = [serverToClient EXCEPT ![m.seq].recv = m.rx]
      \/ serverToClient' = [serverToClient EXCEPT ![m.seq].send = m.ts]
  BY Zenon DEF handleSync, handleFollowUp, addSync, addFollowUp
<1> HIDE DEF m
<1>4. /\ m.seq \in Seqs /\ m.ts # Zero /\ m.rx # Zero /\ m.rx \in Nat
      /\ serverToClient[m.seq].send \in {Zero, m.ts}
      /\ serverToClient[m.seq].recv <= m.rx /\ serverToClient[m.seq].recv \in Nat
  BY <1>1, <1>2, StampTypes, Zenon DEF SyncInv, SyncNumbers, InOrder
<1>5. /\ \A s \in Seqs : s # m.seq => serverToClient'[s] = serverToClient[s]
      /\ \/ /\ serverToClient'[m.seq].send = serverToClient[m.seq].send
            /\ serverToClient'[m.seq].recv = m.rx
         \/ /\ serverToClient'[m.seq].send = m.ts
            /\ serverToClient'[m.seq].recv = serverToClient[m.seq].recv
  <2>1. serverToClient[m.seq] \in [send : Times \cup {Zero}, recv : Times \cup {Zero}]
    BY <1>4, Zenon DEF TypeOK, Stamps
  <2>2. DOMAIN serverToClient = Seqs
    BY Zenon DEF TypeOK
  <2>3. QED
    BY <1>3, <1>4, <2>1, <2>2, Zenon
<1>6. ASSUME NEW s \in Complete(serverToClient)
      PROVE  /\ s \in Complete(serverToClient')
             /\ serverToClient'[s].send = serverToClient[s].send
             /\ serverToClient[s].recv <= serverToClient'[s].recv
  <2>1. /\ s \in Seqs /\ serverToClient[s].send # Zero /\ serverToClient[s].recv # Zero
        /\ serverToClient[s].recv \in Nat /\ DOMAIN serverToClient' = Seqs
    BY StampTypes, Zenon DEF Complete, TypeOK
  <2>2. CASE s # m.seq
    BY <1>5, <2>1, <2>2 DEF Complete
  <2>3. CASE s = m.seq
    BY <1>4, <1>5, <2>1, <2>3 DEF Complete
  <2>4. QED
    BY <2>2, <2>3, Zenon
<1>7. QED
  BY <1>4, <1>5, <1>6, Zenon DEF m

\* A Delay_Resp completes the sample of its number and changes no other.
LEMMA DelayStored ==
  ASSUME TypeOK, TypeOK', DelayInv, Receive, handleDelay(Head(inChan))
  PROVE  LET q == Head(inChan).seq
         IN  /\ Complete(clientToServer') = Complete(clientToServer) \cup {q}
             /\ \A s \in Complete(clientToServer) : clientToServer'[s] = clientToServer[s]
             /\ q \in Seqs
<1> DEFINE m == Head(inChan)
<1>1. m \in Msgs /\ m \in Incoming
  BY ReceiveIncoming, Zenon
<1>2. m.type = "delayResp" /\ clientToServer' = [clientToServer EXCEPT ![m.seq].recv = m.ts]
  BY Zenon DEF handleDelay, addDelayResp
<1> HIDE DEF m
<1>3. m \in DelayResps
  BY <1>1, <1>2, Zenon DEF DelayResps
<1>4. /\ m.seq \in Seqs /\ m.ts # Zero /\ clientToServer[m.seq].send # Zero
      /\ clientToServer[m.seq].recv \in {Zero, m.ts}
  BY <1>1, <1>3, StampTypes, Zenon DEF DelayInv, Answered
<1>5. /\ clientToServer'[m.seq].recv = m.ts
      /\ clientToServer'[m.seq].send = clientToServer[m.seq].send
      /\ \A s \in Seqs : s # m.seq => clientToServer'[s] = clientToServer[s]
      /\ clientToServer[m.seq].recv = m.ts => clientToServer'[m.seq] = clientToServer[m.seq]
  <2>1. clientToServer[m.seq] \in [send : Times \cup {Zero}, recv : Times \cup {Zero}]
    BY <1>4, Zenon DEF TypeOK, Stamps
  <2>2. DOMAIN clientToServer = Seqs
    BY Zenon DEF TypeOK
  <2>3. QED
    BY <1>2, <1>4, <2>1, <2>2, Zenon
<1>6. DOMAIN clientToServer = Seqs /\ DOMAIN clientToServer' = Seqs
  BY Zenon DEF TypeOK
<1>7. Complete(clientToServer') = Complete(clientToServer) \cup {m.seq}
  BY <1>4, <1>5, <1>6, Zenon DEF Complete
<1>8. \A s \in Complete(clientToServer) : clientToServer'[s] = clientToServer[s]
  BY <1>4, <1>5, <1>6, Zenon DEF Complete
<1>9. QED
  BY <1>4, <1>7, <1>8, Zenon DEF m

\* A Delay_Req completes none.
LEMMA DelayReqStored ==
  ASSUME TypeOK, TypeOK', DelayInv, handleFollowUp(Head(inChan))
  PROVE  /\ Complete(clientToServer') = Complete(clientToServer)
         /\ \A s \in Complete(clientToServer) : clientToServer'[s] = clientToServer[s]
<1>1. CASE UNCHANGED clientToServer
  BY <1>1, Zenon
<1>2. CASE addDelayReq(eventSequence, now)
  <2>1. eventSequence \in Seqs /\ eventSequence \in Nat
    BY Numbers, Zenon DEF TypeOK
  <2>2. clientToServer[eventSequence] = NoData
    BY <2>1 DEF DelayInv, Unanswered
  <2>3. DOMAIN clientToServer = Seqs /\ DOMAIN clientToServer' = Seqs
    BY Zenon DEF TypeOK
  <2>4. /\ clientToServer'[eventSequence].recv = Zero
        /\ \A s \in Seqs : s # eventSequence => clientToServer'[s] = clientToServer[s]
    BY <1>2, <2>1, <2>2, <2>3 DEF addDelayReq, NoData
  <2>5. clientToServer[eventSequence].recv = Zero
    BY <2>2 DEF NoData
  <2>6. QED
    BY <2>1, <2>3, <2>4, <2>5, Zenon DEF Complete
<1>3. QED
  BY <1>1, <1>2, Zenon DEF handleFollowUp

Stores == \/ handleSync(Head(inChan)) \/ handleFollowUp(Head(inChan)) \/ handleDelay(Head(inChan))

\* Nothing else stores or reports anything.
LEMMA NothingStored ==
  ASSUME [Next]_vars, ~(Receive /\ Stores)
  PROVE  UNCHANGED <<serverToClient, clientToServer, report>>
<1> USE DEF seqVars, mVars, srvVars, clientVars
<1>1. CASE Receive
  <2>1. handleMsg(Head(inChan)) /\ ~Stores
    BY <1>1, Zenon DEF Receive
  <2>2. QED
    BY <2>1, Zenon DEF Stores, handleMsg, handleGrantUnicast, handleCancelUnicast, handleAnnounce,
       handleOther
<1>2. CASE ~Receive
  BY <1>2, Zenon DEF Next, ClientStep, AskForAnnounce, Finish, CtxDone, SetupFails, ReadFails, Tick,
     ServerStep, ServerGrant, ServerSends, ServerSync, ServerDelayResp, serverFrame, Deliver,
     vars
<1>3. QED
  BY <1>1, <1>2, Zenon

\* What handleDelay reports.
LEMMA ReportMade ==
  ASSUME TypeOK, TypeOK', DelayInv, Receive, handleDelay(Head(inChan))
  PROVE  \/ \E s \in latest(serverToClient), r \in latest(clientToServer') :
              report' = {Result(serverToClient[s], clientToServer'[r])}
         \/ Complete(serverToClient) = {} /\ UNCHANGED report
<1>1. Complete(clientToServer') # {}
  BY DelayStored, Zenon
<1>2. QED
  BY <1>1, Zenon DEF handleDelay

\* Samples that are complete stay complete and are not received earlier; real
\* exchanges stay real.
LEMMA SamplesGrow ==
  ASSUME TypeOK, TypeOK', SyncInv, DelayInv, [Next]_vars
  PROVE  /\ \A s \in Complete(serverToClient) :
              s \in Complete(serverToClient') /\ serverToClient[s].recv <= serverToClient'[s].recv
         /\ \A s \in Complete(clientToServer) :
              s \in Complete(clientToServer') /\ clientToServer[s].recv <= clientToServer'[s].recv
         /\ syncTimes \subseteq syncTimes' /\ delayTimes \subseteq delayTimes'
<1>1. /\ \A s \in Complete(serverToClient) : serverToClient[s].recv <= serverToClient[s].recv
      /\ \A s \in Complete(clientToServer) : clientToServer[s].recv <= clientToServer[s].recv
  <2>1. /\ \A s \in Complete(serverToClient) : serverToClient[s].recv \in Nat
        /\ \A s \in Complete(clientToServer) : clientToServer[s].recv \in Nat
    BY StampTypes, Zenon DEF Complete, TypeOK
  <2>2. QED
    BY <2>1
<1>2. syncTimes \subseteq syncTimes' /\ delayTimes \subseteq delayTimes'
  <2>1. ASSUME NEW m, NEW again, Deliver(m, again)
        PROVE  syncTimes \subseteq syncTimes' /\ delayTimes \subseteq delayTimes'
    BY <2>1, Zenon DEF Deliver
  <2>2. ASSUME NEW m, ServerDelayResp(m)
        PROVE  syncTimes \subseteq syncTimes' /\ delayTimes \subseteq delayTimes'
    BY <2>2, Zenon DEF ServerDelayResp
  <2>3. CASE /\ ~(\E m, again : Deliver(m, again))
             /\ ~(\E m : ServerDelayResp(m))
    <3>1. UNCHANGED <<syncTimes, delayTimes>>
      BY <2>3, Zenon DEF Next, ClientStep, Receive, AskForAnnounce, Finish, CtxDone, SetupFails,
         ReadFails, Tick, ServerStep, ServerGrant, ServerSends, ServerSync, vars, histVars
    <3>2. QED
      BY <3>1, Zenon
  <2>4. QED
    BY <2>1, <2>2, <2>3, Zenon
<1>3. CASE Receive /\ (handleSync(Head(inChan)) \/ handleFollowUp(Head(inChan)))
  <2>1. \A s \in Complete(serverToClient) :
          s \in Complete(serverToClient') /\ serverToClient[s].recv <= serverToClient'[s].recv
    BY <1>3, SyncStored, Zenon
  <2>2. /\ Complete(clientToServer') = Complete(clientToServer)
        /\ \A s \in Complete(clientToServer) : clientToServer'[s] = clientToServer[s]
    <3>1. CASE handleFollowUp(Head(inChan))
      BY <3>1, DelayReqStored, Zenon
    <3>2. CASE handleSync(Head(inChan))
      <4>1. clientToServer' = clientToServer
        BY <3>2, Zenon DEF handleSync
      <4>2. QED
        BY <4>1, Zenon
    <3>3. QED
      BY <1>3, <3>1, <3>2, Zenon
  <2>3. QED
    BY <1>1, <1>2, <2>1, <2>2, Zenon
<1>4. CASE Receive /\ handleDelay(Head(inChan))
  <2>1. /\ Complete(clientToServer) \subseteq Complete(clientToServer')
        /\ \A s \in Complete(clientToServer) : clientToServer'[s] = clientToServer[s]
    BY <1>4, DelayStored, Zenon
  <2>2. serverToClient' = serverToClient
    BY <1>4, Zenon DEF handleDelay
  <2>3. QED
    BY <1>1, <1>2, <2>1, <2>2, Zenon
<1>5. CASE ~(Receive /\ Stores)
  BY <1>1, <1>2, <1>5, NothingStored, Zenon
<1>6. QED
  BY <1>3, <1>4, <1>5, Zenon DEF Stores

\* The part of the invariant that concerns results is inductive.
LEMMA ReportedStep ==
  ASSUME TypeOK, TypeOK', SyncInv, SyncInv', DelayInv, DelayInv', Reported, [Next]_vars
  PROVE  Reported'
<1>1. CASE UNCHANGED report
  <2> SUFFICES ASSUME NEW r \in report
               PROVE  /\ r = Result(r.sync, r.delay)
                      /\ r.sync \in syncTimes' /\ r.delay \in delayTimes'
                      /\ \E s \in Complete(serverToClient') : r.sync.recv <= serverToClient'[s].recv
                      /\ \E s \in Complete(clientToServer') : r.delay.recv <= clientToServer'[s].recv
    BY <1>1, Zenon DEF Reported
  <2>1. PICK s \in Complete(serverToClient) : r.sync.recv <= serverToClient[s].recv
    BY Zenon DEF Reported
  <2>2. PICK d \in Complete(clientToServer) : r.delay.recv <= clientToServer[d].recv
    BY Zenon DEF Reported
  <2>3. /\ s \in Complete(serverToClient') /\ serverToClient[s].recv <= serverToClient'[s].recv
        /\ d \in Complete(clientToServer') /\ clientToServer[d].recv <= clientToServer'[d].recv
        /\ syncTimes \subseteq syncTimes' /\ delayTimes \subseteq delayTimes'
    BY SamplesGrow, Zenon
  <2>4. /\ r = Result(r.sync, r.delay) /\ r.sync \in syncTimes /\ r.delay \in delayTimes
    BY Zenon DEF Reported
  <2>5. /\ r.sync.recv \in Nat /\ serverToClient[s].recv \in Nat /\ serverToClient'[s].recv \in Nat
        /\ r.delay.recv \in Nat /\ clientToServer[d].recv \in Nat /\ clientToServer'[d].recv \in Nat
    <3>1. s \in Seqs /\ d \in Seqs /\ r.sync \in Stamps /\ r.delay \in Stamps
      BY <2>4, Zenon DEF Complete, TypeOK
    <3>2. serverToClient'[s] \in Stamps /\ clientToServer'[d] \in Stamps
      BY <3>1, Zenon DEF TypeOK
    <3>3. QED
      BY <3>1, <3>2, StampTypes, Zenon
  <2>6. r.sync.recv <= serverToClient'[s].recv /\ r.delay.recv <= clientToServer'[d].recv
    BY <2>1, <2>2, <2>3, <2>5
  <2>7. QED
    BY <2>3, <2>4, <2>6, Zenon
<1>2. CASE Receive /\ handleDelay(Head(inChan)) /\ ~UNCHANGED report
  <2>1. PICK s \in latest(serverToClient), d \in latest(clientToServer') :
               report' = {Result(serverToClient[s], clientToServer'[d])}
    BY <1>2, ReportMade, Zenon
  <2>2. serverToClient' = serverToClient
    BY <1>2, Zenon DEF handleDelay
  <2>3. s \in Complete(serverToClient') /\ d \in Complete(clientToServer')
    BY <2>2, Zenon DEF latest
  <2>4. serverToClient[s] \in syncTimes' /\ clientToServer'[d] \in delayTimes'
    <3>1. s \in Complete(serverToClient') => serverToClient'[s] \in syncTimes'
      BY Zenon DEF SyncInv, SyncReceipts
    <3>2. d \in Complete(clientToServer') => clientToServer'[d] \in delayTimes'
      BY Zenon DEF DelayInv, Answered
    <3>3. QED
      BY <2>2, <2>3, <3>1, <3>2, Zenon
  <2>5. serverToClient[s].recv \in Nat /\ clientToServer'[d].recv \in Nat
    <3>1. serverToClient[s] \in Stamps /\ clientToServer'[d] \in Stamps
      BY <2>2, <2>3, Zenon DEF Complete, TypeOK
    <3>2. QED
      BY <3>1, StampTypes, Zenon
  <2> DEFINE r == Result(serverToClient[s], clientToServer'[d])
  <2>6. r.sync = serverToClient[s] /\ r.delay = clientToServer'[d]
    BY Zenon DEF Result
  <2>7. r = Result(r.sync, r.delay)
    BY <2>6, Zenon
  <2>8. r.sync.recv <= serverToClient'[s].recv /\ r.delay.recv <= clientToServer'[d].recv
    BY <2>2, <2>5, <2>6
  <2> HIDE DEF r
  <2>9. report' = {r}
    BY <2>1, Zenon DEF r
  <2>10. QED
    BY <2>3, <2>4, <2>6, <2>7, <2>8, <2>9, Zenon DEF Reported
<1>3. CASE ~(Receive /\ handleDelay(Head(inChan)))
  <2>1. CASE Receive /\ Stores
    BY <1>1, <1>3, <2>1, Zenon DEF Stores, handleSync, handleFollowUp
  <2>2. CASE ~(Receive /\ Stores)
    BY <1>1, <2>2, NothingStored, Zenon
  <2>3. QED
    BY <2>1, <2>2, Zenon
<1>4. QED
  BY <1>1, <1>2, <1>3, Zenon

-----------------------------------------------------------------------------
(* The samples: results                                                    *)
-----------------------------------------------------------------------------
\* Nothing is stored or on its way at first.
LEMMA InitSInv == Init => SInv
<1> SUFFICES ASSUME Init
             PROVE  SInv
  BY Zenon
<1>1. Incoming = {} /\ Elems(inChan) = {} /\ Syncs = {} /\ DelayReqs = {} /\ DelayResps = {}
  BY DEF Init, Incoming, Elems, Syncs, DelayReqs, DelayResps
<1>2. TypeOK
  BY InitType, Zenon
<1>3. HInv
  BY <1>1, <1>2, Zenon DEF Init, HInv, Requested, Granted, HandshakeInOrder, NextRequest,
     DoneMeansCancelled, NilMeansCancelled
<1>4. \A s \in Seqs : serverToClient[s] = NoData /\ clientToServer[s] = NoData
  BY Zenon DEF Init
<1>5. Complete(serverToClient) = {} /\ Complete(clientToServer) = {}
  BY <1>4, Zenon DEF Init, Complete, NoData
<1>6. NoData.recv = Zero /\ Zero <= now
  BY DEF NoData, Init, Zero
<1>7. SyncInv
  BY <1>1, <1>4, <1>5, <1>6 DEF SyncInv, SyncNumbers, SyncReceipts, InOrder, Ordered, Init
<1>8. DelayInv
  BY <1>1, <1>4, <1>5 DEF DelayInv, Unanswered, Answered, Init
<1>9. QED
  BY <1>3, <1>7, <1>8, Zenon DEF SInv, Reported, Init, NoReport

\* The invariant is inductive as long as sequence numbers are not reused.
LEMMA NextSInv ==
  ASSUME NoReuse
  PROVE  SInv /\ [Next]_vars => SInv'
<1> SUFFICES ASSUME SInv, [Next]_vars
             PROVE  SInv'
  BY Zenon
<1>1. TypeOK /\ Requested /\ Handshake /\ DoneMeansCancelled /\ NilMeansCancelled
  BY Zenon DEF SInv, HInv, Handshake
<1>2. TypeOK'
  BY <1>1, TypeStep, Zenon
<1>3. HInv'
  BY <1>1, <1>2, HandshakeStep, CancelledStep, Zenon DEF HInv, Handshake
<1>4. SyncInv' /\ DelayInv'
  BY <1>1, <1>2, SyncStep, DelayStep, Zenon DEF SInv
<1>5. Reported'
  BY <1>1, <1>2, <1>4, ReportedStep, Zenon DEF SInv
<1>6. QED
  BY <1>3, <1>4, <1>5, Zenon DEF SInv

\* The inductive invariant holds throughout, as long as sequence numbers are
\* not reused, whatever the network does to messages.
THEOREM Invariance ==
  ASSUME NoReuse
  PROVE  Spec => []SInv
<1>1. SInv /\ [Next]_vars => SInv'
  BY NextSInv, Zenon
<1>2. QED
  BY <1>1, InitSInv, PTL DEF Spec

\* A complete sample is the sending and a receipt of one and the same message,
\* although its two times come with different messages, in any order.
THEOREM SamplesAreReal ==
  ASSUME NoReuse
  PROVE  Spec => []SamplesReal
<1>1. SInv => SamplesReal
  BY Zenon DEF SInv, SyncInv, SyncReceipts, DelayInv, Answered, SamplesReal
<1>2. QED
  BY <1>1, Invariance, PTL

\* A result is off by no more than half the difference of the two network
\* delays, for any clock offset and any delays.
THEOREM OffsetsBounded ==
  ASSUME NoReuse
  PROVE  Spec => []OffsetWithinAsymmetry
<1>1. SInv => OffsetWithinAsymmetry
  <2> SUFFICES ASSUME SInv, NEW r \in report
               PROVE  LET there == r.sync.recv - (r.sync.send - ClockOffset)
                          back  == (r.delay.recv - ClockOffset) - r.delay.send
                      IN  /\ there >= 0 /\ back >= 0
                          /\ 2 * (r.Offset + ClockOffset) - (there - back) \in {-1, 0, 1}
                          /\ there + back - 2 * r.Delay \in {-1, 0, 1}
    BY Zenon DEF OffsetWithinAsymmetry
  <2> DEFINE x == r.sync
             y == r.delay
             d == Half((y.recv - y.send) + (x.recv - x.send))
  <2>1. r = Result(x, y) /\ x \in syncTimes /\ y \in delayTimes
    BY Zenon DEF SInv, Reported
  <2>2. x \in Stamps /\ y \in Stamps
    BY <2>1, Zenon DEF SInv, HInv, TypeOK
  <2>3. x.send \in Nat /\ x.recv \in Nat /\ y.send \in Nat /\ y.recv \in Nat /\ ClockOffset \in Nat
    BY <2>2, StampTypes, Zenon DEF SInv, HInv
  <2>4. x.send <= x.recv + ClockOffset /\ y.send + ClockOffset <= y.recv
    BY <2>1, Zenon DEF SInv, SyncInv, SyncReceipts, DelayInv, Answered
  <2>5. r.Delay = d /\ r.Offset = (x.recv - x.send) - d
    BY <2>1 DEF Result
  <2> HIDE DEF x, y
  <2>6. (y.recv - y.send) + (x.recv - x.send) \in Int
    BY <2>3
  <2>7. d \in Int /\ ((y.recv - y.send) + (x.recv - x.send)) - 2 * d \in {-1, 0, 1}
    BY <2>6, HalfRounds, Zenon
  <2> HIDE DEF d
  <2>8. /\ x.recv - (x.send - ClockOffset) >= 0 /\ (y.recv - ClockOffset) - y.send >= 0
        /\ 2 * (r.Offset + ClockOffset)
             - ((x.recv - (x.send - ClockOffset)) - ((y.recv - ClockOffset) - y.send)) \in {-1, 0, 1}
        /\ (x.recv - (x.send - ClockOffset)) + ((y.recv - ClockOffset) - y.send) - 2 * r.Delay
             \in {-1, 0, 1}
    BY <2>3, <2>4, <2>5, <2>7
  <2>9. QED
    BY <2>8, Zenon DEF x, y
<1>2. QED
  BY <1>1, Invariance, PTL

\* Results never go back in time: samples that complete late, out of order or
\* again never replace the one that was received last.
THEOREM ReportsOnlyAdvance ==
  ASSUME NoReuse
  PROVE  Spec => ReportsAdvance
<1>1. SInv /\ SInv' /\ [Next]_vars =>
        [\A r \in report, q \in report' :
           /\ r.Timestamp <= q.Timestamp
           /\ r.sync.recv <= q.sync.recv]_vars
  <2> SUFFICES ASSUME SInv, SInv', [Next]_vars, NEW r \in report, NEW q \in report'
               PROVE  r.Timestamp <= q.Timestamp /\ r.sync.recv <= q.sync.recv
    BY Zenon
  <2> USE DEF SInv, HInv
  <2>1. r = Result(r.sync, r.delay) /\ r.sync \in syncTimes /\ r.delay \in delayTimes
    BY Zenon DEF Reported
  <2>2. r.Timestamp = r.delay.recv /\ r.delay.recv \in Nat /\ r.sync.recv \in Nat
    <3>1. Result(r.sync, r.delay).Timestamp = r.delay.recv
      BY Zenon DEF Result
    <3>2. r.sync \in Stamps /\ r.delay \in Stamps
      BY <2>1, Zenon DEF TypeOK
    <3>3. QED
      BY <2>1, <3>1, <3>2, StampTypes, Zenon
  <2>3. CASE UNCHANGED report
    <3>1. r = q
      BY <2>3, Zenon DEF Reported
    <3>2. QED
      BY <2>2, <3>1
  <2>4. CASE ~UNCHANGED report
    <3>1. Receive /\ handleDelay(Head(inChan))
      BY <2>4, NothingStored, Zenon DEF Stores, handleSync, handleFollowUp
    <3>2. PICK s \in latest(serverToClient), d \in latest(clientToServer') :
               report' = {Result(serverToClient[s], clientToServer'[d])}
      BY <2>4, <3>1, ReportMade, Zenon
    <3>3. q.Timestamp = clientToServer'[d].recv /\ q.sync = serverToClient[s]
      BY <3>2 DEF Result
    <3>4. PICK t \in Complete(serverToClient) : r.sync.recv <= serverToClient[t].recv
      BY Zenon DEF Reported
    <3>5. PICK e \in Complete(clientToServer) : r.delay.recv <= clientToServer[e].recv
      BY Zenon DEF Reported
    <3>6. e \in Complete(clientToServer') /\ clientToServer[e].recv <= clientToServer'[e].recv
      BY SamplesGrow, Zenon
    <3>7. serverToClient[t].recv <= serverToClient[s].recv
          /\ clientToServer'[e].recv <= clientToServer'[d].recv
      BY <3>6, Zenon DEF latest
    <3>8. /\ serverToClient[t].recv \in Nat /\ serverToClient[s].recv \in Nat
          /\ clientToServer[e].recv \in Nat /\ clientToServer'[e].recv \in Nat
          /\ clientToServer'[d].recv \in Nat
      <4>1. t \in Seqs /\ s \in Seqs /\ e \in Seqs /\ d \in Seqs
        BY Zenon DEF latest, Complete, TypeOK
      <4>2. clientToServer'[e] \in Stamps /\ clientToServer'[d] \in Stamps
        BY <4>1, Zenon DEF TypeOK
      <4>3. QED
        BY <4>1, <4>2, StampTypes, Zenon
    <3>9. QED
      BY <2>2, <3>3, <3>4, <3>5, <3>6, <3>7, <3>8
  <2>5. QED
    BY <2>3, <2>4, Zenon
<1>2. QED
  BY <1>1, Invariance, PTL DEF Spec, ReportsAdvance

-----------------------------------------------------------------------------
(* The client implements TimeTransfer                                      *)
-----------------------------------------------------------------------------
Pairs(R) == {[sync |-> r.sync, delay |-> r.delay] : r \in R}

\* The initial state is one of TimeTransfer.
LEMMA PromiseInit == Init => Promise!Init
<1> SUFFICES ASSUME Init
             PROVE  Promise!Init
  BY Zenon
<1>1. \A s \in Seqs : serverToClient[s] = NoData /\ clientToServer[s] = NoData
  BY Zenon DEF Init
<1>2. Complete(serverToClient) = {} /\ Complete(clientToServer) = {}
  BY <1>1, Zenon DEF Init, Complete, NoData
<1>3. /\ CompleteSamples(serverToClient) = {} /\ CompleteSamples(clientToServer) = {}
      /\ report = {} /\ outcome = "running"
  BY <1>2, Zenon DEF CompleteSamples, Init, NoReport
<1>4. QED
  BY <1>3, Zenon DEF Promise!Init, Promise!NoReport

\* A sample that is complete is an exchange.
LEMMA SampleIsExchange ==
  ASSUME NEW m \in [Seqs -> Stamps], NEW s \in Complete(m)
  PROVE  m[s] \in Promise!Exchange /\ s \in Seqs
<1>1. s \in Seqs /\ m[s] \in Stamps /\ m[s].send # Zero /\ m[s].recv # Zero
  BY Zenon DEF Complete
<1>2. m[s].send \in Times /\ m[s].recv \in Times
  BY <1>1, Zenon DEF Stamps
<1>3. QED
  BY <1>1, <1>2, Zenon DEF Stamps, Promise!Exchange

\* The samples the code calls latest are the exchanges received last.
LEMMA LatestIsLast ==
  ASSUME NEW m, NEW s \in latest(m)
  PROVE  m[s] \in Promise!Last(CompleteSamples(m))
  BY Zenon DEF latest, CompleteSamples, Promise!Last

\* A Sync or FollowUp is a step LearnSync, or completes nothing.
LEMMA PromiseSync ==
  ASSUME SInv, SInv', Receive, handleSync(Head(inChan)) \/ handleFollowUp(Head(inChan))
  PROVE  [Promise!Next]_(Promise!vars)
<1> DEFINE q == Head(inChan).seq
           S == CompleteSamples(serverToClient)
           T == CompleteSamples(serverToClient')
           x == serverToClient'[q]
           y == S \ T
<1> USE DEF SInv, HInv
<1>1. /\ \A s \in Complete(serverToClient) :
           /\ s \in Complete(serverToClient')
           /\ serverToClient'[s].send = serverToClient[s].send
           /\ serverToClient[s].recv <= serverToClient'[s].recv
      /\ \A s \in Seqs : s # q => serverToClient'[s] = serverToClient[s]
      /\ q \in Seqs
  BY SyncStored, Zenon
<1>2. UNCHANGED report
  BY Zenon DEF handleSync, handleFollowUp
<1>3. CompleteSamples(clientToServer') = CompleteSamples(clientToServer)
  <2>1. CASE handleFollowUp(Head(inChan))
    BY <2>1, DelayReqStored, Zenon DEF CompleteSamples
  <2>2. CASE handleSync(Head(inChan))
    <3>1. clientToServer' = clientToServer
      BY <2>2, Zenon DEF handleSync
    <3>2. QED
      BY <3>1, Zenon
  <2>3. QED
    BY <2>1, <2>2, Zenon
<1>4. outcome = "running"
  BY Zenon DEF Receive, Loops
<1>5. DOMAIN serverToClient = Seqs /\ DOMAIN serverToClient' = Seqs
  BY Zenon DEF TypeOK
<1> HIDE DEF q
<1>6. \A s \in Complete(serverToClient') : s # q => s \in Complete(serverToClient)
  BY <1>1, <1>5, Zenon DEF Complete
<1>7. CASE q \in Complete(serverToClient')
  <2>1. x \in Promise!Exchange
    BY <1>7, SampleIsExchange, Zenon DEF TypeOK
  <2>2. x \in T /\ T \subseteq S \cup {x}
    <3>1. x \in T
      BY <1>7, Zenon DEF CompleteSamples
    <3>2. ASSUME NEW s \in Complete(serverToClient')
          PROVE  serverToClient'[s] \in S \cup {x}
      <4>1. CASE s = q
        BY <4>1, Zenon
      <4>2. CASE s # q
        <5>1. s \in Complete(serverToClient) /\ s \in Seqs
          BY <1>5, <1>6, <4>2, Zenon DEF Complete
        <5>2. serverToClient'[s] = serverToClient[s]
          BY <1>1, <4>2, <5>1, Zenon
        <5>3. QED
          BY <5>1, <5>2, Zenon DEF CompleteSamples
      <4>3. QED
        BY <4>1, <4>2, Zenon
    <3>3. QED
      BY <3>1, <3>2, Zenon DEF CompleteSamples
  <2>3. \A z \in y : z.send = x.send /\ z.recv <= x.recv
    <3> SUFFICES ASSUME NEW z \in S, z \notin T
                 PROVE  z.send = x.send /\ z.recv <= x.recv
      BY Zenon
    <3>1. PICK s \in Complete(serverToClient) : z = serverToClient[s]
      BY Zenon DEF CompleteSamples
    <3>2. s = q
      BY <1>1, <1>5, <3>1, Zenon DEF CompleteSamples, Complete
    <3>3. QED
      BY <1>1, <3>1, <3>2, Zenon
  <2>4. y \in SUBSET S /\ T = (S \ y) \cup {x}
    BY <2>2, Zenon
  <2> HIDE DEF x, y, S, T
  <2>5. Promise!LearnSync(x)
    <3>1. \E w \in SUBSET S : (\A z \in w : z.send = x.send /\ z.recv <= x.recv)
                              /\ T = (S \ w) \cup {x}
      BY <2>3, <2>4, Zenon
    <3>2. QED
      BY <1>2, <1>3, <1>4, <3>1, Zenon DEF S, T, Promise!LearnSync
  <2>6. QED
    BY <2>1, <2>5, Zenon DEF Promise!Next
<1>8. CASE q \notin Complete(serverToClient')
  <2>1. Complete(serverToClient') = Complete(serverToClient)
    BY <1>1, <1>6, <1>8, Zenon
  <2>2. T = S
    BY <1>1, <1>5, <1>8, <2>1 DEF CompleteSamples, Complete
  <2>3. CASE outcome' = outcome
    BY <1>2, <1>3, <2>2, <2>3, Zenon DEF Promise!vars
  <2>4. CASE outcome' # outcome
    <3>1. Promise!Close
      BY <1>2, <1>3, <1>4, <2>2, <2>4, Zenon DEF Promise!Close
    <3>2. QED
      BY <3>1, Zenon DEF Promise!Next
  <2>5. QED
    BY <2>3, <2>4, Zenon
<1>9. QED
  BY <1>7, <1>8, Zenon

\* A Delay_Resp is a step Report, or LearnDelay as long as there is no sample
\* of the other direction.
LEMMA PromiseDelay ==
  ASSUME SInv, SInv', Receive, handleDelay(Head(inChan))
  PROVE  Promise!Next
<1> DEFINE q == Head(inChan).seq
           D == CompleteSamples(clientToServer)
           E == CompleteSamples(clientToServer')
           x == clientToServer'[q]
<1> USE DEF SInv, HInv
<1>1. /\ Complete(clientToServer') = Complete(clientToServer) \cup {q}
      /\ \A s \in Complete(clientToServer) : clientToServer'[s] = clientToServer[s]
  BY DelayStored, Zenon
<1>2. UNCHANGED <<serverToClient, outcome>>
  BY Zenon DEF handleDelay
<1>3. outcome = "running"
  BY Zenon DEF Receive, Loops
<1> HIDE DEF q
<1>4. x \in Promise!Exchange
  BY <1>1, SampleIsExchange, Zenon DEF TypeOK
<1>5. E = D \cup {x}
  BY <1>1, Zenon DEF CompleteSamples
<1>6. CASE \E s \in latest(serverToClient), d \in latest(clientToServer') :
             report' = {Result(serverToClient[s], clientToServer'[d])}
  <2>1. PICK s \in latest(serverToClient), d \in latest(clientToServer') :
             report' = {Result(serverToClient[s], clientToServer'[d])}
    BY <1>6, Zenon
  <2>2. /\ serverToClient[s] \in Promise!Last(CompleteSamples(serverToClient))
        /\ clientToServer'[d] \in Promise!Last(E)
    BY LatestIsLast, Zenon
  <2>3. Pairs(report') = {[sync |-> serverToClient[s], delay |-> clientToServer'[d]]}
    BY <2>1 DEF Result, Pairs
  <2> HIDE DEF x, D, E
  <2>4. Promise!Report
    BY <1>2, <1>3, <1>4, <1>5, <2>2, <2>3, Zenon DEF D, E, Pairs, Promise!Report
  <2>5. QED
    BY <2>4, Zenon DEF Promise!Next
<1>7. CASE Complete(serverToClient) = {} /\ UNCHANGED report
  <2>1. CompleteSamples(serverToClient) = {}
    BY <1>7, Zenon DEF CompleteSamples
  <2> HIDE DEF x
  <2>2. Promise!LearnDelay(x)
    BY <1>2, <1>3, <1>5, <1>7, <2>1, Zenon DEF Promise!LearnDelay
  <2>3. QED
    BY <1>4, <2>2, Zenon DEF Promise!Next
<1>8. QED
  BY <1>6, <1>7, ReportMade, Zenon

\* Every step of the client is a step of TimeTransfer, or none.
LEMMA PromiseStep ==
  ASSUME SInv, SInv', [Next]_vars
  PROVE  [Promise!Next]_(Promise!vars)
<1>1. CASE Receive /\ Stores
  BY <1>1, PromiseSync, PromiseDelay, Zenon DEF Stores
<1>2. CASE ~(Receive /\ Stores)
  <2>1. UNCHANGED <<serverToClient, clientToServer, report>>
    BY <1>2, NothingStored, Zenon
  <2>2. CASE outcome' = outcome
    BY <2>1, <2>2, Zenon DEF Promise!vars
  <2>3. CASE outcome' # outcome
    <3>1. outcome = "running"
      BY <2>3, Zenon DEF Next, ClientStep, Receive, AskForAnnounce, Finish, CtxDone, Default, Loops,
         SetupFails, ReadFails, Tick, ServerStep, Deliver, vars
    <3>2. Promise!Close
      BY <2>1, <2>3, <3>1, Zenon DEF Promise!Close
    <3>3. QED
      BY <3>2, Zenon DEF Promise!Next
  <2>4. QED
    BY <2>2, <2>3, Zenon
<1>3. QED
  BY <1>1, <1>2, Zenon

\* The client implements TimeTransfer: every result it hands to the callback
\* is made of the exchanges of either direction received last, whatever the
\* network does to messages.
THEOREM Refinement ==
  ASSUME NoReuse
  PROVE  Spec => PromiseKept
<1>1. SInv /\ SInv' /\ [Next]_vars => [Promise!Next]_(Promise!vars)
  BY PromiseStep, Zenon
<1>2. QED
  BY <1>1, PromiseInit, Invariance, PTL DEF Spec, PromiseKept, Promise!Spec

=============================================================================
