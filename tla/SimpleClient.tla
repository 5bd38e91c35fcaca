---------------------------- MODULE SimpleClient ----------------------------
(***************************************************************************)
(* The unicast PTP client of src/ptp/simpleclient, which ptpcheck trace    *)
(* runs, together with a server that answers it as ptp4u does and a        *)
(* network that delays, reorders, loses and duplicates messages.  The      *)
(* client asks for Announce, Sync and Delay_Resp messages in turn, stores  *)
(* the four time stamps of an exchange under the sequence numbers of its   *)
(* messages and reports delay and offset after every Delay_Resp.  A lost   *)
(* message is one that is never delivered.                                 *)
(*                                                                         *)
(* The client's clock reads now, the server's now + ClockOffset.           *)
(***************************************************************************)
EXTENDS Integers, Sequences

CONSTANTS
  ClockOffset,   \* server clock minus client clock
  SeqMod,        \* sequence numbers are taken modulo this (2^16)
  InChanSize,    \* capacity of inChan (10)
  Timeout,       \* Config.Timeout
  MaxTime,       \* bound: clock readings
  MaxSyncs,      \* bound: Sync messages of the server
  MaxSends,      \* bound: messages the client sends
  MaxExtras,       \* bound: duplicates, and messages outside the exchange
  SendsFail      \* a write or the read of its time stamp may fail

ASSUME ClientAssumption ==
  /\ ClockOffset \in Nat
  /\ SeqMod \in Nat \ {0} /\ InChanSize \in Nat \ {0}
  /\ Timeout \in Nat /\ MaxTime \in Nat \ {0}
  /\ MaxSyncs \in Nat /\ MaxSends \in Nat /\ MaxExtras \in Nat
  /\ SendsFail \in BOOLEAN

Zero == 0        \* time.Time{}: real readings start at 1
Seqs == 0 .. SeqMod - 1
Times == 1 .. MaxTime + ClockOffset
Grants == {"announce", "sync", "delayResp"}

VARIABLES
  now,
  \* the client
  state,         \* Client.state
  outcome,       \* "running", or how Run ended: "nil", "error", "deadline"
  asleep,        \* the main loop sleeps for a second
  genSequence, eventSequence, sends, inChan,
  serverToClient, clientToServer,   \* measurements: sequence number -> mData
  currentUTCoffset,
  report,        \* the last result handed to the callback
  \* the network and the server
  toServer, toClient, extras,
  granted,       \* message types the server has granted
  nsync,         \* Sync messages sent
  \* history: real times of sending and receipt; the message types the client
  \* has asked for, those it was granted; it has handled a cancellation
  syncTimes, delayTimes, asked, holds, cancelled

seqVars == <<genSequence, eventSequence, sends>>
mVars == <<serverToClient, clientToServer, currentUTCoffset>>
netVars == <<toServer, toClient, extras>>
srvVars == <<granted, nsync>>
histVars == <<syncTimes, delayTimes, asked, holds, cancelled>>
vars == <<now, state, outcome, asleep, seqVars, inChan, mVars, report,
          netVars, srvVars, histVars>>

NoData == [send |-> Zero, recv |-> Zero]
NoReport == {}

Init ==
  /\ now = 1
  /\ state = "init" /\ outcome = "running" /\ asleep = FALSE
  /\ genSequence = 0 /\ eventSequence = 0 /\ sends = 0
  /\ inChan = <<>>
  /\ serverToClient = [s \in Seqs |-> NoData]
  /\ clientToServer = [s \in Seqs |-> NoData]
  /\ currentUTCoffset = FALSE
  /\ report = NoReport
  /\ toServer = {} /\ toClient = {} /\ extras = 0
  /\ granted = {} /\ nsync = 0
  /\ syncTimes = {} /\ delayTimes = {}
  /\ asked = {} /\ holds = {} /\ cancelled = FALSE

Msg(t, what, seq, ts) ==
  [type |-> t, what |-> what, seq |-> seq, ts |-> ts, rx |-> Zero]

(***************************************************************************)
(* Sending.  A failed write, or a time stamp that cannot be read back,     *)
(* ends the main loop with that error; the sequence numbers move on only   *)
(* after a write that succeeded.                                           *)
(***************************************************************************)
sendGeneralMsg(t, what) ==
  /\ sends < MaxSends
  /\ sends' = sends + 1
  /\ toServer' = toServer \cup {Msg(t, what, genSequence, Zero)}
  /\ genSequence' = (genSequence + 1) % SeqMod

\* reqUnicast: a Signaling message with one REQUEST_UNICAST_TRANSMISSION TLV.
reqUnicast(what) ==
  /\ sendGeneralMsg("request", what)
  /\ asked' = asked \cup {what}

SendFails ==
  /\ SendsFail
  /\ outcome' = "error"

(***************************************************************************)
(* measurements                                                            *)
(***************************************************************************)
addSync(seq, ts) ==
  serverToClient' = [serverToClient EXCEPT ![seq].recv = ts]
addFollowUp(seq, ts) ==
  serverToClient' = [serverToClient EXCEPT ![seq].send = ts]
\* Mutant of addDelayReq: stored under the number already moved on.
addDelayReqLate(seq, ts) ==
  clientToServer' = [clientToServer EXCEPT ![(seq + 1) % SeqMod].send = ts]

addDelayReq(seq, ts) ==
  clientToServer' = [clientToServer EXCEPT ![seq].send = ts]
addDelayResp(seq, ts) ==
  clientToServer' = [clientToServer EXCEPT ![seq].recv = ts]

Complete(m) == {s \in DOMAIN m : m[s].send # Zero /\ m[s].recv # Zero}

\* Mutant of latest: whichever complete sample comes last in the map.
latestAny(m) == Complete(m)

\* latest keeps the first of the complete samples with the latest receiveTS;
\* the order in which a map is visited is not defined.
latest(m) == {s \in Complete(m) : \A r \in Complete(m) : m[r].recv <= m[s].recv}

\* Integer division of durations rounds towards zero.
Half(d) == IF d >= 0 THEN d \div 2 ELSE -((-d) \div 2)

\* Mutant of Result: the first of the two formulas in trace.go's help text.
ResultHalved(stc, cts) ==
  LET c2s == cts.recv - cts.send
      s2c == stc.recv - stc.send
      delay == Half(c2s + s2c)
  IN  [sync |-> stc, delay |-> cts,
       Delay |-> delay, Offset |-> Half(s2c - delay), Timestamp |-> cts.recv]

Result(stc, cts) ==
  LET c2s == cts.recv - cts.send
      s2c == stc.recv - stc.send
      delay == Half(c2s + s2c)
  IN  [sync |-> stc, delay |-> cts,
       Delay |-> delay, Offset |-> s2c - delay, Timestamp |-> cts.recv]

(***************************************************************************)
(* The handlers of the main loop.  Each takes the message at the head of   *)
(* inChan; an error they return ends the loop.                             *)
(***************************************************************************)
clientVars == <<seqVars, mVars, report, toServer, asked, holds, cancelled>>

\* What the client asks for next, once it holds a grant.
NextRequest == [announce |-> "sync", sync |-> "delayResp"]

\* A grant of duration 0 is a denial, which for Announce comes after the
\* change of state.  With Delay_Resp granted the handshake is complete.
handleGrantUnicast(m) ==
  /\ m.type = "grant"
  /\ state' = IF m.what = "announce" THEN "inProgress" ELSE state
  /\ \/ /\ m.ts = Zero
        /\ outcome' = "error"
        /\ UNCHANGED <<seqVars, toServer, asked, holds>>
     \/ /\ m.ts # Zero /\ m.what \in DOMAIN NextRequest
        /\ holds' = holds \cup {m.what}
        /\ \/ /\ reqUnicast(NextRequest[m.what])
              /\ UNCHANGED <<eventSequence, outcome>>
           \/ /\ SendFails
              /\ UNCHANGED <<seqVars, toServer, asked>>
     \/ /\ m.ts # Zero /\ m.what = "delayResp"
        /\ holds' = holds \cup {m.what}
        /\ UNCHANGED <<outcome, seqVars, toServer, asked>>
  /\ UNCHANGED <<mVars, report, cancelled>>

\* reqAckCancelUnicast is sent, and the client is done.
handleCancelUnicast(m) ==
  /\ m.type = "cancel"
  /\ cancelled' = TRUE
  /\ \/ /\ sendGeneralMsg("ack", m.what)
        /\ state' = "done"
        /\ UNCHANGED <<eventSequence, outcome>>
     \/ /\ SendFails
        /\ UNCHANGED <<seqVars, toServer, state>>
  /\ UNCHANGED <<mVars, report, asked, holds>>

handleAnnounce(m) ==
  /\ m.type = "announce"
  /\ currentUTCoffset' = TRUE
  /\ UNCHANGED <<state, outcome, seqVars, serverToClient, clientToServer,
                 report, toServer, asked, holds, cancelled>>

handleSync(m) ==
  /\ m.type = "sync"
  /\ addSync(m.seq, m.rx)
  /\ UNCHANGED <<state, outcome, seqVars, clientToServer, currentUTCoffset,
                 report, toServer, asked, holds, cancelled>>

\* After the Delay_Req is out its time stamp is stored before another message
\* is handled.  The message in the network carries its sending time for the
\* history only.
handleFollowUp(m) ==
  /\ m.type = "followUp"
  /\ addFollowUp(m.seq, m.ts)
  /\ \/ /\ sends < MaxSends
        /\ sends' = sends + 1
        /\ toServer' = toServer \cup {Msg("delayReq", "none", eventSequence, now)}
        /\ addDelayReq(eventSequence, now)
        /\ eventSequence' = (eventSequence + 1) % SeqMod
        /\ UNCHANGED outcome
     \/ /\ SendFails
        /\ UNCHANGED <<sends, toServer, clientToServer, eventSequence>>
  /\ UNCHANGED <<state, genSequence, currentUTCoffset, report, asked, holds,
                 cancelled>>

\* The callback is called with the latest samples, complete or not this time.
handleDelay(m) ==
  /\ m.type = "delayResp"
  /\ addDelayResp(m.seq, m.ts)
  /\ \/ \E s \in latest(serverToClient), r \in latest(clientToServer') :
          report' = {Result(serverToClient[s], clientToServer'[r])}
     \/ /\ Complete(serverToClient) = {} \/ Complete(clientToServer') = {}
        /\ UNCHANGED report
  /\ UNCHANGED <<state, outcome, seqVars, serverToClient, currentUTCoffset,
                 toServer, asked, holds, cancelled>>

\* Other message types are ignored; a TLV of another type is an error, and so
\* is a packet too short to parse.
handleOther(m) ==
  /\ m.type \in {"other", "bad"}
  /\ outcome' = IF m.type = "bad" THEN "error" ELSE outcome
  /\ UNCHANGED <<state, clientVars>>

handleMsg(m) ==
  \/ handleGrantUnicast(m) \/ handleCancelUnicast(m) \/ handleAnnounce(m)
  \/ handleSync(m) \/ handleFollowUp(m) \/ handleDelay(m) \/ handleOther(m)

(***************************************************************************)
(* runInternal: a select over the context, the channel and a default.      *)
(***************************************************************************)
Loops == outcome = "running" /\ ~asleep

Receive ==
  /\ Loops /\ inChan # <<>>
  /\ inChan' = Tail(inChan)
  /\ handleMsg(Head(inChan))
  /\ UNCHANGED <<now, asleep, toClient, extras, srvVars, syncTimes, delayTimes>>

\* The default runs only when neither the context nor the channel is ready.
Default == Loops /\ inChan = <<>> /\ now < Timeout

AskForAnnounce ==
  /\ Default /\ state = "init"
  /\ \/ /\ reqUnicast("announce")
        /\ asleep' = TRUE
        /\ UNCHANGED <<eventSequence, outcome>>
     \/ /\ SendFails
        /\ UNCHANGED <<asleep, seqVars, toServer, asked>>
  /\ UNCHANGED <<now, state, inChan, mVars, report, toClient, extras, srvVars,
                 syncTimes, delayTimes, holds, cancelled>>

Finish ==
  /\ Default /\ state = "done"
  /\ outcome' = "nil"
  /\ UNCHANGED <<now, state, asleep, inChan, clientVars, toClient, extras, srvVars,
                 syncTimes, delayTimes>>

\* Mutant of CtxDone: the deadline is looked at only until the first grant.
CtxDoneInInit ==
  /\ Loops /\ now >= Timeout /\ state = "init"
  /\ outcome' = "deadline"
  /\ UNCHANGED <<now, state, asleep, inChan, clientVars, toClient, extras,
                 srvVars, syncTimes, delayTimes>>

CtxDone ==
  /\ Loops /\ now >= Timeout
  /\ outcome' = "deadline"
  /\ UNCHANGED <<now, state, asleep, inChan, clientVars, toClient, extras, srvVars,
                 syncTimes, delayTimes>>

\* Time passes; the main loop's sleep is over after at most a tick.
Tick ==
  /\ outcome = "running" /\ now < MaxTime
  /\ now' = now + 1
  /\ asleep' = FALSE
  /\ UNCHANGED <<state, outcome, inChan, clientVars, toClient, extras, srvVars,
                 syncTimes, delayTimes>>

(***************************************************************************)
(* The two reader goroutines.  They block while inChan is full.  A packet  *)
(* of another sender is logged as ignored, and enqueued like any other.    *)
(***************************************************************************)
Deliver(m, again) ==
  /\ outcome = "running" /\ m \in toClient
  /\ Len(inChan) < InChanSize
  /\ inChan' = Append(inChan, [m EXCEPT !.rx = now])
  /\ \/ ~again /\ toClient' = toClient \ {m} /\ UNCHANGED extras
     \/ again /\ extras < MaxExtras /\ extras' = extras + 1 /\ UNCHANGED toClient
  /\ syncTimes' = IF m.type = "sync"
                    THEN syncTimes \cup {[send |-> m.ts, recv |-> now]}
                    ELSE syncTimes
  /\ UNCHANGED <<now, state, outcome, asleep, clientVars, srvVars, delayTimes>>

\* setup: the interface, its clock identity, the addresses, both ports and the
\* time stamps of the event port come before anything is sent; the first that
\* fails ends Run.  Without hardware time stamps software ones will do if the
\* configuration leaves the choice.
SetupFails ==
  /\ SendsFail /\ outcome = "running"
  /\ state = "init" /\ sends = 0 /\ now = 1
  /\ outcome' = "error"
  /\ UNCHANGED <<now, state, asleep, inChan, clientVars, toClient, extras, srvVars,
                 syncTimes, delayTimes>>

\* errgroup cancels the context of the others and Run returns the error.
ReadFails ==
  /\ SendsFail /\ outcome = "running"
  /\ outcome' = "error"
  /\ UNCHANGED <<now, state, asleep, inChan, clientVars, toClient, extras, srvVars,
                 syncTimes, delayTimes>>

(***************************************************************************)
(* The server                                                              *)
(***************************************************************************)
serverFrame == <<now, state, outcome, asleep, seqVars, inChan, mVars, report,
                 asked, holds, cancelled>>

\* A request is granted or denied (duration 0); the answer repeats its type.
ServerGrant(m, duration) ==
  /\ m \in toServer /\ m.type = "request"
  /\ toServer' = toServer \ {m}
  /\ toClient' = toClient \cup {Msg("grant", m.what, 0, duration)}
  /\ granted' = IF duration = Zero THEN granted ELSE granted \cup {m.what}
  /\ UNCHANGED <<serverFrame, extras, nsync, syncTimes, delayTimes>>

\* Announce messages; a cancellation; messages the client has no use for.
ServerSends(t) ==
  /\ "announce" \in granted
  /\ extras < MaxExtras /\ extras' = extras + 1
  /\ toClient' = toClient \cup {Msg(t, "announce", 0, Zero)}
  /\ UNCHANGED <<serverFrame, toServer, srvVars, syncTimes, delayTimes>>

\* A Sync and the FollowUp with its transmission time.  The Sync carries that
\* time for the history only.
ServerSync ==
  /\ "sync" \in granted /\ nsync < MaxSyncs
  /\ nsync' = nsync + 1
  /\ toClient' = toClient \cup
        {Msg(t, "none", nsync % SeqMod, now + ClockOffset) : t \in {"sync", "followUp"}}
  /\ UNCHANGED <<serverFrame, extras, toServer, granted, syncTimes, delayTimes>>

\* Delay_Reqs of clients without a subscription are dropped.
ServerDelayResp(m) ==
  /\ m \in toServer /\ m.type = "delayReq"
  /\ "delayResp" \in granted
  /\ toServer' = toServer \ {m}
  /\ toClient' = toClient \cup {Msg("delayResp", "none", m.seq, now + ClockOffset)}
  /\ delayTimes' = delayTimes \cup {[send |-> m.ts, recv |-> now + ClockOffset]}
  /\ UNCHANGED <<serverFrame, extras, srvVars, syncTimes>>

\* What the server does once Run has returned concerns nobody.
ServerStep ==
  /\ outcome = "running"
  /\ \/ \E m \in toServer : ServerDelayResp(m) \/ \E d \in {0, 1} : ServerGrant(m, d)
     \/ \E t \in {"announce", "cancel", "other", "bad"} : ServerSends(t)
     \/ ServerSync

ClientStep == Receive \/ AskForAnnounce \/ Finish \/ CtxDone

Next ==
  \/ ClientStep \/ SetupFails \/ ReadFails \/ Tick \/ ServerStep
  \/ \E m \in toClient, again \in BOOLEAN : Deliver(m, again)

\* The main loop is scheduled and time goes on.  Nothing is assumed of the
\* network or the server.
Spec == Init /\ [][Next]_vars /\ WF_vars(ClientStep) /\ WF_vars(Tick)

-----------------------------------------------------------------------------
Msgs == [type : {"request", "ack", "delayReq", "grant", "cancel", "announce",
                 "sync", "followUp", "delayResp", "other", "bad"},
         what : Grants \cup {"none"}, seq : Seqs, ts : Times \cup {Zero},
         rx : Times \cup {Zero}]
Stamps == [send : Times \cup {Zero}, recv : Times \cup {Zero}]

\* Every variable has its type; inChan never exceeds its capacity.
TypeOK ==
  /\ now \in 1 .. MaxTime
  /\ state \in {"init", "inProgress", "done"}
  /\ outcome \in {"running", "nil", "error", "deadline"}
  /\ asleep \in BOOLEAN
  /\ genSequence \in Seqs /\ eventSequence \in Seqs /\ sends \in 0 .. MaxSends
  /\ inChan \in Seq(Msgs) /\ Len(inChan) <= InChanSize
  /\ serverToClient \in [Seqs -> Stamps] /\ clientToServer \in [Seqs -> Stamps]
  /\ currentUTCoffset \in BOOLEAN
  /\ report \subseteq [sync : Stamps, delay : Stamps, Delay : Int, Offset : Int,
                       Timestamp : Times]
  /\ toServer \subseteq Msgs /\ toClient \subseteq Msgs /\ extras \in 0 .. MaxExtras
  /\ granted \subseteq Grants /\ nsync \in 0 .. MaxSyncs
  /\ syncTimes \subseteq Stamps /\ delayTimes \subseteq Stamps
  /\ asked \subseteq Grants /\ holds \subseteq Grants /\ cancelled \in BOOLEAN

\* The time stamps stored under a sequence number belong together: a complete
\* sample is the sending and a receipt of one and the same message, whatever
\* the network did to the messages that carried them.  (As long as sequence
\* numbers are not reused.)
SamplesReal ==
  /\ \A s \in Complete(serverToClient) : serverToClient[s] \in syncTimes
  /\ \A s \in Complete(clientToServer) : clientToServer[s] \in delayTimes

\* A result handed to the callback is off by no more than half the difference
\* between the two real network delays it was made from (and the rounding of
\* one division).
OffsetWithinAsymmetry ==
  \A r \in report :
    LET there == r.sync.recv - (r.sync.send - ClockOffset)
        back  == (r.delay.recv - ClockOffset) - r.delay.send
    IN  /\ there >= 0 /\ back >= 0
        /\ 2 * (r.Offset + ClockOffset) - (there - back) \in {-1, 0, 1}
        /\ there + back - 2 * r.Delay \in {-1, 0, 1}

\* Results never go back in time: what the callback is given next is made of
\* samples received no earlier, although samples complete out of order.
ReportsAdvance ==
  [][\A r \in report, q \in report' :
        /\ r.Timestamp <= q.Timestamp
        /\ r.sync.recv <= q.sync.recv]_vars

\* The handshake (trace.go's "negotiate the communication with the server") is
\* taken in order, and what the client thinks granted the server has granted.
HandshakeInOrder ==
  /\ holds \subseteq granted /\ granted \subseteq asked
  /\ \A w \in DOMAIN NextRequest : NextRequest[w] \in asked => w \in holds

\* Run returns without an error only after a cancellation it was sent.
NilMeansCancelled == outcome = "nil" => cancelled

\* Run returns: after a cancellation, on an error or at its deadline.
Terminates == <>(outcome # "running")

CompleteSamples(m) == {m[s] : s \in Complete(m)}

\* The client keeps the promise of TimeTransfer: the samples that are complete
\* are its exchanges.
Promise == INSTANCE TimeTransfer WITH
  syncs <- CompleteSamples(serverToClient),
  delays <- CompleteSamples(clientToServer),
  report <- {[sync |-> r.sync, delay |-> r.delay] : r \in report},
  open <- outcome = "running"

PromiseKept == Promise!Spec

=============================================================================
