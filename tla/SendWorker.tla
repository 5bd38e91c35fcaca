----------------------------- MODULE SendWorker -----------------------------
(***************************************************************************)
(* One send worker of ptp4u (worker.go, Start), what it serves, and the    *)
(* kernel's TX timestamps.  Subscriptions reach its queue from their       *)
(* senders (module SubscriptionServer) and, for Delay_Resp, from the       *)
(* goroutines of handleEventMessages, which first write the request into   *)
(* the subscription's only Delay_Resp packet.                              *)
(*                                                                         *)
(* The k-th Sync the worker sends stands for the moment it was sent, and   *)
(* so for its TX timestamp.  The driver puts timestamps into the socket's  *)
(* error queue later, in order, or loses them; ReadTXtimestampBuf          *)
(* (timestamp.go) polls that queue.  The k-th Delay_Req received stands    *)
(* for both its sequence ID and the time it was received.                  *)
(***************************************************************************)
EXTENDS Integers, Sequences

CONSTANTS
  SyncSubs, AnnounceSubs, DelaySubs,   \* subscriptions of this worker, by type
  Handlers,                            \* goroutines that run handleEventMessages
  WorkerQueueSize,                           \* Config
  maxTXTS,                             \* attempts to find a TX timestamp
  SeqIDs,                              \* how many sequence IDs there are (2^16)
  MaxTicks, MaxReqs                    \* bounds: ticks and Delay_Reqs

Subs  == SyncSubs \cup AnnounceSubs \cup DelaySubs
NoWork == 0

ASSUME SendWorkerAssumption ==
  /\ NoWork \notin Subs
  /\ SyncSubs \cap AnnounceSubs = {}
  /\ (SyncSubs \cup AnnounceSubs) \cap DelaySubs = {}
  /\ WorkerQueueSize \in Nat
  /\ maxTXTS \in Nat \ {0}
  /\ SeqIDs \in Nat /\ SeqIDs > 1
  /\ MaxTicks \in Nat
  /\ MaxReqs \in Nat

VARIABLES
  wqueue,        \* sendWorker.queue, the buffered part of the channel
  wpc, wsub,    \* where the worker is, and the subscription it serves
  sequenceID,   \* of each subscription
  syncs,        \* Syncs sent so far
  pending,      \* TX timestamps the driver has not delivered yet
  errq,         \* the error queue of the event socket
  attempts, txfound, oob,   \* ReadTXtimestampBuf; oob has the last timestamp read
  respSeq, respBody,        \* delayRespP: SequenceID and ReceiveTimestamp
  bufSeq, bufBody,          \* what the worker has serialised of it
  reqs,         \* Delay_Reqs received so far
  hpc, hreq, hsub,          \* the handlers: where each is, its request and sc
  ticks,        \* ticks of the Sync and Announce subscriptions so far
  \* histories
  gaveUp,       \* some read of a TX timestamp found none
  lastTS,       \* the timestamp in the latest FollowUp
  lastSeq,      \* the sequence ID of the latest Sync of each subscription, or -1
  followed,     \* whether that Sync got its FollowUp
  lastReq, lastResp   \* per Delay_Resp subscription: latest request and response

readVars    == <<attempts, txfound, oob>>
kernelVars  == <<pending, errq>>
packetVars  == <<respSeq, respBody>>
bufVars     == <<bufSeq, bufBody>>
handlerVars == <<reqs, hpc, hreq, hsub>>
seqVars     == <<sequenceID, lastSeq, followed, lastTS>>
workerVars == <<wqueue, wpc, wsub, syncs, readVars, kernelVars, packetVars, bufVars,
                handlerVars, seqVars, ticks, gaveUp, lastReq, lastResp>>

WorkerInit ==
  /\ wqueue = <<>>
  /\ wpc = "idle" /\ wsub = NoWork
  /\ sequenceID = [c \in Subs |-> 0]
  /\ syncs = 0
  /\ pending = <<>> /\ errq = <<>>
  /\ attempts = 0 /\ txfound = FALSE /\ oob = 0
  /\ respSeq = [c \in DelaySubs |-> 0] /\ respBody = [c \in DelaySubs |-> 0]
  /\ bufSeq = 0 /\ bufBody = 0
  /\ reqs = 0
  /\ hpc = [h \in Handlers |-> "idle"]
  /\ hreq = [h \in Handlers |-> 0]
  /\ hsub = [h \in Handlers |-> NoWork]
  /\ ticks = 0
  /\ gaveUp = FALSE /\ lastTS = 0
  /\ lastSeq = [c \in SyncSubs |-> -1] /\ followed = [c \in SyncSubs |-> TRUE]
  /\ lastReq = [c \in DelaySubs |-> 0]
  /\ lastResp = [c \in DelaySubs |-> <<0, 0>>]

-----------------------------------------------------------------------------
(* The worker's queue *)

(* Where the loop body starts for a subscription.                          *)
Entry(c) ==
  CASE c \in SyncSubs -> "sync" [] c \in AnnounceSubs -> "announce" [] OTHER -> "header"

(* sc.queue <- sc.                                                         *)
Enqueue(c) ==
  \/ /\ Len(wqueue) < WorkerQueueSize
     /\ wqueue' = Append(wqueue, c)
     /\ UNCHANGED <<wpc, wsub>>
  \/ /\ wqueue = <<>> /\ wpc = "idle"
     /\ wpc' = Entry(c) /\ wsub' = c
     /\ UNCHANGED wqueue

(* A tick of a Sync or Announce subscription's sender.                     *)
SenderTick(c) ==
  /\ ticks < MaxTicks
  /\ ticks' = ticks + 1
  /\ Enqueue(c)
  /\ UNCHANGED <<syncs, readVars, kernelVars, packetVars, bufVars, handlerVars,
                 seqVars, gaveUp, lastReq, lastResp>>

(* for c = range s.queue.                                                  *)
ServeNext ==
  /\ wpc = "idle"
  /\ wqueue # <<>>
  /\ wpc' = Entry(Head(wqueue)) /\ wsub' = Head(wqueue)
  /\ wqueue' = Tail(wqueue)
  /\ UNCHANGED <<syncs, readVars, kernelVars, packetVars, bufVars, handlerVars,
                 seqVars, ticks, gaveUp, lastReq, lastResp>>

(* Back to the top of the loop.                                            *)
Continue == wpc' = "idle" /\ wsub' = NoWork

(* A mutant: the sequence ID stays.                                        *)
KeepSequenceID(c) == UNCHANGED sequenceID

(* The end of the loop body: uint16 arithmetic.                            *)
IncSequenceID(c) == sequenceID' = [sequenceID EXCEPT ![c] = (@ + 1) % SeqIDs]

-----------------------------------------------------------------------------
(* Sync and FollowUp *)

(* UpdateSync and Sendto: the packet carries sequenceID.                   *)
SendSync ==
  /\ wpc = "sync"
  /\ syncs' = syncs + 1
  /\ pending' = Append(pending, syncs + 1)
  /\ attempts' = 0 /\ txfound' = FALSE
  /\ wpc' = "read"
  /\ lastSeq' = [lastSeq EXCEPT ![wsub] = sequenceID[wsub]]
  /\ followed' = [followed EXCEPT ![wsub] = FALSE]
  /\ UNCHANGED <<wqueue, wsub, oob, errq, packetVars, bufVars, handlerVars, sequenceID,
                 lastTS, ticks, gaveUp, lastReq, lastResp>>

(* A mutant: the timestamp stays in the error queue.                       *)
PeekTimestamp ==
  /\ wpc = "read"
  /\ attempts < maxTXTS
  /\ errq # <<>>
  /\ oob' = Head(errq)
  /\ txfound' = TRUE
  /\ attempts' = attempts + 1
  /\ UNCHANGED <<wqueue, wpc, wsub, syncs, kernelVars, packetVars, bufVars, handlerVars,
                 seqVars, ticks, gaveUp, lastReq, lastResp>>

(* ReadTXtimestampBuf, one attempt with a timestamp in the error queue:    *)
(* keep it and look for a newer one.                                       *)
RecvTimestamp ==
  /\ wpc = "read"
  /\ attempts < maxTXTS
  /\ errq # <<>>
  /\ oob' = Head(errq) /\ errq' = Tail(errq)
  /\ txfound' = TRUE
  /\ attempts' = attempts + 1
  /\ UNCHANGED <<wqueue, wpc, wsub, syncs, pending, packetVars, bufVars, handlerVars,
                 seqVars, ticks, gaveUp, lastReq, lastResp>>

(* A mutant: failed attempts are not counted.                              *)
RetryForever ==
  /\ wpc = "read"
  /\ attempts < maxTXTS
  /\ errq = <<>>
  /\ wpc' = IF txfound THEN "found" ELSE wpc
  /\ UNCHANGED <<wqueue, wsub, syncs, readVars, kernelVars, packetVars, bufVars,
                 handlerVars, seqVars, ticks, gaveUp, lastReq, lastResp>>

(* ReadTXtimestampBuf, one attempt, after a poll of 1 ms, that finds the   *)
(* error queue empty.                                                      *)
RecvNothing ==
  /\ wpc = "read"
  /\ attempts < maxTXTS
  /\ errq = <<>>
  /\ IF txfound
     THEN wpc' = "found" /\ UNCHANGED attempts
     ELSE attempts' = attempts + 1 /\ UNCHANGED wpc
  /\ UNCHANGED <<wqueue, wsub, syncs, txfound, oob, kernelVars, packetVars, bufVars,
                 handlerVars, seqVars, ticks, gaveUp, lastReq, lastResp>>

(* ReadTXtimestampBuf, no attempts left.                                   *)
AttemptsUsedUp ==
  /\ wpc = "read"
  /\ attempts = maxTXTS
  /\ IF txfound
     THEN wpc' = "found" /\ UNCHANGED <<wsub, gaveUp>>
     ELSE Continue /\ gaveUp' = TRUE
  /\ UNCHANGED <<wqueue, syncs, readVars, kernelVars, packetVars, bufVars, handlerVars,
                 seqVars, ticks, lastReq, lastResp>>

(* UpdateFollowup(txTS) and Sendto.                                        *)
SendFollowUp ==
  /\ wpc = "found"
  /\ followed' = [followed EXCEPT ![wsub] = TRUE]
  /\ lastTS' = oob
  /\ IncSequenceID(wsub)
  /\ Continue
  /\ UNCHANGED <<wqueue, syncs, readVars, kernelVars, packetVars, bufVars, handlerVars,
                 lastSeq, ticks, gaveUp, lastReq, lastResp>>

(* UpdateAnnounce and Sendto.                                              *)
SendAnnounce ==
  /\ wpc = "announce"
  /\ IncSequenceID(wsub)
  /\ Continue
  /\ UNCHANGED <<wqueue, syncs, readVars, kernelVars, packetVars, bufVars, handlerVars,
                 lastSeq, followed, lastTS, ticks, gaveUp, lastReq, lastResp>>

(* A packet cannot be generated or sent, or the control message holds no   *)
(* timestamp: log it and continue, without IncSequenceID.                  *)
SendFails ==
  /\ wpc \in {"sync", "found", "announce", "send"}
  /\ Continue
  /\ UNCHANGED <<wqueue, syncs, readVars, kernelVars, packetVars, bufVars, handlerVars,
                 seqVars, ticks, gaveUp, lastReq, lastResp>>

(* The driver: the oldest TX timestamp reaches the error queue, or is lost.*)
Deliver ==
  /\ pending # <<>>
  /\ pending' = Tail(pending)
  /\ errq' = Append(errq, Head(pending))
  /\ UNCHANGED <<wqueue, wpc, wsub, syncs, readVars, packetVars, bufVars, handlerVars,
                 seqVars, ticks, gaveUp, lastReq, lastResp>>

LoseTimestamp ==
  /\ pending # <<>>
  /\ pending' = Tail(pending)
  /\ UNCHANGED <<wqueue, wpc, wsub, syncs, errq, readVars, packetVars, bufVars,
                 handlerVars, seqVars, ticks, gaveUp, lastReq, lastResp>>

-----------------------------------------------------------------------------
(* Delay_Req and Delay_Resp *)

(* BytesTo(c.DelayResp()): the header and then the body are read from the  *)
(* shared packet, without a lock.  lastResp is what is handed to Sendto.   *)
SerialiseHeader ==
  /\ wpc = "header"
  /\ bufSeq' = respSeq[wsub]
  /\ wpc' = "body"
  /\ UNCHANGED <<wqueue, wsub, syncs, readVars, kernelVars, packetVars, bufBody,
                 handlerVars, seqVars, ticks, gaveUp, lastReq, lastResp>>

SerialiseBody ==
  /\ wpc = "body"
  /\ bufBody' = respBody[wsub]
  /\ lastResp' = [lastResp EXCEPT ![wsub] = <<bufSeq, bufBody'>>]
  /\ wpc' = "send"
  /\ UNCHANGED <<wqueue, wsub, syncs, readVars, kernelVars, packetVars, bufSeq,
                 handlerVars, seqVars, ticks, gaveUp, lastReq>>

SendDelayResp ==
  /\ wpc = "send"
  /\ IncSequenceID(wsub)
  /\ Continue
  /\ UNCHANGED <<wqueue, syncs, readVars, kernelVars, packetVars, bufVars, handlerVars,
                 lastSeq, followed, lastTS, ticks, gaveUp, lastReq, lastResp>>

(* handleEventMessages: a Delay_Req of a client with a Delay_Resp          *)
(* subscription.                                                           *)
ReceiveDelayReq(h, c) ==
  /\ hpc[h] = "idle"
  /\ reqs < MaxReqs
  /\ reqs' = reqs + 1
  /\ hreq' = [hreq EXCEPT ![h] = reqs + 1]
  /\ hsub' = [hsub EXCEPT ![h] = c]
  /\ hpc' = [hpc EXCEPT ![h] = "seq"]
  /\ lastReq' = [lastReq EXCEPT ![c] = reqs + 1]
  /\ UNCHANGED <<wqueue, wpc, wsub, syncs, readVars, kernelVars, packetVars, bufVars,
                 seqVars, ticks, gaveUp, lastResp>>

(* UpdateDelayResp: SequenceID (and CorrectionField, which goes with it),  *)
(* then the body, without a lock.                                          *)
UpdateSequenceID(h) ==
  /\ hpc[h] = "seq"
  /\ respSeq' = [respSeq EXCEPT ![hsub[h]] = hreq[h]]
  /\ hpc' = [hpc EXCEPT ![h] = "body"]
  /\ UNCHANGED <<wqueue, wpc, wsub, syncs, readVars, kernelVars, respBody, bufVars,
                 reqs, hreq, hsub, seqVars, ticks, gaveUp, lastReq, lastResp>>

UpdateBody(h) ==
  /\ hpc[h] = "body"
  /\ respBody' = [respBody EXCEPT ![hsub[h]] = hreq[h]]
  /\ hpc' = [hpc EXCEPT ![h] = "once"]
  /\ UNCHANGED <<wqueue, wpc, wsub, syncs, readVars, kernelVars, respSeq, bufVars,
                 reqs, hreq, hsub, seqVars, ticks, gaveUp, lastReq, lastResp>>

(* A mutant: a handler does not wait for room in the queue.                *)
EnqueueOrDrop(h) ==
  /\ hpc[h] = "once"
  /\ Enqueue(hsub[h]) \/ UNCHANGED <<wqueue, wpc, wsub>>
  /\ hpc' = [hpc EXCEPT ![h] = "idle"]
  /\ hreq' = [hreq EXCEPT ![h] = 0]
  /\ hsub' = [hsub EXCEPT ![h] = NoWork]
  /\ UNCHANGED <<syncs, readVars, kernelVars, packetVars, bufVars, reqs, seqVars,
                 ticks, gaveUp, lastReq, lastResp>>

(* sc.Once(): the handler reads no other packet until the queue has room.  *)
EnqueueDelayResp(h) ==
  /\ hpc[h] = "once"
  /\ Enqueue(hsub[h])
  /\ hpc' = [hpc EXCEPT ![h] = "idle"]
  /\ hreq' = [hreq EXCEPT ![h] = 0]
  /\ hsub' = [hsub EXCEPT ![h] = NoWork]
  /\ UNCHANGED <<syncs, readVars, kernelVars, packetVars, bufVars, reqs, seqVars,
                 ticks, gaveUp, lastReq, lastResp>>

-----------------------------------------------------------------------------

Worker ==
  \/ ServeNext \/ SendSync \/ RecvTimestamp \/ RecvNothing \/ AttemptsUsedUp
  \/ SendFollowUp \/ SendAnnounce \/ SendFails
  \/ SerialiseHeader \/ SerialiseBody \/ SendDelayResp

EventHandler(h) == UpdateSequenceID(h) \/ UpdateBody(h) \/ EnqueueDelayResp(h)

WorkerNext ==
  \/ Worker
  \/ \E c \in SyncSubs \cup AnnounceSubs : SenderTick(c)
  \/ \E h \in Handlers, c \in DelaySubs : ReceiveDelayReq(h, c)
  \/ \E h \in Handlers : EventHandler(h)
  \/ Deliver \/ LoseTimestamp

WorkerSpec == WorkerInit /\ [][WorkerNext]_workerVars

(* Goroutines keep being scheduled, and Go wakes the goroutines blocked on *)
(* a channel in the order they blocked.  The driver owes nothing.          *)
FairWorkerSpec ==
  /\ WorkerSpec
  /\ WF_workerVars(Worker)
  /\ \A h \in Handlers :
       WF_workerVars(EventHandler(h)) /\ SF_workerVars(EnqueueDelayResp(h))

-----------------------------------------------------------------------------
(* Properties *)

WorkerPcs == {"idle", "sync", "read", "found", "announce", "header", "body", "send"}

(* Every variable has the shape the code gives it.                         *)
WorkerTypeOK ==
  /\ wqueue \in Seq(Subs) /\ Len(wqueue) <= WorkerQueueSize
  /\ wpc \in WorkerPcs
  /\ wsub \in Subs \cup {NoWork}
  /\ sequenceID \in [Subs -> 0 .. SeqIDs - 1]
  /\ syncs \in Nat /\ ticks \in 0 .. MaxTicks /\ reqs \in 0 .. MaxReqs
  /\ pending \in Seq(Nat) /\ errq \in Seq(Nat)
  /\ attempts \in 0 .. maxTXTS /\ txfound \in BOOLEAN /\ oob \in Nat
  /\ respSeq \in [DelaySubs -> Nat] /\ respBody \in [DelaySubs -> Nat]
  /\ bufSeq \in Nat /\ bufBody \in Nat
  /\ hpc \in [Handlers -> {"idle", "seq", "body", "once"}]
  /\ hreq \in [Handlers -> Nat]
  /\ hsub \in [Handlers -> DelaySubs \cup {NoWork}]
  /\ gaveUp \in BOOLEAN /\ lastTS \in Nat
  /\ lastSeq \in [SyncSubs -> -1 .. SeqIDs - 1] /\ followed \in [SyncSubs -> BOOLEAN]
  /\ lastReq \in [DelaySubs -> Nat] /\ lastResp \in [DelaySubs -> Nat \X Nat]

(* As long as ReadTXtimestampBuf has never given up, the timestamp it      *)
(* returns, and the FollowUp carries, is the one of the Sync just sent:    *)
(* the drain of the error queue cannot return an older one.                *)
OwnUnlessGaveUp == wpc = "found" /\ ~ gaveUp => oob = syncs

(* Whatever the driver delays or loses, no FollowUp carries the timestamp  *)
(* of an earlier FollowUp or an older one, nor one from the future.        *)
TimestampsAdvance == wpc = "found" => lastTS < oob /\ oob <= syncs

(* A Sync reuses the sequence ID of the subscription's previous Sync only  *)
(* if that one got no FollowUp, so that a FollowUp never matches two Syncs *)
(* in a row.                                                               *)
ReuseOnlyUnfollowed ==
  wpc = "sync" /\ sequenceID[wsub] = lastSeq[wsub] => ~ followed[wsub]

(* With one event handler: when a client's Delay_Resp subscription is      *)
(* neither queued nor being served and the handler is idle, the last       *)
(* Delay_Resp answered its last Delay_Req, with that request's time.       *)
QuietMeansAnswered ==
  \A c \in DelaySubs :
    /\ \A h \in Handlers : hsub[h] # c
    /\ wsub # c
    /\ \A i \in 1 .. Len(wqueue) : wqueue[i] # c
    => lastResp[c] = <<lastReq[c], lastReq[c]>>

(* The worker gets through its queue, and every client's last Delay_Req    *)
(* gets its Delay_Resp: neither lost TX timestamps nor a full queue stop   *)
(* the worker or the handlers.                                             *)
EverythingServed ==
  <>[] /\ wqueue = <<>> /\ wpc = "idle"
       /\ \A h \in Handlers : hpc[h] = "idle"
       /\ \A c \in DelaySubs : lastResp[c] = <<lastReq[c], lastReq[c]>>

(* A FollowUp carries the time its Sync was sent.                          *)
FollowUpOfItsSync == wpc = "found" => oob = syncs

=============================================================================
