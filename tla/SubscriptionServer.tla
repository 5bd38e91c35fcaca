------------------------- MODULE SubscriptionServer -------------------------
(***************************************************************************)
(* The subscription life cycle of the ptp4u unicast PTP server             *)
(* (src/ptp/ptp4u/server).  RecvWorkers goroutines handle signaling TLVs   *)
(* from the general socket (handleGeneralMessages): each one finds or      *)
(* registers a SubscriptionClient in the table of the send worker that     *)
(* owns the client, renews it, rejects it or launches a goroutine          *)
(* (SubscriptionClient.Start, here a sender) that puts the subscription    *)
(* into the worker's queue on every tick until it has expired.  A metrics  *)
(* goroutine removes table entries that are not running.                   *)
(*                                                                         *)
(* A step is what one goroutine does between two accesses to shared        *)
(* state, so the model has every interleaving the code has.  Expiry times  *)
(* are kept as the time left until them: the clock's Tick takes one from   *)
(* each, and what has passed stays at Past.  A ticker may fire at any      *)
(* moment, which covers every interval.  Every TLV of a run has a number:  *)
(* the subscription it registers and the sender it launches, if any, carry *)
(* that number.                                                            *)
(***************************************************************************)
EXTENDS Integers, Sequences, FiniteSets

CONSTANTS
  Keys,            \* pairs (client port identity, message type)
  DelayRespKeys,   \* the keys whose message type is Delay_Resp
  Workers,         \* send workers
  WorkerOf,        \* findWorker: the send worker of a key's client
  RecvWorkers,     \* goroutines that run handleGeneralMessages
  Durations,       \* durations a client may ask for
  Intervals,       \* intervals a client may ask for
  MinSubInterval, MaxSubDuration, QueueSize,   \* Config
  MaxTLVs          \* bound: TLVs handled in a behaviour

Ids   == 1 .. MaxTLVs
NoSub == 0
NoKey == 0
Past  == -1

ASSUME ConfigAssumption ==
  /\ NoKey \notin Keys
  /\ DelayRespKeys \subseteq Keys
  /\ WorkerOf \in [Keys -> Workers]
  /\ Durations \subseteq Nat
  /\ Intervals \subseteq Nat \ {0}   \* tickers accept no other
  /\ MinSubInterval \in Nat
  /\ MaxSubDuration \in Nat
  /\ QueueSize \in Nat
  /\ MaxTLVs \in Nat

VARIABLES
  ntlv,         \* TLVs received so far
  clients,      \* sendWorker.clients: key -> registered subscription or NoSub
  \* the SubscriptionClient objects
  key,          \* NoKey until the object exists
  expire, interval, running,
  grant,        \* the duration in its grant packet
  \* the receive goroutines
  rpc,          \* where each one is
  tlv,          \* the TLV it handles
  rexpire,      \* local variable expire
  rsc,          \* local variable sc
  \* the sender goroutines
  spc, ssc, ticker, oldInterval,
  \* the send workers
  queue,        \* sendWorker.queue, the buffered part of the channel
  work,         \* the subscription being sent, or NoSub
  late          \* history: what a sender enqueued since its subscription ended

subVars  == <<key, expire, interval, running, grant>>
recvVars == <<rpc, tlv, rexpire, rsc>>
sndVars  == <<spc, ssc, ticker, oldInterval>>
workVars == <<queue, work>>
vars     == <<ntlv, clients, subVars, recvVars, sndVars, workVars, late>>

NoTLV == [id |-> NoSub, key |-> NoKey, duration |-> 0, interval |-> 0]

Init ==
  /\ ntlv = 0
  /\ clients = [k \in Keys |-> NoSub]
  /\ key = [s \in Ids |-> NoKey]
  /\ expire = [s \in Ids |-> Past]
  /\ interval = [s \in Ids |-> 0]
  /\ running = [s \in Ids |-> FALSE]
  /\ grant = [s \in Ids |-> 0]
  /\ rpc = [r \in RecvWorkers |-> "idle"]
  /\ tlv = [r \in RecvWorkers |-> NoTLV]
  /\ rexpire = [r \in RecvWorkers |-> Past]
  /\ rsc = [r \in RecvWorkers |-> NoSub]
  /\ spc = [q \in Ids |-> "none"]
  /\ ssc = [q \in Ids |-> NoSub]
  /\ ticker = [q \in Ids |-> 0]
  /\ oldInterval = [q \in Ids |-> 0]
  /\ queue = [w \in Workers |-> <<>>]
  /\ work = [w \in Workers |-> NoSub]
  /\ late = [q \in Ids |-> 0]

-----------------------------------------------------------------------------
(* SubscriptionClient *)

(* Expired: strictly after the expiry, so a subscription stopped at this   *)
(* very instant is not expired yet.                                        *)
Expired(s) == expire[s] = Past

SendsOnTick(s) == key[s] \notin DelayRespKeys

(* sc.queue <- sc: blocks unless the buffer has room or, with nothing      *)
(* buffered, the worker is waiting in range s.queue.                       *)
Once(s) ==
  LET w == WorkerOf[key[s]] IN
  \/ /\ Len(queue[w]) < QueueSize
     /\ queue' = [queue EXCEPT ![w] = Append(@, s)]
     /\ UNCHANGED work
  \/ /\ queue[w] = <<>>
     /\ work[w] = NoSub
     /\ work' = [work EXCEPT ![w] = s]
     /\ UNCHANGED queue

SenderGoto(q, pc) == spc' = [spc EXCEPT ![q] = pc]

(* A sender's enqueue; late counts the ones made after the subscription    *)
(* expired.                                                                *)
SenderOnce(q) ==
  /\ Once(ssc[q])
  /\ late' = IF Expired(ssc[q]) THEN [late EXCEPT ![q] = @ + 1] ELSE late

(* A mutant: setRunning cannot clear the flag.                             *)
SetRunningOnce(s, b) == running' = [running EXCEPT ![s] = @ \/ b]

SetRunning(s, b) == running' = [running EXCEPT ![s] = b]

(* Start, setRunning(true).                                                *)
StartRunning(q) ==
  /\ spc[q] = "new"
  /\ SetRunning(ssc[q], TRUE)
  /\ SenderGoto(q, IF SendsOnTick(ssc[q]) THEN "first" ELSE "ticker")
  /\ UNCHANGED <<ntlv, clients, key, expire, interval, grant, recvVars,
                 ssc, ticker, oldInterval, workVars, late>>

(* Start, the first message, sent right away and without looking at the    *)
(* expiry.                                                                 *)
SendFirst(q) ==
  /\ spc[q] = "first"
  /\ SenderOnce(q)
  /\ SenderGoto(q, "ticker")
  /\ UNCHANGED <<ntlv, clients, subVars, recvVars, ssc, ticker, oldInterval>>

(* Start, intervalTicker := time.NewTicker(sc.interval).                   *)
NewTicker(q) ==
  /\ spc[q] = "ticker"
  /\ ticker' = [ticker EXCEPT ![q] = interval[ssc[q]]]
  /\ SenderGoto(q, "remember")
  /\ UNCHANGED <<ntlv, clients, subVars, recvVars, ssc, oldInterval, workVars, late>>

(* Start, oldInterval := sc.interval: a second, unlocked read.             *)
RememberInterval(q) ==
  /\ spc[q] = "remember"
  /\ oldInterval' = [oldInterval EXCEPT ![q] = interval[ssc[q]]]
  /\ SenderGoto(q, "wait")
  /\ UNCHANGED <<ntlv, clients, subVars, recvVars, ssc, ticker, workVars, late>>

(* A mutant: a tick does not look at the expiry.                           *)
TickerFiresUnchecked(q) ==
  /\ spc[q] = "wait"
  /\ SenderGoto(q, "compare")
  /\ UNCHANGED <<ntlv, clients, subVars, recvVars, ssc, ticker, oldInterval,
                 workVars, late>>

(* Start, a tick: leave the loop when expired.                             *)
TickerFires(q) ==
  /\ spc[q] = "wait"
  /\ SenderGoto(q, IF Expired(ssc[q]) THEN "exit" ELSE "compare")
  /\ UNCHANGED <<ntlv, clients, subVars, recvVars, ssc, ticker, oldInterval,
                 workVars, late>>

(* Start, where the loop body goes after the interval has been looked at.  *)
AfterInterval(q) == IF SendsOnTick(ssc[q]) THEN "send" ELSE "wait"

(* Start, oldInterval != sc.interval: reset the ticker.                    *)
CompareInterval(q) ==
  /\ spc[q] = "compare"
  /\ IF oldInterval[q] # interval[ssc[q]]
     THEN /\ ticker' = [ticker EXCEPT ![q] = interval[ssc[q]]]
          /\ SenderGoto(q, "store")
     ELSE /\ SenderGoto(q, AfterInterval(q))
          /\ UNCHANGED ticker
  /\ UNCHANGED <<ntlv, clients, subVars, recvVars, ssc, oldInterval, workVars, late>>

(* Start, oldInterval = sc.interval: another unlocked read.                *)
StoreInterval(q) ==
  /\ spc[q] = "store"
  /\ oldInterval' = [oldInterval EXCEPT ![q] = interval[ssc[q]]]
  /\ SenderGoto(q, AfterInterval(q))
  /\ UNCHANGED <<ntlv, clients, subVars, recvVars, ssc, ticker, workVars, late>>

(* Start, the message of this tick.                                        *)
SendOnTick(q) ==
  /\ spc[q] = "send"
  /\ SenderOnce(q)
  /\ SenderGoto(q, "wait")
  /\ UNCHANGED <<ntlv, clients, subVars, recvVars, ssc, ticker, oldInterval>>

(* Start, the deferred setRunning(false); the goroutine is gone.           *)
StopRunning(q) ==
  /\ spc[q] = "exit"
  /\ SetRunning(ssc[q], FALSE)
  /\ SenderGoto(q, "done")
  /\ ssc' = [ssc EXCEPT ![q] = NoSub]
  /\ ticker' = [ticker EXCEPT ![q] = 0]
  /\ oldInterval' = [oldInterval EXCEPT ![q] = 0]
  /\ late' = [late EXCEPT ![q] = 0]
  /\ UNCHANGED <<ntlv, clients, key, expire, interval, grant, recvVars, workVars>>

Sender(q) ==
  \/ StartRunning(q) \/ SendFirst(q) \/ NewTicker(q) \/ RememberInterval(q)
  \/ TickerFires(q) \/ CompareInterval(q) \/ StoreInterval(q)
  \/ SendOnTick(q) \/ StopRunning(q)

-----------------------------------------------------------------------------
(* handleGeneralMessages.  The expiry a handler has computed is forgotten  *)
(* (Past) once it has been stored in the subscription.                     *)

RecvGoto(r, pc) == rpc' = [rpc EXCEPT ![r] = pc]

(* The handler is back in the read loop.                                   *)
RecvDone(r) ==
  /\ RecvGoto(r, "idle")
  /\ tlv' = [tlv EXCEPT ![r] = NoTLV]
  /\ rsc' = [rsc EXCEPT ![r] = NoSub]

(* A RequestUnicastTransmission TLV is read; its expiry is computed from   *)
(* the clock at this moment, and so runs on while it is being handled.     *)
ReceiveRequest(r, k, d, i) ==
  /\ rpc[r] = "idle"
  /\ ntlv < MaxTLVs
  /\ ntlv' = ntlv + 1
  /\ tlv' = [tlv EXCEPT ![r] =
               [id |-> ntlv + 1, key |-> k, duration |-> d, interval |-> i]]
  /\ rexpire' = [rexpire EXCEPT ![r] = d]
  /\ RecvGoto(r, "find")
  /\ UNCHANGED <<clients, subVars, rsc, sndVars, workVars, late>>

(* A mutant: the lookup misses a subscription that is not running.         *)
FindRunning(r) ==
  /\ rpc[r] = "find"
  /\ rsc' = [rsc EXCEPT ![r] = clients[tlv[r].key]]
  /\ RecvGoto(r, IF clients[tlv[r].key] = NoSub \/ ~ running[clients[tlv[r].key]]
                 THEN "register" ELSE "update")
  /\ UNCHANGED <<ntlv, clients, subVars, tlv, rexpire, sndVars, workVars, late>>

(* FindSubscription, under the worker's mutex.                             *)
FindSubscription(r) ==
  /\ rpc[r] = "find"
  /\ rsc' = [rsc EXCEPT ![r] = clients[tlv[r].key]]
  /\ RecvGoto(r, IF clients[tlv[r].key] = NoSub THEN "register" ELSE "update")
  /\ UNCHANGED <<ntlv, clients, subVars, tlv, rexpire, sndVars, workVars, late>>

(* Reject queries out of limit.                                            *)
OutOfLimit(r) ==
  tlv[r].interval < MinSubInterval \/ tlv[r].duration > MaxSubDuration

AfterLookup(r) == IF OutOfLimit(r) THEN "reject" ELSE "running"

(* NewSubscriptionClient and RegisterSubscription: whatever the table has  *)
(* by now under this key is overwritten.                                   *)
RegisterSubscription(r) ==
  LET s == tlv[r].id IN
  /\ rpc[r] = "register"
  /\ key' = [key EXCEPT ![s] = tlv[r].key]
  /\ expire' = [expire EXCEPT ![s] = rexpire[r]]
  /\ interval' = [interval EXCEPT ![s] = tlv[r].interval]
  /\ clients' = [clients EXCEPT ![tlv[r].key] = s]
  /\ rsc' = [rsc EXCEPT ![r] = s]
  /\ rexpire' = [rexpire EXCEPT ![r] = Past]
  /\ RecvGoto(r, AfterLookup(r))
  /\ UNCHANGED <<ntlv, running, grant, tlv, sndVars, workVars, late>>

(* The senders of s start counting late messages from zero when s is       *)
(* given a new lease of life.                                              *)
RenewLate(s, e) ==
  late' = [q \in Ids |-> IF ssc[q] = s /\ e # Past THEN 0 ELSE late[q]]

(* Update existing subscription data: before the limits are looked at, and *)
(* without the subscription's lock.  Expired compares the monotonic word   *)
(* of expire, so the unlocked write is seen whole.                         *)
UpdateExpire(r) ==
  /\ rpc[r] = "update"
  /\ expire' = [expire EXCEPT ![rsc[r]] = rexpire[r]]
  /\ RenewLate(rsc[r], rexpire[r])
  /\ rexpire' = [rexpire EXCEPT ![r] = Past]
  /\ RecvGoto(r, "interval")
  /\ UNCHANGED <<ntlv, clients, key, interval, running, grant, tlv, rsc, sndVars,
                 workVars>>

UpdateInterval(r) ==
  /\ rpc[r] = "interval"
  /\ interval' = [interval EXCEPT ![rsc[r]] = tlv[r].interval]
  /\ RecvGoto(r, AfterLookup(r))
  /\ UNCHANGED <<ntlv, clients, key, expire, running, grant, tlv, rexpire, rsc,
                 sndVars, workVars, late>>

(* if !sc.Running() { go sc.Start() }: running is only set once the new    *)
(* goroutine has been scheduled.                                           *)
LaunchIfNotRunning(r) ==
  /\ rpc[r] = "running"
  /\ IF running[rsc[r]]
     THEN UNCHANGED <<spc, ssc>>
     ELSE /\ spc' = [spc EXCEPT ![tlv[r].id] = "new"]
          /\ ssc' = [ssc EXCEPT ![tlv[r].id] = rsc[r]]
  /\ RecvGoto(r, "confirm")
  /\ UNCHANGED <<ntlv, clients, subVars, tlv, rexpire, rsc, ticker, oldInterval,
                 workVars, late>>

(* The duration sendGrant is called with: 0 rejects the query.             *)
Decided(r) == IF rpc[r] \in {"reject", "rejected"} THEN 0 ELSE tlv[r].duration

(* sendGrant, UpdateGrant: fill in the subscription's only grant packet.   *)
UpdateGrant(r) ==
  /\ rpc[r] \in {"reject", "confirm"}
  /\ grant' = [grant EXCEPT ![rsc[r]] = Decided(r)]
  /\ RecvGoto(r, IF rpc[r] = "reject" THEN "rejected" ELSE "confirmed")
  /\ UNCHANGED <<ntlv, clients, key, expire, interval, running, tlv, rexpire, rsc,
                 sndVars, workVars, late>>

(* sendGrant, the packet is serialised and sent as it is now.              *)
SendGrant(r) ==
  /\ rpc[r] \in {"rejected", "confirmed"}
  /\ RecvDone(r)
  /\ UNCHANGED <<ntlv, clients, subVars, rexpire, sndVars, workVars, late>>

(* A CancelUnicastTransmission TLV is read.                                *)
ReceiveCancel(r, k) ==
  /\ rpc[r] = "idle"
  /\ ntlv < MaxTLVs
  /\ ntlv' = ntlv + 1
  /\ tlv' = [tlv EXCEPT ![r] =
               [id |-> ntlv + 1, key |-> k, duration |-> 0, interval |-> 0]]
  /\ RecvGoto(r, "cancel")
  /\ UNCHANGED <<clients, subVars, rexpire, rsc, sndVars, workVars, late>>

(* FindSubscription again; a client without a subscription is ignored.     *)
FindToCancel(r) ==
  /\ rpc[r] = "cancel"
  /\ IF clients[tlv[r].key] = NoSub
     THEN RecvDone(r)
     ELSE /\ rsc' = [rsc EXCEPT ![r] = clients[tlv[r].key]]
          /\ RecvGoto(r, "stop")
          /\ UNCHANGED tlv
  /\ UNCHANGED <<ntlv, clients, subVars, rexpire, sndVars, workVars, late>>

(* Stop: the subscription expires now; its senders notice on a tick.       *)
Stop(r) ==
  /\ rpc[r] = "stop"
  /\ expire' = [expire EXCEPT ![rsc[r]] = 0]
  /\ RenewLate(rsc[r], 0)
  /\ RecvDone(r)
  /\ UNCHANGED <<ntlv, clients, key, interval, running, grant, rexpire, sndVars,
                 workVars>>

Handle(r) ==
  \/ FindSubscription(r) \/ RegisterSubscription(r)
  \/ UpdateExpire(r) \/ UpdateInterval(r) \/ LaunchIfNotRunning(r)
  \/ UpdateGrant(r) \/ SendGrant(r) \/ FindToCancel(r) \/ Stop(r)

Receive(r) ==
  \/ \E k \in Keys, d \in Durations, i \in Intervals : ReceiveRequest(r, k, d, i)
  \/ \E k \in Keys : ReceiveCancel(r, k)

-----------------------------------------------------------------------------
(* The send worker, the metrics goroutine and the clock *)

(* for c = range s.queue.                                                  *)
Dequeue(w) ==
  /\ work[w] = NoSub
  /\ queue[w] # <<>>
  /\ work' = [work EXCEPT ![w] = Head(queue[w])]
  /\ queue' = [queue EXCEPT ![w] = Tail(@)]
  /\ UNCHANGED <<ntlv, clients, subVars, recvVars, sndVars, late>>

(* The body of the worker's loop, whichever way it ends; module SendWorker *)
(* has its steps.                                                          *)
Transmit(w) ==
  /\ work[w] # NoSub
  /\ work' = [work EXCEPT ![w] = NoSub]
  /\ UNCHANGED <<ntlv, clients, subVars, recvVars, sndVars, queue, late>>

(* inventoryClients, one entry: delete it unless it is running.            *)
InventoryClient(k) ==
  /\ clients[k] # NoSub
  /\ ~ running[clients[k]]
  /\ clients' = [clients EXCEPT ![k] = NoSub]
  /\ UNCHANGED <<ntlv, subVars, recvVars, sndVars, workVars, late>>

OneLess(t) == IF t = Past THEN Past ELSE t - 1

(* The clock moves on.                                                     *)
Tick ==
  /\ expire' = [s \in Ids |-> OneLess(expire[s])]
  /\ rexpire' = [r \in RecvWorkers |-> OneLess(rexpire[r])]
  /\ UNCHANGED <<ntlv, clients, key, interval, running, grant, rpc, tlv, rsc,
                 sndVars, workVars, late>>

Next ==
  \/ \E r \in RecvWorkers : Receive(r) \/ Handle(r)
  \/ \E q \in Ids : Sender(q)
  \/ \E w \in Workers : Dequeue(w) \/ Transmit(w)
  \/ \E k \in Keys : InventoryClient(k)
  \/ Tick

Spec == Init /\ [][Next]_vars

Live(q) == spc[q] \notin {"none", "done"}

(* Every handler, sender and worker is scheduled again and again, tickers  *)
(* and the clock keep running and the metrics goroutine comes round; no    *)
(* packet ever has to arrive.  Go wakes the goroutines blocked on a        *)
(* channel in the order they blocked, hence strong fairness of the sends.  *)
Fairness ==
  /\ \A r \in RecvWorkers : WF_vars(Handle(r))
  /\ \A q \in Ids : WF_vars(Sender(q)) /\ SF_vars(SendFirst(q) \/ SendOnTick(q))
  /\ \A w \in Workers : WF_vars(Dequeue(w) \/ Transmit(w))
  /\ \A k \in Keys : WF_vars(InventoryClient(k))
  /\ WF_vars(Tick)

FairSpec == Spec /\ Fairness

-----------------------------------------------------------------------------
(* Properties *)

RecvPcs == {"idle", "find", "register", "update", "interval", "running", "confirm",
            "reject", "confirmed", "rejected", "cancel", "stop"}
SenderPcs == {"none", "new", "first", "ticker", "remember", "wait", "compare",
              "store", "send", "exit", "done"}

(* Every variable has the shape the code gives it.                         *)
TypeOK ==
  /\ ntlv \in 0 .. MaxTLVs
  /\ clients \in [Keys -> Ids \cup {NoSub}]
  /\ key \in [Ids -> Keys \cup {NoKey}]
  /\ expire \in [Ids -> Nat \cup {Past}]
  /\ interval \in [Ids -> Nat]
  /\ running \in [Ids -> BOOLEAN]
  /\ grant \in [Ids -> Nat]
  /\ rpc \in [RecvWorkers -> RecvPcs]
  /\ tlv \in [RecvWorkers -> [id : Ids \cup {NoSub}, key : Keys \cup {NoKey},
                              duration : Nat, interval : Nat]]
  /\ rexpire \in [RecvWorkers -> Nat \cup {Past}]
  /\ rsc \in [RecvWorkers -> Ids \cup {NoSub}]
  /\ spc \in [Ids -> SenderPcs]
  /\ ssc \in [Ids -> Ids \cup {NoSub}]
  /\ ticker \in [Ids -> Nat]
  /\ oldInterval \in [Ids -> Nat]
  /\ queue \in [Workers -> Seq(Ids)]
  /\ work \in [Workers -> Ids \cup {NoSub}]
  /\ late \in [Ids -> Nat]

(* A subscription that says it is running has a sender between             *)
(* setRunning(true) and the deferred setRunning(false), however many       *)
(* senders were launched for it by requests that raced with Running():     *)
(* what inventoryClients keeps and counts is never a dead entry.           *)
RunningHasSender ==
  \A s \in Ids : running[s] =>
    \E q \in Ids : ssc[q] = s /\ spc[q] \notin {"none", "new", "done"}

(* Once a subscription has expired or was cancelled, each sender of it     *)
(* puts at most one more message into the worker's queue (the first one of *)
(* Start, or one whose tick looked at the expiry just before), unless a    *)
(* request renews it.                                                      *)
AtMostOneLate == \A q \in Ids : late[q] <= 1

(* With no more signaling, every sender ends, nothing stays blocked on a   *)
(* queue and the inventory empties the table: overwritten and doubly       *)
(* launched subscriptions do not leak goroutines.                          *)
Quiesces ==
  <>[] /\ \A q \in Ids : ~ Live(q)
       /\ \A k \in Keys : clients[k] = NoSub
       /\ \A w \in Workers : queue[w] = <<>> /\ work[w] = NoSub
       /\ \A r \in RecvWorkers : rpc[r] = "idle"

(* RegisterSubscription never overwrites an existing subscription: between *)
(* a FindSubscription that returned nil and the registration nobody else   *)
(* registers one for the same client and type.  So it is with one receive  *)
(* worker; with more, the lookup and the registration are not atomic.      *)
NeverOverwritten ==
  [][\A k \in Keys : clients[k] # NoSub => clients'[k] \in {clients[k], NoSub}]_vars

=============================================================================
