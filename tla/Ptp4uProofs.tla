---------------------------- MODULE Ptp4uProofs -----------------------------
(***************************************************************************)
(* Proofs about ptp4u, for every value of the constants.  The subscription *)
(* table keeps its type invariant and its two safety invariants            *)
(* (SubscriptionServer).  The send worker's FollowUps carry newer and      *)
(* newer timestamps, its sequence IDs move and, with one event handler,    *)
(* its Delay_Resps answer (SendWorker).  The statistics report every       *)
(* counted increment once and the latest inventory, keep their maxima and  *)
(* reply with values of one round (Stats).                                 *)
(***************************************************************************)
EXTENDS SubscriptionServer, SendWorker, Stats, TLAPS

-----------------------------------------------------------------------------
(* Subscriptions *)

(* A TLV's number is in use by at most one handler, and the numbers not    *)
(* given out yet have neither a subscription nor a sender.                 *)
Numbering ==
  /\ \A r \in RecvWorkers : rpc[r] # "idle" =>
       tlv[r].id \in Ids /\ tlv[r].id <= ntlv /\ tlv[r].key \in Keys
  /\ \A r, t \in RecvWorkers :
       r # t /\ rpc[r] # "idle" /\ rpc[t] # "idle" => tlv[r].id # tlv[t].id
  /\ \A r \in RecvWorkers : rpc[r] \in {"find", "register"} => key[tlv[r].id] = NoKey
  /\ \A r \in RecvWorkers :
       rpc[r] \in {"find", "register", "update", "interval", "running"} =>
         spc[tlv[r].id] = "none"
  /\ \A i \in Ids : i > ntlv => key[i] = NoKey /\ spc[i] = "none"

(* Handlers, senders and table entries refer to registered subscriptions,  *)
(* and a table entry to one registered under its key.                      *)
References ==
  /\ \A k \in Keys : clients[k] # NoSub => key[clients[k]] = k
  /\ \A r \in RecvWorkers :
       rpc[r] \in {"update", "interval", "running", "confirm", "reject",
                   "confirmed", "rejected", "stop"} =>
         rsc[r] \in Ids /\ key[rsc[r]] \in Keys
  /\ \A q \in Ids : Live(q) => ssc[q] \in Ids /\ key[ssc[q]] \in Keys

(* Where a sender that has sent its one late message can be: past the      *)
(* enqueue, and about to find its subscription expired on the next tick.   *)
LateCounted ==
  \A q \in Ids : late[q] # 0 =>
    /\ late[q] = 1
    /\ spc[q] \in {"ticker", "remember", "wait", "exit"}
    /\ Expired(ssc[q])

(* The inductive invariant.                                                *)
IInv == TypeOK /\ Numbering /\ References /\ RunningHasSender /\ LateCounted

-----------------------------------------------------------------------------

(* The initial state satisfies the inductive invariant.                    *)
LEMMA InitIInv == Init => IInv
  BY ConfigAssumption DEF Init, IInv, TypeOK, Numbering, References,
     RunningHasSender, LateCounted, Live, Ids, NoSub, NoKey, NoTLV, Past,
     RecvPcs, SenderPcs

(* Putting a registered subscription into its worker's queue, or handing   *)
(* it to the idle worker, keeps the types of both.                         *)
LEMMA OnceType ==
  ASSUME TypeOK, NEW s \in Ids, key[s] \in Keys, Once(s)
  PROVE  queue' \in [Workers -> Seq(Ids)] /\ work' \in [Workers -> Ids \cup {NoSub}]
<1> DEFINE w == WorkerOf[key[s]]
<1>1. w \in Workers
  BY ConfigAssumption, Zenon
<1>2. queue[w] \in Seq(Ids)
  BY <1>1, Zenon DEF TypeOK
<1>3. Append(queue[w], s) \in Seq(Ids)
  BY <1>2
<1>4. CASE queue' = [queue EXCEPT ![w] = Append(queue[w], s)] /\ work' = work
  BY <1>1, <1>3, <1>4, Zenon DEF TypeOK
<1>5. CASE work' = [work EXCEPT ![w] = s] /\ queue' = queue
  BY <1>1, <1>5, Zenon DEF TypeOK
<1>6. QED
  BY <1>4, <1>5, Zenon DEF Once

-----------------------------------------------------------------------------
(* Frames: what a part of the invariant does not depend on *)

(* The numbering only depends on the handlers' TLVs and on which objects   *)
(* and senders exist.                                                      *)
LEMMA NumberingFrame ==
  ASSUME Numbering, UNCHANGED <<ntlv, rpc, tlv, key, spc>>
  PROVE  Numbering'
  BY Zenon DEF Numbering

(* References only depend on the table, the objects and the goroutines.    *)
LEMMA ReferencesFrame ==
  ASSUME References, UNCHANGED <<clients, key, rpc, rsc, spc, ssc>>
  PROVE  References'
  BY Zenon DEF References, Live

(* The running flags are only about senders.                               *)
LEMMA RunningFrame ==
  ASSUME RunningHasSender, UNCHANGED <<running, spc, ssc>>
  PROVE  RunningHasSender'
  BY Zenon DEF RunningHasSender

(* Late messages are only about senders and expiry times.                  *)
LEMMA LateFrame ==
  ASSUME LateCounted, UNCHANGED <<late, spc, ssc, expire>>
  PROVE  LateCounted'
  BY Zenon DEF LateCounted, Expired

(* A sender that goes from one line of Start to another, the last one      *)
(* excepted, keeps numbers and references and still backs its running flag.*)
LEMMA SenderMoves ==
  ASSUME IInv, NEW q \in Ids, NEW pc \in SenderPcs \ {"none", "new", "done"},
         spc[q] \notin {"none", "done"}, spc' = [spc EXCEPT ![q] = pc],
         UNCHANGED <<ntlv, clients, key, rpc, tlv, rsc, ssc>>
  PROVE  /\ Numbering' /\ References'
         /\ UNCHANGED running => RunningHasSender'
<1> USE DEF IInv
<1>1. spc'[q] = pc /\ \A i \in Ids : i # q => spc'[i] = spc[i]
  BY Zenon DEF TypeOK
<1>2. Numbering'
  <2>1. \A i \in Ids : spc[i] = "none" => spc'[i] = "none"
    BY <1>1, Zenon
  <2>2. \A r \in RecvWorkers : rpc[r] # "idle" => tlv[r].id \in Ids
    BY Zenon DEF Numbering
  <2>3. QED
    BY <2>1, <2>2, Zenon DEF Numbering
<1>3. References'
  <2>1. \A i \in Ids : Live(i)' => Live(i)
    BY <1>1, Zenon DEF Live
  <2>2. QED
    BY <2>1, Zenon DEF References
<1>4. ASSUME UNCHANGED running PROVE RunningHasSender'
  BY <1>1, <1>4 DEF RunningHasSender
<1>5. QED
  BY <1>2, <1>3, <1>4, Zenon

(* Where a handler is while its number has no object, and while it has no  *)
(* sender.                                                                 *)
Unregistered == {"find", "register"}
Unlaunched   == {"find", "register", "update", "interval", "running"}

(* The states of a handler that has found or registered a subscription.    *)
HasSubscription == {"update", "interval", "running", "confirm", "reject",
                    "confirmed", "rejected", "stop"}

(* A handler that goes on to another line without changing objects or      *)
(* senders keeps numbers and references, given that it holds the           *)
(* subscription it needs there.                                            *)
LEMMA HandlerMoves ==
  ASSUME IInv, NEW r \in RecvWorkers, NEW pc \in RecvPcs,
         rpc[r] # "idle", rpc' = [rpc EXCEPT ![r] = pc],
         pc \in Unregistered => rpc[r] \in Unregistered,
         pc \in Unlaunched => rpc[r] \in Unlaunched,
         pc \in HasSubscription => rsc'[r] \in Ids /\ key[rsc'[r]] \in Keys,
         \A t \in RecvWorkers : t # r => rsc'[t] = rsc[t],
         UNCHANGED <<ntlv, clients, key, tlv, spc, ssc>>
  PROVE  Numbering' /\ References'
<1> USE DEF IInv
<1>1. rpc'[r] = pc /\ \A t \in RecvWorkers : t # r => rpc'[t] = rpc[t]
  BY Zenon DEF TypeOK
<1>2. \A t \in RecvWorkers :
        /\ rpc'[t] # "idle" => rpc[t] # "idle"
        /\ rpc'[t] \in Unregistered => rpc[t] \in Unregistered
        /\ rpc'[t] \in Unlaunched => rpc[t] \in Unlaunched
  BY <1>1, Zenon
<1>3. Numbering'
  BY <1>2, Zenon DEF Numbering, Unregistered, Unlaunched
<1>4. \A t \in RecvWorkers :
        rpc'[t] \in HasSubscription => rsc'[t] \in Ids /\ key'[rsc'[t]] \in Keys
  BY <1>1 DEF References, HasSubscription
<1>5. References'
  BY <1>4, Zenon DEF References, HasSubscription, Live
<1>6. QED
  BY <1>3, <1>5, Zenon

(* A handler that is done with its TLV keeps types, numbers and            *)
(* references.                                                             *)
LEMMA HandlerDone ==
  ASSUME IInv, NEW r \in RecvWorkers, RecvDone(r),
         UNCHANGED <<ntlv, clients, key, spc, ssc>>
  PROVE  /\ Numbering' /\ References'
         /\ rpc' \in [RecvWorkers -> RecvPcs]
         /\ tlv' \in [RecvWorkers -> [id : Ids \cup {NoSub}, key : Keys \cup {NoKey},
                                      duration : Nat, interval : Nat]]
         /\ rsc' \in [RecvWorkers -> Ids \cup {NoSub}]
<1> USE DEF IInv
<1>1. /\ rpc' = [rpc EXCEPT ![r] = "idle"]
      /\ tlv' = [tlv EXCEPT ![r] = NoTLV]
      /\ rsc' = [rsc EXCEPT ![r] = NoSub]
  BY Zenon DEF RecvDone, RecvGoto
<1>2. /\ rpc'[r] = "idle"
      /\ \A t \in RecvWorkers :
           t # r => rpc'[t] = rpc[t] /\ tlv'[t] = tlv[t] /\ rsc'[t] = rsc[t]
  BY <1>1, Zenon DEF TypeOK
<1>3. Numbering'
  BY <1>2 DEF Numbering
<1>4. References'
  BY <1>2, Zenon DEF References, Live
<1>5. rpc' \in [RecvWorkers -> RecvPcs]
  BY <1>1, Zenon DEF TypeOK, RecvPcs
<1>6. NoTLV \in [id : Ids \cup {NoSub}, key : Keys \cup {NoKey}, duration : Nat,
                interval : Nat]
  BY Zenon DEF NoTLV
<1>7. QED
  BY <1>1, <1>3, <1>4, <1>5, <1>6, Zenon DEF TypeOK

-----------------------------------------------------------------------------
(* Senders *)

(* setRunning(true) keeps the invariant.                                   *)
LEMMA StartRunningInv ==
  ASSUME IInv, NEW q \in Ids, StartRunning(q)
  PROVE  IInv'
<1> USE DEF IInv
<1>1. /\ spc[q] = "new"
      /\ running' = [running EXCEPT ![ssc[q]] = TRUE]
      /\ UNCHANGED <<ntlv, clients, key, expire, interval, grant, recvVars,
                     ssc, ticker, oldInterval, workVars, late>>
  BY Zenon DEF StartRunning, SetRunning
<1>2. PICK pc \in {"first", "ticker"} : spc' = [spc EXCEPT ![q] = pc]
  BY Zenon DEF StartRunning, SenderGoto
<1>3. running' \in [Ids -> BOOLEAN]
  BY <1>1, Zenon DEF TypeOK
<1>4. spc' \in [Ids -> SenderPcs]
  BY <1>2, Zenon DEF TypeOK, SenderPcs
<1>5. TypeOK'
  BY <1>1, <1>3, <1>4, Zenon DEF TypeOK, recvVars, workVars
<1>6. Numbering' /\ References'
  BY <1>1, <1>2, SenderMoves, Zenon DEF recvVars, SenderPcs
<1>7. spc'[q] = pc /\ \A i \in Ids : i # q => spc'[i] = spc[i]
  BY <1>2, Zenon DEF TypeOK
<1>8. \A s \in Ids : s # ssc[q] => running'[s] = running[s]
  BY <1>1, Zenon DEF TypeOK
<1>9. RunningHasSender'
  BY <1>1, <1>7, <1>8 DEF RunningHasSender
<1>10. LateCounted'
  BY <1>1, <1>7, Zenon DEF LateCounted, Expired
<1>11. QED
  BY <1>5, <1>6, <1>9, <1>10, Zenon

(* The first message keeps the invariant: it is the only late one so far.  *)
LEMMA SendFirstInv ==
  ASSUME IInv, NEW q \in Ids, SendFirst(q)
  PROVE  IInv'
<1> USE DEF IInv, subVars, recvVars
<1>1. /\ spc[q] = "first" /\ SenderOnce(q)
      /\ spc' = [spc EXCEPT ![q] = "ticker"]
      /\ UNCHANGED <<ntlv, clients, subVars, recvVars, ssc, ticker, oldInterval>>
  BY Zenon DEF SendFirst, SenderGoto
<1>2. ssc[q] \in Ids /\ key[ssc[q]] \in Keys
  BY <1>1, Zenon DEF References, Live
<1>3. late[q] = 0
  BY <1>1, Zenon DEF LateCounted
<1>4. late' = IF Expired(ssc[q]) THEN [late EXCEPT ![q] = 1] ELSE late
  BY <1>1, <1>3 DEF SenderOnce
<1>5. late' \in [Ids -> Nat]
  BY <1>4, Zenon DEF TypeOK
<1>6. queue' \in [Workers -> Seq(Ids)] /\ work' \in [Workers -> Ids \cup {NoSub}]
  BY <1>1, <1>2, OnceType, Zenon DEF SenderOnce
<1>7. spc' \in [Ids -> SenderPcs]
  BY <1>1, Zenon DEF TypeOK, SenderPcs
<1>8. TypeOK'
  BY <1>1, <1>5, <1>6, <1>7, Zenon DEF TypeOK
<1>9. Numbering' /\ References' /\ RunningHasSender'
  BY <1>1, SenderMoves, Zenon DEF SenderPcs
<1>10. /\ spc'[q] = "ticker"
       /\ \A i \in Ids : i # q => spc'[i] = spc[i] /\ late'[i] = late[i]
       /\ late'[q] # 0 => late'[q] = 1 /\ Expired(ssc[q])
  BY <1>1, <1>3, <1>4, Zenon DEF TypeOK
<1>11. LateCounted'
  BY <1>1, <1>10, Zenon DEF LateCounted, Expired
<1>12. QED
  BY <1>8, <1>9, <1>11, Zenon

(* NewTicker keeps the invariant.                                          *)
LEMMA NewTickerInv ==
  ASSUME IInv, NEW q \in Ids, NewTicker(q)
  PROVE  IInv'
<1> USE DEF IInv, subVars, recvVars, workVars
<1>1. /\ spc[q] = "ticker"
      /\ UNCHANGED <<ntlv, clients, subVars, recvVars, ssc, oldInterval, workVars, late>>
  BY Zenon DEF NewTicker
<1>2. spc' = [spc EXCEPT ![q] = "remember"]
  BY Zenon DEF NewTicker, SenderGoto
<1>3. ssc[q] \in Ids
  BY <1>1, Zenon DEF References, Live
<1>4. ticker' \in [Ids -> Nat]
  BY <1>3, Zenon DEF NewTicker, TypeOK
<1>5. TypeOK'
  BY <1>1, <1>2, <1>4, Zenon DEF TypeOK, SenderPcs
<1>6. Numbering' /\ References' /\ RunningHasSender'
  BY <1>1, <1>2, SenderMoves, Zenon DEF SenderPcs
<1>7. LateCounted'
  BY <1>1, <1>2, Zenon DEF TypeOK, LateCounted, Expired
<1>8. QED
  BY <1>5, <1>6, <1>7, Zenon

(* oldInterval := sc.interval keeps the invariant.                         *)
LEMMA RememberIntervalInv ==
  ASSUME IInv, NEW q \in Ids, RememberInterval(q)
  PROVE  IInv'
<1> USE DEF IInv, subVars, recvVars, workVars
<1>1. /\ spc[q] = "remember"
      /\ UNCHANGED <<ntlv, clients, subVars, recvVars, ssc, ticker, workVars, late>>
  BY Zenon DEF RememberInterval
<1>2. spc' = [spc EXCEPT ![q] = "wait"]
  BY Zenon DEF RememberInterval, SenderGoto
<1>3. ssc[q] \in Ids
  BY <1>1, Zenon DEF References, Live
<1>4. oldInterval' \in [Ids -> Nat]
  BY <1>3, Zenon DEF RememberInterval, TypeOK
<1>5. TypeOK'
  BY <1>1, <1>2, <1>4, Zenon DEF TypeOK, SenderPcs
<1>6. Numbering' /\ References' /\ RunningHasSender'
  BY <1>1, <1>2, SenderMoves, Zenon DEF SenderPcs
<1>7. LateCounted'
  BY <1>1, <1>2, Zenon DEF TypeOK, LateCounted, Expired
<1>8. QED
  BY <1>5, <1>6, <1>7, Zenon

(* A tick keeps the invariant: a late sender finds itself expired.         *)
LEMMA TickerFiresInv ==
  ASSUME IInv, NEW q \in Ids, TickerFires(q)
  PROVE  IInv'
<1> USE DEF IInv, subVars, recvVars, workVars
<1>1. /\ spc[q] = "wait"
      /\ UNCHANGED <<ntlv, clients, subVars, recvVars, ssc, ticker, oldInterval,
                     workVars, late>>
  BY Zenon DEF TickerFires
<1>2. PICK pc \in {"exit", "compare"} : 
        /\ spc' = [spc EXCEPT ![q] = pc]
        /\ pc = "compare" => ~ Expired(ssc[q])
  BY Zenon DEF TickerFires, SenderGoto, Expired
<1>3. ssc[q] \in Ids
  BY <1>1, Zenon DEF References, Live
<1>4. TypeOK'
  BY <1>1, <1>2, Zenon DEF TypeOK, SenderPcs
<1>5. Numbering' /\ References' /\ RunningHasSender'
  BY <1>1, <1>2, SenderMoves, Zenon DEF SenderPcs
<1>6. LateCounted'
  BY <1>1, <1>2, Zenon DEF TypeOK, LateCounted, Expired
<1>7. QED
  BY <1>4, <1>5, <1>6, Zenon

(* The comparison of the intervals, with or without a reset of the ticker, *)
(* keeps the invariant: a sender that gets here was not expired on its     *)
(* tick, and so has not sent a late message.                               *)
LEMMA CompareIntervalInv ==
  ASSUME IInv, NEW q \in Ids, CompareInterval(q)
  PROVE  IInv'
<1> USE DEF IInv, subVars, recvVars, workVars
<1>1. /\ spc[q] = "compare"
      /\ UNCHANGED <<ntlv, clients, subVars, recvVars, ssc, oldInterval, workVars, late>>
  BY Zenon DEF CompareInterval
<1>2. PICK pc \in {"store", "send", "wait"} : spc' = [spc EXCEPT ![q] = pc]
  BY Zenon DEF CompareInterval, SenderGoto, AfterInterval
<1>3. ssc[q] \in Ids
  BY <1>1, Zenon DEF References, Live
<1>4. ticker' \in [Ids -> Nat]
  <2>1. interval[ssc[q]] \in Nat
    BY <1>3, Zenon DEF TypeOK
  <2>2. ticker' = ticker \/ ticker' = [ticker EXCEPT ![q] = interval[ssc[q]]]
    BY Zenon DEF CompareInterval
  <2>3. QED
    BY <2>1, <2>2, Zenon DEF TypeOK
<1>5. TypeOK'
  BY <1>1, <1>2, <1>4, Zenon DEF TypeOK, SenderPcs
<1>6. Numbering' /\ References' /\ RunningHasSender'
  BY <1>1, <1>2, SenderMoves, Zenon DEF SenderPcs
<1>7. LateCounted'
  BY <1>1, <1>2, Zenon DEF TypeOK, LateCounted, Expired
<1>8. QED
  BY <1>5, <1>6, <1>7, Zenon

(* oldInterval = sc.interval keeps the invariant.                          *)
LEMMA StoreIntervalInv ==
  ASSUME IInv, NEW q \in Ids, StoreInterval(q)
  PROVE  IInv'
<1> USE DEF IInv, subVars, recvVars, workVars
<1>1. /\ spc[q] = "store"
      /\ UNCHANGED <<ntlv, clients, subVars, recvVars, ssc, ticker, workVars, late>>
  BY Zenon DEF StoreInterval
<1>2. PICK pc \in {"send", "wait"} : spc' = [spc EXCEPT ![q] = pc]
  BY Zenon DEF StoreInterval, SenderGoto, AfterInterval
<1>3. ssc[q] \in Ids
  BY <1>1, Zenon DEF References, Live
<1>4. oldInterval' \in [Ids -> Nat]
  BY <1>3, Zenon DEF StoreInterval, TypeOK
<1>5. TypeOK'
  BY <1>1, <1>2, <1>4, Zenon DEF TypeOK, SenderPcs
<1>6. Numbering' /\ References' /\ RunningHasSender'
  BY <1>1, <1>2, SenderMoves, Zenon DEF SenderPcs
<1>7. LateCounted'
  BY <1>1, <1>2, Zenon DEF TypeOK, LateCounted, Expired
<1>8. QED
  BY <1>5, <1>6, <1>7, Zenon

(* The message of a tick keeps the invariant.                              *)
LEMMA SendOnTickInv ==
  ASSUME IInv, NEW q \in Ids, SendOnTick(q)
  PROVE  IInv'
<1> USE DEF IInv, subVars, recvVars
<1>1. /\ spc[q] = "send" /\ SenderOnce(q)
      /\ spc' = [spc EXCEPT ![q] = "wait"]
      /\ UNCHANGED <<ntlv, clients, subVars, recvVars, ssc, ticker, oldInterval>>
  BY Zenon DEF SendOnTick, SenderGoto
<1>2. ssc[q] \in Ids /\ key[ssc[q]] \in Keys
  BY <1>1, Zenon DEF References, Live
<1>3. late[q] = 0
  BY <1>1, Zenon DEF LateCounted
<1>4. late' = IF Expired(ssc[q]) THEN [late EXCEPT ![q] = 1] ELSE late
  BY <1>1, <1>3 DEF SenderOnce
<1>5. late' \in [Ids -> Nat]
  BY <1>4, Zenon DEF TypeOK
<1>6. queue' \in [Workers -> Seq(Ids)] /\ work' \in [Workers -> Ids \cup {NoSub}]
  BY <1>1, <1>2, OnceType, Zenon DEF SenderOnce
<1>7. spc' \in [Ids -> SenderPcs]
  BY <1>1, Zenon DEF TypeOK, SenderPcs
<1>8. TypeOK'
  BY <1>1, <1>5, <1>6, <1>7, Zenon DEF TypeOK
<1>9. Numbering' /\ References' /\ RunningHasSender'
  BY <1>1, SenderMoves, Zenon DEF SenderPcs
<1>10. /\ spc'[q] = "wait"
       /\ \A i \in Ids : i # q => spc'[i] = spc[i] /\ late'[i] = late[i]
       /\ late'[q] # 0 => late'[q] = 1 /\ Expired(ssc[q])
  BY <1>1, <1>3, <1>4, Zenon DEF TypeOK
<1>11. LateCounted'
  BY <1>1, <1>10, Zenon DEF LateCounted, Expired
<1>12. QED
  BY <1>8, <1>9, <1>11, Zenon

(* setRunning(false) keeps the invariant: no other flag was backed by this *)
(* sender.                                                                 *)
LEMMA StopRunningInv ==
  ASSUME IInv, NEW q \in Ids, StopRunning(q)
  PROVE  IInv'
<1> USE DEF IInv, recvVars, workVars
<1>1. /\ spc[q] = "exit"
      /\ running' = [running EXCEPT ![ssc[q]] = FALSE]
      /\ spc' = [spc EXCEPT ![q] = "done"]
      /\ ssc' = [ssc EXCEPT ![q] = NoSub]
      /\ ticker' = [ticker EXCEPT ![q] = 0]
      /\ oldInterval' = [oldInterval EXCEPT ![q] = 0]
      /\ late' = [late EXCEPT ![q] = 0]
      /\ UNCHANGED <<ntlv, clients, key, expire, interval, grant, recvVars, workVars>>
  BY Zenon DEF StopRunning, SetRunning, SenderGoto
<1>2. running' \in [Ids -> BOOLEAN]
  BY <1>1, Zenon DEF TypeOK
<1>3. TypeOK'
  BY <1>1, <1>2, Zenon DEF TypeOK, SenderPcs
<1>4. /\ spc'[q] = "done" /\ late'[q] = 0
      /\ \A i \in Ids : i # q => /\ spc'[i] = spc[i] /\ ssc'[i] = ssc[i]
                                 /\ late'[i] = late[i]
  BY <1>1, Zenon DEF TypeOK
<1>5. Numbering'
  <2>1. \A i \in Ids : spc[i] = "none" => spc'[i] = "none"
    BY <1>1, <1>4, Zenon
  <2>2. \A r \in RecvWorkers : rpc[r] # "idle" => tlv[r].id \in Ids
    BY Zenon DEF Numbering
  <2>3. QED
    BY <1>1, <2>1, <2>2, Zenon DEF Numbering
<1>6. References'
  BY <1>1, <1>4, Zenon DEF References, Live
<1>7. RunningHasSender'
  <2>1. \A s \in Ids : running'[s] => running[s] /\ s # ssc[q]
    BY <1>1, Zenon DEF TypeOK
  <2>2. QED
    BY <1>4, <2>1 DEF RunningHasSender
<1>8. LateCounted'
  BY <1>1, <1>4 DEF LateCounted, Expired
<1>9. QED
  BY <1>3, <1>5, <1>6, <1>7, <1>8, Zenon

-----------------------------------------------------------------------------
(* Handlers *)

(* FindSubscription keeps the invariant.                                   *)
LEMMA FindSubscriptionInv ==
  ASSUME IInv, NEW r \in RecvWorkers, FindSubscription(r)
  PROVE  IInv'
<1> DEFINE s == clients[tlv[r].key]
<1> USE DEF IInv, subVars, sndVars, workVars
<1>1. /\ rpc[r] = "find"
      /\ rsc' = [rsc EXCEPT ![r] = s]
      /\ UNCHANGED <<ntlv, clients, subVars, tlv, rexpire, sndVars, workVars, late>>
  BY Zenon DEF FindSubscription
<1>2. PICK pc \in {"register", "update"} :
        rpc' = [rpc EXCEPT ![r] = pc] /\ (pc = "update" => s # NoSub)
  BY Zenon DEF FindSubscription, RecvGoto
<1>3. tlv[r].key \in Keys
  BY <1>1, Zenon DEF Numbering
<1>4. s \in Ids \cup {NoSub} /\ (s # NoSub => key[s] \in Keys)
  BY <1>3, Zenon DEF TypeOK, References
<1>5. TypeOK'
  BY <1>1, <1>2, <1>4, Zenon DEF TypeOK, RecvPcs
<1>6. rsc'[r] = s /\ \A t \in RecvWorkers : t # r => rsc'[t] = rsc[t]
  BY <1>1, Zenon DEF TypeOK
<1>7. Numbering' /\ References'
  BY <1>1, <1>2, <1>4, <1>6, HandlerMoves, Zenon DEF RecvPcs, Unregistered, Unlaunched,
     HasSubscription
<1>8. QED
  BY <1>1, <1>5, <1>7, RunningFrame, LateFrame, Zenon

(* RegisterSubscription keeps the invariant: no sender has its number yet. *)
LEMMA RegisterSubscriptionInv ==
  ASSUME IInv, NEW r \in RecvWorkers, RegisterSubscription(r)
  PROVE  IInv'
<1> DEFINE s == tlv[r].id
<1> USE DEF IInv, sndVars, workVars
<1>1. /\ rpc[r] = "register"
      /\ key' = [key EXCEPT ![s] = tlv[r].key]
      /\ expire' = [expire EXCEPT ![s] = rexpire[r]]
      /\ interval' = [interval EXCEPT ![s] = tlv[r].interval]
      /\ clients' = [clients EXCEPT ![tlv[r].key] = s]
      /\ rsc' = [rsc EXCEPT ![r] = s]
      /\ rexpire' = [rexpire EXCEPT ![r] = Past]
      /\ UNCHANGED <<ntlv, running, grant, tlv, sndVars, workVars, late>>
  BY Zenon DEF RegisterSubscription
<1>2. PICK pc \in {"reject", "running"} : rpc' = [rpc EXCEPT ![r] = pc]
  BY Zenon DEF RegisterSubscription, RecvGoto, AfterLookup
<1>3. s \in Ids /\ s <= ntlv /\ tlv[r].key \in Keys /\ key[s] = NoKey /\ spc[s] = "none"
  BY <1>1, Zenon DEF Numbering
<1>4. \A t \in RecvWorkers : t # r /\ rpc[t] # "idle" => tlv[t].id # s
  BY <1>1, Zenon DEF Numbering
<1>5. TypeOK'
  BY <1>1, <1>2, <1>3, Zenon DEF TypeOK, RecvPcs
<1>6. Numbering'
  <2>1. \A i \in Ids : i > ntlv => i # s
    BY <1>3 DEF TypeOK, Ids
  <2>2. \A i \in Ids : i # s => key'[i] = key[i]
    BY <1>1, <1>3, Zenon DEF TypeOK
  <2>3. \A i \in Ids : i > ntlv' => key'[i] = NoKey /\ spc'[i] = "none"
    BY <1>1, <2>1, <2>2, Zenon DEF Numbering
  <2>4. \A t \in RecvWorkers : rpc'[t] \in {"find", "register"} => key'[tlv'[t].id] = NoKey
    BY <1>1, <1>2, <1>4, <2>2 DEF TypeOK, Numbering
  <2>5. QED
    BY <1>1, <1>2, <2>3, <2>4 DEF TypeOK, Numbering
<1>7. References'
  <2>1. key'[s] = tlv[r].key /\ \A i \in Ids : i # s => key'[i] = key[i]
    BY <1>1, <1>3, Zenon DEF TypeOK
  <2>2. \A k \in Keys : clients'[k] # NoSub => key'[clients'[k]] = k
    <3>1. \A k \in Keys : clients[k] # NoSub => clients[k] \in Ids /\ clients[k] # s
      BY <1>3, ConfigAssumption, Zenon DEF TypeOK, References
    <3>2. QED
      BY <1>1, <1>3, <2>1, <3>1, Zenon DEF TypeOK, References
  <2>3. \A i \in Ids : key[i] \in Keys => key'[i] \in Keys
    BY <1>3, <2>1, Zenon
  <2>4. \A t \in RecvWorkers :
          rpc'[t] \in {"update", "interval", "running", "confirm", "reject",
                       "confirmed", "rejected", "stop"} =>
            rsc'[t] \in Ids /\ key'[rsc'[t]] \in Keys
    BY <1>1, <1>2, <1>3, <2>1, <2>3 DEF TypeOK, References
  <2>5. \A q \in Ids : Live(q)' => ssc'[q] \in Ids /\ key'[ssc'[q]] \in Keys
    BY <1>1, <2>3, Zenon DEF References, Live
  <2>6. QED
    BY <2>2, <2>4, <2>5, Zenon DEF References
<1>8. RunningHasSender'
  BY <1>1, Zenon DEF RunningHasSender
<1>9. LateCounted'
  <2>1. \A q \in Ids : late[q] # 0 => ssc[q] \in Ids /\ ssc[q] # s
    BY <1>3, ConfigAssumption, Zenon DEF LateCounted, References, Live
  <2>2. QED
    BY <1>1, <2>1, Zenon DEF LateCounted, TypeOK, Expired
<1>10. QED
  BY <1>5, <1>6, <1>7, <1>8, <1>9, Zenon

(* Moving the expiry of a subscription keeps LateCounted: its senders      *)
(* start counting again, unless it stays expired.                          *)
LEMMA RenewLateKept ==
  ASSUME IInv, NEW s \in Ids, NEW e \in Nat \cup {Past},
         expire' = [expire EXCEPT ![s] = e], RenewLate(s, e), UNCHANGED <<spc, ssc>>
  PROVE  /\ LateCounted'
         /\ late' \in [Ids -> Nat] /\ expire' \in [Ids -> Nat \cup {Past}]
<1> USE DEF IInv
<1>1. \A q \in Ids : late'[q] = IF ssc[q] = s /\ e # Past THEN 0 ELSE late[q]
  BY Zenon DEF RenewLate
<1>2. expire'[s] = e /\ \A i \in Ids : i # s => expire'[i] = expire[i]
  BY Zenon DEF TypeOK
<1>3. \A q \in Ids : late[q] # 0 => ssc[q] \in Ids
  BY Zenon DEF LateCounted, References, Live
<1>4. LateCounted'
  BY <1>1, <1>2, <1>3, Zenon DEF LateCounted, Expired
<1>5. QED
  BY <1>4, Zenon DEF RenewLate, TypeOK

(* sc.expire = expire keeps the invariant.                                 *)
LEMMA UpdateExpireInv ==
  ASSUME IInv, NEW r \in RecvWorkers, UpdateExpire(r)
  PROVE  IInv'
<1> USE DEF IInv, sndVars, workVars
<1>1. /\ rpc[r] = "update"
      /\ expire' = [expire EXCEPT ![rsc[r]] = rexpire[r]]
      /\ RenewLate(rsc[r], rexpire[r])
      /\ rexpire' = [rexpire EXCEPT ![r] = Past]
      /\ rpc' = [rpc EXCEPT ![r] = "interval"]
      /\ UNCHANGED <<ntlv, clients, key, interval, running, grant, tlv, rsc, sndVars,
                     workVars>>
  BY Zenon DEF UpdateExpire, RecvGoto
<1>2. rsc[r] \in Ids /\ key[rsc[r]] \in Keys /\ rexpire[r] \in Nat \cup {Past}
  BY <1>1, Zenon DEF References, TypeOK
<1>3. LateCounted' /\ late' \in [Ids -> Nat] /\ expire' \in [Ids -> Nat \cup {Past}]
  BY <1>1, <1>2, RenewLateKept, Zenon
<1>4. TypeOK'
  BY <1>1, <1>3, Zenon DEF TypeOK, RecvPcs
<1>5. Numbering' /\ References'
  BY <1>1, <1>2, HandlerMoves, Zenon DEF RecvPcs, Unregistered, Unlaunched, HasSubscription
<1>6. QED
  BY <1>1, <1>3, <1>4, <1>5, RunningFrame, Zenon

(* sc.interval = intervalt keeps the invariant.                            *)
LEMMA UpdateIntervalInv ==
  ASSUME IInv, NEW r \in RecvWorkers, UpdateInterval(r)
  PROVE  IInv'
<1> USE DEF IInv, sndVars, workVars
<1>1. /\ rpc[r] = "interval"
      /\ interval' = [interval EXCEPT ![rsc[r]] = tlv[r].interval]
      /\ UNCHANGED <<ntlv, clients, key, expire, running, grant, tlv, rexpire, rsc,
                     sndVars, workVars, late>>
  BY Zenon DEF UpdateInterval
<1>2. PICK pc \in {"reject", "running"} : rpc' = [rpc EXCEPT ![r] = pc]
  BY Zenon DEF UpdateInterval, RecvGoto, AfterLookup
<1>3. rsc[r] \in Ids /\ key[rsc[r]] \in Keys
  BY <1>1, Zenon DEF References
<1>4. tlv[r].interval \in Nat
  BY Zenon DEF TypeOK
<1>5. TypeOK'
  BY <1>1, <1>2, <1>4, Zenon DEF TypeOK, RecvPcs
<1>6. Numbering' /\ References'
  BY <1>1, <1>2, <1>3, HandlerMoves, Zenon DEF RecvPcs, Unregistered, Unlaunched,
     HasSubscription
<1>7. QED
  BY <1>1, <1>5, <1>6, RunningFrame, LateFrame, Zenon

(* Launching a sender keeps the invariant: its number is free.             *)
LEMMA LaunchIfNotRunningInv ==
  ASSUME IInv, NEW r \in RecvWorkers, LaunchIfNotRunning(r)
  PROVE  IInv'
<1> DEFINE n == tlv[r].id
<1> USE DEF IInv, subVars, workVars
<1>1. /\ rpc[r] = "running"
      /\ rpc' = [rpc EXCEPT ![r] = "confirm"]
      /\ UNCHANGED <<ntlv, clients, subVars, tlv, rexpire, rsc, ticker, oldInterval,
                     workVars, late>>
  BY Zenon DEF LaunchIfNotRunning, RecvGoto
<1>2. n \in Ids /\ n <= ntlv /\ spc[n] = "none" /\ rsc[r] \in Ids /\ key[rsc[r]] \in Keys
  BY <1>1, Zenon DEF Numbering, References
<1>3. \A t \in RecvWorkers : t # r /\ rpc[t] # "idle" => tlv[t].id # n
  BY <1>1, Zenon DEF Numbering
<1>4. CASE UNCHANGED <<spc, ssc>>
  <2>1. TypeOK'
    BY <1>1, <1>4, Zenon DEF TypeOK, RecvPcs
  <2>2. Numbering' /\ References'
    BY <1>1, <1>2, <1>4, HandlerMoves, Zenon DEF RecvPcs, Unregistered, Unlaunched,
       HasSubscription
  <2>3. QED
    BY <1>1, <1>4, <2>1, <2>2, RunningFrame, LateFrame, Zenon
<1>5. CASE spc' = [spc EXCEPT ![n] = "new"] /\ ssc' = [ssc EXCEPT ![n] = rsc[r]]
  <2>1. TypeOK'
    BY <1>1, <1>2, <1>5, Zenon DEF TypeOK, RecvPcs, SenderPcs
  <2>2. \A i \in Ids : i > ntlv => i # n
    BY <1>2 DEF TypeOK, Ids
  <2>3. Numbering'
    BY <1>1, <1>2, <1>3, <1>5, <2>2, Zenon DEF TypeOK, Numbering
  <2>4. References'
    BY <1>1, <1>2, <1>5, Zenon DEF TypeOK, References, Live
  <2>5. \A i \in Ids : i # n => spc'[i] = spc[i] /\ ssc'[i] = ssc[i]
    BY <1>5, Zenon DEF TypeOK
  <2>6. RunningHasSender'
    <3> SUFFICES ASSUME NEW s \in Ids, running[s]
                 PROVE  \E q \in Ids : ssc'[q] = s /\ spc'[q] \notin {"none", "new", "done"}
      BY <1>1, Zenon DEF RunningHasSender
    <3>1. PICK q \in Ids : ssc[q] = s /\ spc[q] \notin {"none", "new", "done"}
      BY Zenon DEF RunningHasSender
    <3>2. spc'[q] = spc[q] /\ ssc'[q] = ssc[q]
      BY <1>2, <2>5, <3>1, Zenon
    <3>3. QED
      BY <3>1, <3>2, Zenon
  <2>7. LateCounted'
    BY <1>1, <1>2, <2>5, Zenon DEF LateCounted, Expired
  <2>8. QED
    BY <2>1, <2>3, <2>4, <2>6, <2>7, Zenon
<1>6. QED
  BY <1>4, <1>5, Zenon DEF LaunchIfNotRunning

(* UpdateGrant keeps the invariant.                                        *)
LEMMA UpdateGrantInv ==
  ASSUME IInv, NEW r \in RecvWorkers, UpdateGrant(r)
  PROVE  IInv'
<1> USE DEF IInv, sndVars, workVars
<1>1. /\ rpc[r] \in {"reject", "confirm"}
      /\ grant' = [grant EXCEPT ![rsc[r]] = Decided(r)]
      /\ UNCHANGED <<ntlv, clients, key, expire, interval, running, tlv, rexpire, rsc,
                     sndVars, workVars, late>>
  BY Zenon DEF UpdateGrant
<1>2. PICK pc \in {"rejected", "confirmed"} : rpc' = [rpc EXCEPT ![r] = pc]
  BY Zenon DEF UpdateGrant, RecvGoto
<1>3. rsc[r] \in Ids /\ key[rsc[r]] \in Keys
  BY <1>1, Zenon DEF References
<1>4. Decided(r) \in Nat
  BY Zenon DEF TypeOK, Decided
<1>5. TypeOK'
  BY <1>1, <1>2, <1>4, Zenon DEF TypeOK, RecvPcs
<1>6. Numbering' /\ References'
  BY <1>1, <1>2, <1>3, HandlerMoves, Zenon DEF RecvPcs, Unregistered, Unlaunched,
     HasSubscription
<1>7. QED
  BY <1>1, <1>5, <1>6, RunningFrame, LateFrame, Zenon

(* Sending the grant keeps the invariant.                                  *)
LEMMA SendGrantInv ==
  ASSUME IInv, NEW r \in RecvWorkers, SendGrant(r)
  PROVE  IInv'
<1> USE DEF IInv, subVars, sndVars, workVars
<1>1. /\ RecvDone(r)
      /\ UNCHANGED <<ntlv, clients, subVars, rexpire, sndVars, workVars, late>>
  BY Zenon DEF SendGrant
<1>2. TypeOK'
  BY <1>1, HandlerDone, Zenon DEF TypeOK
<1>3. QED
  BY <1>1, <1>2, HandlerDone, RunningFrame, LateFrame, Zenon

(* The lookup of a cancellation keeps the invariant.                       *)
LEMMA FindToCancelInv ==
  ASSUME IInv, NEW r \in RecvWorkers, FindToCancel(r)
  PROVE  IInv'
<1> USE DEF IInv, subVars, sndVars, workVars
<1>1. /\ rpc[r] = "cancel"
      /\ UNCHANGED <<ntlv, clients, subVars, rexpire, sndVars, workVars, late>>
  BY Zenon DEF FindToCancel
<1>2. CASE RecvDone(r)
  <2>1. TypeOK'
    BY <1>1, <1>2, HandlerDone, Zenon DEF TypeOK
  <2>2. QED
    BY <1>1, <1>2, <2>1, HandlerDone, RunningFrame, LateFrame, Zenon
<1>3. CASE /\ clients[tlv[r].key] # NoSub
           /\ rsc' = [rsc EXCEPT ![r] = clients[tlv[r].key]]
           /\ rpc' = [rpc EXCEPT ![r] = "stop"]
           /\ tlv' = tlv
  <2>1. tlv[r].key \in Keys
    BY <1>1, Zenon DEF Numbering
  <2>2. clients[tlv[r].key] \in Ids /\ key[clients[tlv[r].key]] \in Keys
    BY <1>3, <2>1, Zenon DEF TypeOK, References
  <2>3. TypeOK'
    BY <1>1, <1>3, <2>2, Zenon DEF TypeOK, RecvPcs
  <2>4. /\ rsc'[r] = clients[tlv[r].key]
        /\ \A t \in RecvWorkers : t # r => rsc'[t] = rsc[t]
    BY <1>3, Zenon DEF TypeOK
  <2>5. Numbering' /\ References'
    BY <1>1, <1>3, <2>2, <2>4, HandlerMoves, Zenon DEF RecvPcs, Unregistered, Unlaunched,
       HasSubscription
  <2>6. QED
    BY <1>1, <2>3, <2>5, RunningFrame, LateFrame, Zenon
<1>4. QED
  BY <1>2, <1>3, Zenon DEF FindToCancel, RecvGoto

(* Stop keeps the invariant.                                               *)
LEMMA StopInv ==
  ASSUME IInv, NEW r \in RecvWorkers, Stop(r)
  PROVE  IInv'
<1> USE DEF IInv, sndVars, workVars
<1>1. /\ rpc[r] = "stop" /\ RecvDone(r)
      /\ expire' = [expire EXCEPT ![rsc[r]] = 0] /\ RenewLate(rsc[r], 0)
      /\ UNCHANGED <<ntlv, clients, key, interval, running, grant, rexpire, sndVars,
                     workVars>>
  BY Zenon DEF Stop
<1>2. rsc[r] \in Ids
  BY <1>1, Zenon DEF References
<1>3. LateCounted' /\ late' \in [Ids -> Nat] /\ expire' \in [Ids -> Nat \cup {Past}]
  BY <1>1, <1>2, RenewLateKept, Zenon
<1>4. TypeOK'
  BY <1>1, <1>3, HandlerDone, Zenon DEF TypeOK
<1>5. QED
  BY <1>1, <1>3, <1>4, HandlerDone, RunningFrame, Zenon

(* Reading a TLV, of either type, keeps the invariant: it gets a fresh     *)
(* number.                                                                 *)
LEMMA ReceiveInv ==
  ASSUME IInv, NEW r \in RecvWorkers, NEW k \in Keys, NEW d \in Nat, NEW i \in Nat,
         NEW pc \in {"find", "cancel"},
         rpc[r] = "idle", ntlv < MaxTLVs, ntlv' = ntlv + 1,
         tlv' = [tlv EXCEPT ![r] =
                   [id |-> ntlv + 1, key |-> k, duration |-> d, interval |-> i]],
         rpc' = [rpc EXCEPT ![r] = pc],
         rexpire' \in [RecvWorkers -> Nat \cup {Past}],
         UNCHANGED <<clients, subVars, rsc, sndVars, workVars, late>>
  PROVE  IInv'
<1> DEFINE new == [id |-> ntlv + 1, key |-> k, duration |-> d, interval |-> i]
<1> USE DEF IInv, subVars, sndVars, workVars
<1>1. ntlv \in Nat /\ ntlv + 1 \in Ids /\ ntlv' \in 0 .. MaxTLVs
  BY ConfigAssumption DEF TypeOK, Ids
<1>2. new \in [id : Ids \cup {NoSub}, key : Keys \cup {NoKey},
               duration : Nat, interval : Nat]
  BY <1>1, Zenon
<1>3. TypeOK'
  <2>1. tlv' \in [RecvWorkers -> [id : Ids \cup {NoSub}, key : Keys \cup {NoKey},
                                 duration : Nat, interval : Nat]]
    BY <1>2, Zenon DEF TypeOK
  <2>2. rpc' \in [RecvWorkers -> RecvPcs]
    BY Zenon DEF TypeOK, RecvPcs
  <2>3. QED
    BY <1>1, <2>1, <2>2, Zenon DEF TypeOK
<1>4. rpc'[r] = pc /\ tlv'[r].id = ntlv + 1 /\ tlv'[r].key = k
  BY Zenon DEF TypeOK
<1>5. \A t \in RecvWorkers : t # r => tlv'[t] = tlv[t] /\ rpc'[t] = rpc[t]
  BY Zenon DEF TypeOK
<1>6. Numbering'
  <2>1. \A q \in Ids : q \in Nat
    BY DEF Ids
  <2>2. \A t \in RecvWorkers :
          t # r /\ rpc'[t] # "idle" =>
            /\ tlv'[t].id \in Ids /\ tlv'[t].id <= ntlv /\ tlv'[t].key \in Keys
    BY <1>5, Zenon DEF Numbering
  <2>3. \A t \in RecvWorkers :
          t # r /\ rpc'[t] # "idle" => tlv'[t].id # ntlv + 1 /\ tlv'[t].id <= ntlv'
    <3> SUFFICES ASSUME NEW t \in RecvWorkers, t # r, rpc'[t] # "idle"
                 PROVE  tlv'[t].id # ntlv + 1 /\ tlv'[t].id <= ntlv'
      BY Zenon
    <3>1. tlv'[t].id \in Nat /\ tlv'[t].id <= ntlv
      BY <2>1, <2>2, Zenon
    <3>2. QED
      BY <1>1, <3>1
  <2>4. key[ntlv + 1] = NoKey /\ spc[ntlv + 1] = "none"
    BY <1>1 DEF Numbering
  <2>5. \A t \in RecvWorkers : rpc'[t] # "idle" =>
          tlv'[t].id \in Ids /\ tlv'[t].id <= ntlv' /\ tlv'[t].key \in Keys
    BY <1>1, <1>4, <2>2, <2>3
  <2>6. \A t, u \in RecvWorkers :
          t # u /\ rpc'[t] # "idle" /\ rpc'[u] # "idle" => tlv'[t].id # tlv'[u].id
    <3> SUFFICES ASSUME NEW t \in RecvWorkers, NEW u \in RecvWorkers, t # u,
                        rpc'[t] # "idle", rpc'[u] # "idle"
                 PROVE  tlv'[t].id # tlv'[u].id
      BY Zenon
    <3>1. CASE t = r
      BY <1>4, <2>3, <3>1, Zenon
    <3>2. CASE u = r
      BY <1>4, <2>3, <3>2, Zenon
    <3>3. CASE t # r /\ u # r
      BY <1>5, <3>3 DEF Numbering
    <3>4. QED
      BY <3>1, <3>2, <3>3, Zenon
  <2>7. \A q \in Ids : q > ntlv' => key[q] = NoKey /\ spc[q] = "none"
    <3> SUFFICES ASSUME NEW q \in Ids, q > ntlv' PROVE key[q] = NoKey /\ spc[q] = "none"
      BY Zenon
    <3>1. q > ntlv
      BY <1>1, <2>1
    <3>2. QED
      BY <3>1, Zenon DEF Numbering
  <2>8. \A t \in RecvWorkers :
          /\ rpc'[t] \in {"find", "register"} => key[tlv'[t].id] = NoKey
          /\ rpc'[t] \in {"find", "register", "update", "interval", "running"} =>
               spc[tlv'[t].id] = "none"
    BY <1>4, <1>5, <2>4 DEF Numbering
  <2>9. QED
    BY <2>5, <2>6, <2>7, <2>8, Zenon DEF Numbering
<1>7. References'
  BY <1>4, <1>5, Zenon DEF References, Live
<1>8. QED
  BY <1>3, <1>6, <1>7, RunningFrame, LateFrame, Zenon

(* Reading a request keeps the invariant.                                  *)
LEMMA ReceiveRequestInv ==
  ASSUME IInv, NEW r \in RecvWorkers, NEW k \in Keys,
         NEW d \in Durations, NEW i \in Intervals, ReceiveRequest(r, k, d, i)
  PROVE  IInv'
<1>1. d \in Nat /\ i \in Nat
  BY ConfigAssumption, Zenon
<1>2. rexpire' \in [RecvWorkers -> Nat \cup {Past}]
  BY <1>1, Zenon DEF ReceiveRequest, IInv, TypeOK
<1>3. QED
  BY <1>1, <1>2, ReceiveInv, Zenon DEF ReceiveRequest, RecvGoto

(* Reading a cancellation keeps the invariant.                             *)
LEMMA ReceiveCancelInv ==
  ASSUME IInv, NEW r \in RecvWorkers, NEW k \in Keys, ReceiveCancel(r, k)
  PROVE  IInv'
<1>1. rexpire' \in [RecvWorkers -> Nat \cup {Past}]
  BY Zenon DEF ReceiveCancel, IInv, TypeOK
<1>2. QED
  BY <1>1, ReceiveInv, Zenon DEF ReceiveCancel, RecvGoto

-----------------------------------------------------------------------------
(* The others *)

(* The worker taking a subscription from its queue keeps the invariant.    *)
LEMMA DequeueInv ==
  ASSUME IInv, NEW w \in Workers, Dequeue(w)
  PROVE  IInv'
<1> USE DEF IInv, Dequeue, subVars, recvVars, sndVars
<1>1. queue[w] \in Seq(Ids) /\ queue[w] # <<>>
  BY Zenon DEF TypeOK
<1>2. Head(queue[w]) \in Ids /\ Tail(queue[w]) \in Seq(Ids)
  BY <1>1
<1>3. TypeOK'
  BY <1>2, Zenon DEF TypeOK
<1>4. QED
  BY <1>3, NumberingFrame, ReferencesFrame, RunningFrame, LateFrame, Zenon

(* The worker finishing with a subscription keeps the invariant.           *)
LEMMA TransmitInv ==
  ASSUME IInv, NEW w \in Workers, Transmit(w)
  PROVE  IInv'
<1> USE DEF IInv, Transmit, subVars, recvVars, sndVars
<1>1. TypeOK'
  BY Zenon DEF TypeOK
<1>2. QED
  BY <1>1, NumberingFrame, ReferencesFrame, RunningFrame, LateFrame, Zenon

(* Deleting a table entry keeps the invariant.                             *)
LEMMA InventoryClientInv ==
  ASSUME IInv, NEW k \in Keys, InventoryClient(k)
  PROVE  IInv'
<1> USE DEF IInv, InventoryClient, subVars, recvVars, sndVars, workVars
<1>1. TypeOK'
  BY Zenon DEF TypeOK
<1>2. \A l \in Keys : clients'[l] \in {clients[l], NoSub}
  BY Zenon DEF TypeOK
<1>3. References'
  BY <1>2, Zenon DEF References, Live
<1>4. QED
  BY <1>1, <1>3, NumberingFrame, RunningFrame, LateFrame, Zenon

(* The clock keeps the invariant: what has expired stays expired.          *)
LEMMA TickInv ==
  ASSUME IInv, Tick
  PROVE  IInv'
<1> USE DEF IInv, sndVars, workVars
<1>1. /\ expire' = [s \in Ids |-> OneLess(expire[s])]
      /\ rexpire' = [r \in RecvWorkers |-> OneLess(rexpire[r])]
      /\ UNCHANGED <<ntlv, clients, key, interval, running, grant, rpc, tlv, rsc,
                     sndVars, workVars, late>>
  BY Zenon DEF Tick
<1>2. \A t \in Nat \cup {Past} : OneLess(t) \in Nat \cup {Past}
  BY DEF OneLess, Past
<1>3. /\ expire' \in [Ids -> Nat \cup {Past}]
      /\ rexpire' \in [RecvWorkers -> Nat \cup {Past}]
  BY <1>1, <1>2, Zenon DEF TypeOK
<1>4. TypeOK'
  BY <1>1, <1>3, Zenon DEF TypeOK
<1>5. \A q \in Ids : late[q] # 0 => ssc[q] \in Ids
  BY Zenon DEF LateCounted, References, Live
<1>6. \A s \in Ids : Expired(s) => expire'[s] = Past
  BY <1>1, Zenon DEF Expired, OneLess
<1>7. LateCounted'
  BY <1>1, <1>5, <1>6, Zenon DEF LateCounted, Expired
<1>8. QED
  BY <1>1, <1>4, <1>7, NumberingFrame, ReferencesFrame, RunningFrame, Zenon

(* Every step keeps the inductive invariant.                               *)
LEMMA NextIInv == IInv /\ [Next]_vars => IInv'
<1> SUFFICES ASSUME IInv, [Next]_vars PROVE IInv'
  BY Zenon
<1>1. CASE UNCHANGED vars
  <2> USE DEF vars, subVars, recvVars, sndVars, workVars, IInv
  <2>1. TypeOK'
    BY <1>1, Zenon DEF TypeOK
  <2>2. QED
    BY <1>1, <2>1, NumberingFrame, ReferencesFrame, RunningFrame, LateFrame, Zenon
<1>2. ASSUME NEW r \in RecvWorkers, Receive(r) PROVE IInv'
  BY <1>2, ReceiveRequestInv, ReceiveCancelInv, Zenon DEF Receive
<1>3. ASSUME NEW r \in RecvWorkers, Handle(r) PROVE IInv'
  BY <1>3, FindSubscriptionInv, RegisterSubscriptionInv, UpdateExpireInv,
     UpdateIntervalInv, LaunchIfNotRunningInv, UpdateGrantInv, SendGrantInv,
     FindToCancelInv, StopInv, Zenon DEF Handle
<1>4. ASSUME NEW q \in Ids, Sender(q) PROVE IInv'
  BY <1>4, StartRunningInv, SendFirstInv, NewTickerInv, RememberIntervalInv,
     TickerFiresInv, CompareIntervalInv, StoreIntervalInv, SendOnTickInv,
     StopRunningInv, Zenon DEF Sender
<1>5. ASSUME NEW w \in Workers, Dequeue(w) \/ Transmit(w) PROVE IInv'
  BY <1>5, DequeueInv, TransmitInv, Zenon
<1>6. ASSUME NEW k \in Keys, InventoryClient(k) PROVE IInv'
  BY <1>6, InventoryClientInv, Zenon
<1>7. CASE Tick
  BY <1>7, TickInv, Zenon
<1>8. QED
  BY <1>1, <1>2, <1>3, <1>4, <1>5, <1>6, <1>7, Zenon DEF Next

(* The inductive invariant holds in every reachable state.                 *)
THEOREM Invariance == Spec => []IInv
  BY InitIInv, NextIInv, PTL DEF Spec

(* Type correctness, for any clients, receive workers, send workers, queue *)
(* size and limits.                                                        *)
THEOREM TypeCorrect == Spec => []TypeOK
<1>1. IInv => TypeOK
  BY Zenon DEF IInv
<1>2. QED
  BY <1>1, Invariance, PTL

(* running is never set for a subscription without a sender goroutine      *)
(* between setRunning(true) and setRunning(false), however the handlers    *)
(* that look at Running() and launch Start interleave.                     *)
THEOREM RunningBacked == Spec => []RunningHasSender
<1>1. IInv => RunningHasSender
  BY Zenon DEF IInv
<1>2. QED
  BY <1>1, Invariance, PTL

(* A sender enqueues at most one message after its subscription expired or *)
(* was stopped, until a request renews it.                                 *)
THEOREM LateBounded == Spec => []AtMostOneLate
<1>1. IInv => AtMostOneLate
  <2> SUFFICES ASSUME IInv, NEW q \in Ids PROVE late[q] <= 1
    BY Zenon DEF AtMostOneLate
  <2>1. late[q] = 0 \/ late[q] = 1
    BY Zenon DEF IInv, LateCounted
  <2>2. QED
    BY <2>1
<1>2. QED
  BY <1>1, Invariance, PTL

-----------------------------------------------------------------------------
(* One receive worker *)

OneReceiver == \A r, t \in RecvWorkers : r = t

(* With one receive worker, the nil that FindSubscription returned is      *)
(* still true when the subscription is registered.                         *)
LookupValid ==
  \A r \in RecvWorkers : rpc[r] = "register" => clients[tlv[r].key] = NoSub

(* Every step keeps the lookup valid.                                      *)
LEMMA NextLookupValid ==
  ASSUME OneReceiver, IInv, LookupValid, [Next]_vars
  PROVE  LookupValid'
<1> USE DEF LookupValid, IInv, vars, subVars, recvVars, sndVars, workVars
<1>1. ASSUME UNCHANGED <<clients, rpc, tlv>> PROVE LookupValid'
  BY <1>1, Zenon
<1>2. ASSUME UNCHANGED vars PROVE LookupValid'
  BY <1>2, Zenon
<1>3. ASSUME NEW r \in RecvWorkers, Receive(r) PROVE LookupValid'
  BY <1>3, ZenonT(30) DEF Receive, ReceiveRequest, ReceiveCancel, RecvGoto, TypeOK, OneReceiver
<1>4. ASSUME NEW r \in RecvWorkers, Handle(r) PROVE LookupValid'
  <2>1. CASE FindSubscription(r)
    BY <2>1, Zenon DEF FindSubscription, RecvGoto, TypeOK, OneReceiver
  <2>2. CASE ~ FindSubscription(r)
    <3>1. rpc'[r] # "register"
      BY <1>4, <2>2, Zenon DEF Handle, RegisterSubscription, UpdateExpire, UpdateInterval,
         LaunchIfNotRunning, UpdateGrant, SendGrant, FindToCancel, Stop, RecvDone,
         RecvGoto, AfterLookup, TypeOK
    <3>2. QED
      BY <3>1, Zenon DEF OneReceiver
  <2>3. QED
    BY <2>1, <2>2, Zenon
<1>5. ASSUME NEW q \in Ids, Sender(q) PROVE LookupValid'
  BY <1>5, <1>1, Zenon DEF Sender, StartRunning, SendFirst, NewTicker, RememberInterval,
     TickerFires, CompareInterval, StoreInterval, SendOnTick, StopRunning
<1>6. ASSUME NEW w \in Workers, Dequeue(w) \/ Transmit(w) PROVE LookupValid'
  BY <1>6, <1>1, Zenon DEF Dequeue, Transmit
<1>7. ASSUME NEW k \in Keys, InventoryClient(k) PROVE LookupValid'
  BY <1>7, Zenon DEF InventoryClient, TypeOK, Numbering
<1>8. CASE Tick
  BY <1>8, <1>1, Zenon DEF Tick
<1>9. QED
  BY <1>2, <1>3, <1>4, <1>5, <1>6, <1>7, <1>8, Zenon DEF Next

(* With one receive worker no registration overwrites another.             *)
LEMMA NextNotOverwritten ==
  ASSUME IInv, LookupValid, [Next]_vars, NEW k \in Keys, clients[k] # NoSub
  PROVE  clients'[k] \in {clients[k], NoSub}
<1> USE DEF vars, subVars, recvVars, sndVars, workVars
<1>1. ASSUME UNCHANGED clients PROVE clients'[k] \in {clients[k], NoSub}
  BY <1>1, Zenon
<1>2. ASSUME NEW r \in RecvWorkers, RegisterSubscription(r)
      PROVE  clients'[k] \in {clients[k], NoSub}
  <2>1. k # tlv[r].key
    BY <1>2, Zenon DEF LookupValid, RegisterSubscription
  <2>2. QED
    BY <1>2, <2>1, Zenon DEF RegisterSubscription, IInv, TypeOK
<1>3. ASSUME NEW l \in Keys, InventoryClient(l)
      PROVE  clients'[k] \in {clients[k], NoSub}
  BY <1>3, Zenon DEF InventoryClient, IInv, TypeOK
<1>4. ASSUME NEW r \in RecvWorkers, Receive(r) \/ Handle(r), ~ RegisterSubscription(r)
      PROVE  UNCHANGED clients
  BY <1>4, Zenon DEF Receive, Handle, ReceiveRequest, ReceiveCancel, FindSubscription,
     UpdateExpire, UpdateInterval, LaunchIfNotRunning, UpdateGrant, SendGrant,
     FindToCancel, Stop
<1>5. ASSUME NEW q \in Ids, Sender(q) PROVE UNCHANGED clients
  BY <1>5, Zenon DEF Sender, StartRunning, SendFirst, NewTicker, RememberInterval,
     TickerFires, CompareInterval, StoreInterval, SendOnTick, StopRunning
<1>6. ASSUME NEW w \in Workers, Dequeue(w) \/ Transmit(w) PROVE UNCHANGED clients
  BY <1>6, Zenon DEF Dequeue, Transmit
<1>7. ASSUME Tick \/ UNCHANGED vars PROVE UNCHANGED clients
  BY <1>7, Zenon DEF Tick
<1>8. QED
  BY <1>1, <1>2, <1>3, <1>4, <1>5, <1>6, <1>7, Zenon DEF Next

(* With a single receive worker (RecvWorkers = 1) RegisterSubscription     *)
(* never overwrites a subscription, as its comment asks of its caller.     *)
THEOREM SingleReceiverNeverOverwrites ==
  ASSUME OneReceiver
  PROVE  Spec => NeverOverwritten
<1>1. Init => LookupValid
  BY Zenon DEF Init, LookupValid
<1>2. IInv /\ LookupValid /\ [Next]_vars => LookupValid'
  BY NextLookupValid, Zenon
<1>3. IInv /\ LookupValid /\ [Next]_vars =>
        [\A k \in Keys : clients[k] # NoSub => clients'[k] \in {clients[k], NoSub}]_vars
  BY NextNotOverwritten, Zenon
<1>4. QED
  BY <1>1, <1>2, <1>3, Invariance, PTL DEF Spec, NeverOverwritten

-----------------------------------------------------------------------------
(* Send workers *)

(* Timestamps within bounds, in order, and one queue before another.       *)
Within(s, lo, hi) == \A i \in 1 .. Len(s) : lo < s[i] /\ s[i] <= hi
Ascending(s) == \A i, j \in 1 .. Len(s) : i < j => s[i] < s[j]
Before(s, t) == \A i \in 1 .. Len(s), j \in 1 .. Len(t) : s[i] < t[j]

(* The rest of a sequence, as ServeNext and RecvTimestamp leave it.        *)
LEMMA TailFacts ==
  ASSUME NEW S, NEW s \in Seq(S), s # <<>>
  PROVE  /\ Head(s) \in S /\ Head(s) = s[1] /\ Tail(s) \in Seq(S)
         /\ Len(s) \in Nat /\ Len(s) >= 1 /\ Len(Tail(s)) = Len(s) - 1
         /\ \A i \in 1 .. Len(Tail(s)) : i + 1 \in 1 .. Len(s) /\ Tail(s)[i] = s[i + 1]
  OBVIOUS

(* A sequence with one more element, as Enqueue and Deliver leave it.      *)
LEMMA AppendFacts ==
  ASSUME NEW S, NEW s \in Seq(S), NEW e \in S
  PROVE  /\ Append(s, e) \in Seq(S)
         /\ Len(s) \in Nat /\ Len(Append(s, e)) = Len(s) + 1
         /\ Append(s, e)[Len(s) + 1] = e
         /\ \A i \in 1 .. Len(s) : Append(s, e)[i] = s[i]
         /\ \A i \in 1 .. Len(Append(s, e)) : i \in 1 .. Len(s) \/ i = Len(s) + 1
  OBVIOUS

(* No timestamp is newer than the latest Sync.                             *)
LEMMA NothingNewer ==
  ASSUME NEW n \in Nat, NEW s \in Seq(Nat), Within(s, n, n)
  PROVE  s = <<>>
<1> SUFFICES ASSUME s # <<>> PROVE FALSE
  BY Zenon
<1>1. 1 \in 1 .. Len(s) /\ s[1] \in Nat
  BY TailFacts
<1>2. n < s[1] /\ s[1] <= n
  BY <1>1, Zenon DEF Within
<1>3. QED
  BY <1>1, <1>2

(* IncSequenceID stays within the width and always changes the ID.         *)
LEMMA ModFacts ==
  ASSUME NEW n \in Nat, n > 1, NEW x \in 0 .. n - 1
  PROVE  (x + 1) % n \in 0 .. n - 1 /\ (x + 1) % n # x
<1>1. CASE x + 1 < n
  <2>1. (x + 1) % n = x + 1
    BY <1>1
  <2>2. QED
    BY <1>1, <2>1
<1>2. CASE x + 1 = n
  <2>1. (x + 1) % n = 0
    BY <1>2
  <2>2. QED
    BY <1>2, <2>1
<1>3. QED
  BY <1>1, <1>2

(* Moving the oldest timestamp from the driver to the error queue keeps    *)
(* both in order.                                                          *)
LEMMA DeliverSeq ==
  ASSUME NEW s \in Seq(Nat), NEW t \in Seq(Nat), t # <<>>, NEW lo \in Nat, NEW hi \in Nat,
         Within(s, lo, hi), Within(t, lo, hi), Ascending(s), Ascending(t), Before(s, t)
  PROVE  LET s2 == Append(s, Head(t))
             t2 == Tail(t)
         IN  /\ s2 \in Seq(Nat) /\ t2 \in Seq(Nat)
             /\ Within(s2, lo, hi) /\ Within(t2, lo, hi)
             /\ Ascending(s2) /\ Ascending(t2) /\ Before(s2, t2)
<1> DEFINE s2 == Append(s, Head(t))
           t2 == Tail(t)
<1> USE DEF Within, Ascending, Before
<1>1. /\ Head(t) \in Nat /\ Head(t) = t[1] /\ t2 \in Seq(Nat)
      /\ Len(t) \in Nat /\ Len(t) >= 1 /\ Len(t2) = Len(t) - 1
      /\ \A i \in 1 .. Len(t2) : i + 1 \in 1 .. Len(t) /\ t2[i] = t[i + 1]
  BY TailFacts, Zenon
<1>2. /\ s2 \in Seq(Nat)
      /\ Len(s) \in Nat /\ Len(s2) = Len(s) + 1
      /\ s2[Len(s) + 1] = t[1]
      /\ \A i \in 1 .. Len(s) : s2[i] = s[i]
      /\ \A i \in 1 .. Len(s2) : i \in 1 .. Len(s) \/ i = Len(s) + 1
  BY <1>1, AppendFacts
<1>3. /\ \A i \in 1 .. Len(s) : s[i] \in Nat
      /\ \A i \in 1 .. Len(t) : t[i] \in Nat
  BY SMTT(30)
<1> HIDE DEF s2, t2
<1>4. 1 \in 1 .. Len(t)
  BY <1>1
<1>5. Within(s2, lo, hi)
  <2> SUFFICES ASSUME NEW i \in 1 .. Len(s2) PROVE lo < s2[i] /\ s2[i] <= hi
    BY Zenon
  <2>1. CASE i \in 1 .. Len(s)
    BY <1>2, <2>1, Zenon
  <2>2. CASE i = Len(s) + 1
    BY <1>2, <1>4, <2>2, Zenon
  <2>3. QED
    BY <1>2, <2>1, <2>2, Zenon
<1>6. Within(t2, lo, hi)
  BY <1>1, Zenon
<1>7. Ascending(s2)
  <2> SUFFICES ASSUME NEW i \in 1 .. Len(s2), NEW j \in 1 .. Len(s2), i < j
               PROVE  s2[i] < s2[j]
    BY Zenon
  <2>1. CASE j \in 1 .. Len(s)
    <3>1. i \in 1 .. Len(s)
      BY <1>2, <2>1
    <3>2. QED
      BY <1>2, <2>1, <3>1, Zenon
  <2>2. CASE j = Len(s) + 1
    <3>1. i \in 1 .. Len(s)
      BY <1>2, <2>2
    <3>2. s[i] < t[1]
      BY <1>4, <3>1, Zenon
    <3>3. QED
      BY <1>2, <2>2, <3>1, <3>2, Zenon
  <2>3. QED
    BY <1>2, <2>1, <2>2, Zenon
<1>8. Ascending(t2)
  <2> SUFFICES ASSUME NEW i \in 1 .. Len(t2), NEW j \in 1 .. Len(t2), i < j
               PROVE  t2[i] < t2[j]
    BY Zenon
  <2>1. /\ i + 1 \in 1 .. Len(t) /\ t2[i] = t[i + 1]
        /\ j + 1 \in 1 .. Len(t) /\ t2[j] = t[j + 1]
    BY <1>1, Zenon
  <2>2. i + 1 < j + 1
    OBVIOUS
  <2>3. t[i + 1] < t[j + 1]
    BY <2>1, <2>2, Zenon
  <2>4. QED
    BY <2>1, <2>3, Zenon
<1>9. Before(s2, t2)
  <2> SUFFICES ASSUME NEW i \in 1 .. Len(s2), NEW j \in 1 .. Len(t2) PROVE s2[i] < t2[j]
    BY Zenon
  <2>1. j + 1 \in 1 .. Len(t) /\ t2[j] = t[j + 1] /\ 1 < j + 1
    BY <1>1
  <2>2. CASE i \in 1 .. Len(s)
    <3>1. s[i] < t[j + 1]
      BY <2>1, <2>2, Zenon
    <3>2. QED
      BY <1>2, <2>1, <2>2, <3>1, Zenon
  <2>3. CASE i = Len(s) + 1
    <3>1. t[1] < t[j + 1]
      BY <1>4, <2>1, Zenon
    <3>2. QED
      BY <1>2, <2>1, <2>3, <3>1, Zenon
  <2>4. QED
    BY <1>2, <2>2, <2>3, Zenon
<1>10. QED
  BY <1>1, <1>2, <1>5, <1>6, <1>7, <1>8, <1>9, Zenon DEF s2, t2

(* Losing the driver's oldest timestamp keeps both in order.               *)
LEMMA LoseSeq ==
  ASSUME NEW s \in Seq(Nat), NEW t \in Seq(Nat), t # <<>>, NEW lo \in Nat, NEW hi \in Nat,
         Within(t, lo, hi), Ascending(t), Before(s, t)
  PROVE  /\ Tail(t) \in Seq(Nat)
         /\ Within(Tail(t), lo, hi) /\ Ascending(Tail(t)) /\ Before(s, Tail(t))
<1> DEFINE t2 == Tail(t)
<1> USE DEF Within, Ascending, Before
<1>1. /\ t2 \in Seq(Nat)
      /\ \A i \in 1 .. Len(t2) : i + 1 \in 1 .. Len(t) /\ t2[i] = t[i + 1]
  BY TailFacts, Zenon
<1> HIDE DEF t2
<1>2. Within(t2, lo, hi) /\ Before(s, t2)
  BY <1>1, Zenon
<1>3. Ascending(t2)
  <2> SUFFICES ASSUME NEW i \in 1 .. Len(t2), NEW j \in 1 .. Len(t2), i < j
               PROVE  t2[i] < t2[j]
    BY Zenon
  <2>1. i + 1 < j + 1
    OBVIOUS
  <2>2. QED
    BY <1>1, <2>1, Zenon
<1>4. QED
  BY <1>1, <1>2, <1>3, Zenon DEF t2

(* ReadTXtimestampBuf reads a timestamp newer than the one it had, and     *)
(* older than all that follow.                                             *)
LEMMA ReadSeq ==
  ASSUME NEW s \in Seq(Nat), s # <<>>, NEW t \in Seq(Nat), NEW lo \in Nat, NEW hi \in Nat,
         Within(s, lo, hi), Within(t, lo, hi), Ascending(s), Before(s, t)
  PROVE  /\ Head(s) \in Nat /\ lo < Head(s) /\ Head(s) <= hi
         /\ Tail(s) \in Seq(Nat)
         /\ Within(Tail(s), Head(s), hi) /\ Within(t, Head(s), hi)
         /\ Ascending(Tail(s)) /\ Before(Tail(s), t)
<1> DEFINE s2 == Tail(s)
<1> USE DEF Within, Ascending, Before
<1>1. /\ Head(s) \in Nat /\ Head(s) = s[1] /\ s2 \in Seq(Nat)
      /\ Len(s) \in Nat /\ Len(s) >= 1
      /\ \A i \in 1 .. Len(s2) : i + 1 \in 1 .. Len(s) /\ s2[i] = s[i + 1]
  BY TailFacts, Zenon
<1>2. 1 \in 1 .. Len(s)
  BY <1>1
<1> HIDE DEF s2
<1>3. lo < Head(s) /\ Head(s) <= hi
  BY <1>1, <1>2, Zenon
<1>4. Within(s2, Head(s), hi)
  <2> SUFFICES ASSUME NEW i \in 1 .. Len(s2) PROVE s[1] < s2[i] /\ s2[i] <= hi
    BY <1>1, Zenon
  <2>1. i + 1 \in 1 .. Len(s) /\ 1 < i + 1 /\ s2[i] = s[i + 1]
    BY <1>1
  <2>2. QED
    BY <1>2, <2>1, Zenon
<1>5. Within(t, Head(s), hi)
  BY <1>1, <1>2, Zenon
<1>6. Ascending(s2)
  <2> SUFFICES ASSUME NEW i \in 1 .. Len(s2), NEW j \in 1 .. Len(s2), i < j
               PROVE  s2[i] < s2[j]
    BY Zenon
  <2>1. i + 1 < j + 1
    OBVIOUS
  <2>2. QED
    BY <1>1, <2>1, Zenon
<1>7. Before(s2, t)
  BY <1>1, Zenon
<1>8. QED
  BY <1>1, <1>3, <1>4, <1>5, <1>6, <1>7, Zenon DEF s2

(* A new Sync's timestamp comes after all that are on their way.           *)
LEMMA SendSeq ==
  ASSUME NEW s \in Seq(Nat), NEW t \in Seq(Nat), NEW lo \in Nat, NEW hi \in Nat, lo <= hi,
         Within(s, lo, hi), Within(t, lo, hi), Ascending(t), Before(s, t)
  PROVE  LET t2 == Append(t, hi + 1)
         IN  /\ t2 \in Seq(Nat)
             /\ Within(s, lo, hi + 1) /\ Within(t2, lo, hi + 1)
             /\ Ascending(t2) /\ Before(s, t2)
<1> DEFINE t2 == Append(t, hi + 1)
<1> USE DEF Within, Ascending, Before
<1>1. /\ t2 \in Seq(Nat)
      /\ Len(t) \in Nat
      /\ t2[Len(t) + 1] = hi + 1
      /\ \A i \in 1 .. Len(t) : t2[i] = t[i]
      /\ \A i \in 1 .. Len(t2) : i \in 1 .. Len(t) \/ i = Len(t) + 1
  BY AppendFacts
<1>2. /\ \A i \in 1 .. Len(s) : s[i] \in Nat
      /\ \A i \in 1 .. Len(t) : t[i] \in Nat
  OBVIOUS
<1> HIDE DEF t2
<1>3. Within(s, lo, hi + 1)
  BY <1>2
<1>4. Within(t2, lo, hi + 1)
  <2> SUFFICES ASSUME NEW i \in 1 .. Len(t2) PROVE lo < t2[i] /\ t2[i] <= hi + 1
    BY Zenon
  <2>1. CASE i \in 1 .. Len(t)
    <3>1. t2[i] = t[i] /\ t[i] \in Nat /\ lo < t[i] /\ t[i] <= hi
      BY <1>1, <1>2, <2>1, Zenon
    <3>2. QED
      BY <3>1
  <2>2. CASE i = Len(t) + 1
    BY <1>1, <2>2
  <2>3. QED
    BY <1>1, <2>1, <2>2, Zenon
<1>5. Ascending(t2)
  <2> SUFFICES ASSUME NEW i \in 1 .. Len(t2), NEW j \in 1 .. Len(t2), i < j
               PROVE  t2[i] < t2[j]
    BY Zenon
  <2>1. CASE j \in 1 .. Len(t)
    <3>1. i \in 1 .. Len(t)
      BY <1>1, <2>1
    <3>2. QED
      BY <1>1, <2>1, <3>1, Zenon
  <2>2. CASE j = Len(t) + 1
    <3>1. i \in 1 .. Len(t)
      BY <1>1, <2>2
    <3>2. t[i] <= hi /\ t[i] \in Nat
      BY <1>2, <3>1, Zenon
    <3>3. t2[i] = t[i] /\ t2[j] = hi + 1
      BY <1>1, <2>2, <3>1, Zenon
    <3>4. QED
      BY <3>2, <3>3
  <2>3. QED
    BY <1>1, <2>1, <2>2, Zenon
<1>6. Before(s, t2)
  <2> SUFFICES ASSUME NEW i \in 1 .. Len(s), NEW j \in 1 .. Len(t2) PROVE s[i] < t2[j]
    BY Zenon
  <2>1. CASE j \in 1 .. Len(t)
    BY <1>1, <2>1, Zenon
  <2>2. CASE j = Len(t) + 1
    <3>1. s[i] <= hi /\ s[i] \in Nat
      BY <1>2, Zenon
    <3>2. QED
      BY <1>1, <2>2, <3>1, SMTT(30)
  <2>3. QED
    BY <1>1, <2>1, <2>2, Zenon
<1>7. QED
  BY <1>1, <1>3, <1>4, <1>5, <1>6, Zenon DEF t2

-----------------------------------------------------------------------------
(* The inductive invariant *)

(* Whom the worker and the handlers serve.                                 *)
Serving ==
  /\ wpc = "idle" => wsub = NoWork
  /\ wpc \in {"sync", "read", "found"} => wsub \in SyncSubs
  /\ wpc = "announce" => wsub \in AnnounceSubs
  /\ wpc \in {"header", "body", "send"} => wsub \in DelaySubs
  /\ \A h \in Handlers : hpc[h] = "idle" => hsub[h] = NoWork
  /\ \A h \in Handlers : hpc[h] # "idle" => hsub[h] \in DelaySubs

(* The timestamp at hand was read since the Sync was sent.                 *)
Found == wpc = "found" \/ (wpc = "read" /\ txfound)

(* Timestamps pass through the driver and the error queue in order.        *)
InOrder ==
  /\ oob <= syncs /\ lastTS <= oob
  /\ Within(errq, oob, syncs) /\ Within(pending, oob, syncs)
  /\ Ascending(errq) /\ Ascending(pending) /\ Before(errq, pending)
  /\ Found => lastTS < oob

(* Without a read that gave up, no timestamp but the latest is on its way. *)
OnlyLatest ==
  ~ gaveUp =>
    /\ wpc = "read" => /\ \A i \in 1 .. Len(errq) : errq[i] = syncs
                       /\ \A i \in 1 .. Len(pending) : pending[i] = syncs
    /\ wpc # "read" => errq = <<>> /\ pending = <<>>
    /\ Found => oob = syncs

(* The sequence ID moves on once a Sync got its FollowUp.                  *)
SequenceMoves ==
  /\ \A c \in SyncSubs : followed[c] => sequenceID[c] # lastSeq[c]
  /\ wpc \in {"read", "found"} => lastSeq[wsub] = sequenceID[wsub]

WorkerIInv == WorkerTypeOK /\ Serving /\ InOrder /\ OnlyLatest /\ SequenceMoves

Handled(c) == \E h \in Handlers : hsub[h] = c
Queued(c)  == \E i \in 1 .. Len(wqueue) : wqueue[i] = c

(* With one handler: how far the latest Delay_Req of c has come.           *)
Answering(c) ==
  LET n == lastReq[c] IN
  /\ \A h \in Handlers : hsub[h] = c =>
       /\ hreq[h] = n
       /\ hpc[h] \in {"body", "once"} => respSeq[c] = n
       /\ hpc[h] = "once" => respBody[c] = n
  /\ ~ Handled(c) => respSeq[c] = n /\ respBody[c] = n
  /\ ~ Handled(c) /\ ~ Queued(c) =>
       /\ wsub # c => lastResp[c] = <<n, n>>
       /\ wsub = c /\ wpc = "body" => bufSeq = n
       /\ wsub = c /\ wpc = "send" => lastResp[c] = <<n, n>>

-----------------------------------------------------------------------------

(* The initial state satisfies the inductive invariant.                    *)
LEMMA WorkerInitIInv == WorkerInit => WorkerIInv
<1> SUFFICES ASSUME WorkerInit PROVE WorkerIInv
  BY Zenon
<1> USE SendWorkerAssumption DEF WorkerInit
<1>1. WorkerTypeOK
  <2>1. /\ wqueue \in Seq(Subs) /\ Len(wqueue) <= WorkerQueueSize
        /\ pending \in Seq(Nat) /\ errq \in Seq(Nat)
    OBVIOUS
  <2>2. hpc \in [Handlers -> {"idle", "seq", "body", "once"}] /\ wpc \in WorkerPcs
    BY Zenon DEF WorkerPcs
  <2>3. /\ lastSeq \in [SyncSubs -> -1 .. SeqIDs - 1]
        /\ sequenceID \in [Subs -> 0 .. SeqIDs - 1]
    OBVIOUS
  <2>4. followed \in [SyncSubs -> BOOLEAN]
    BY Zenon
  <2>5. gaveUp \in BOOLEAN /\ txfound \in BOOLEAN /\ wsub \in Subs \cup {NoWork}
    BY Zenon
  <2>6. lastResp \in [DelaySubs -> Nat \X Nat]
    BY Zenon
  <2>7. QED
    BY <2>1, <2>2, <2>3, <2>4, <2>5, <2>6 DEF WorkerTypeOK
<1>2. Serving /\ SequenceMoves
  <2>1. Serving
    BY Zenon DEF Serving
  <2>2. \A c \in SyncSubs : c \in Subs /\ sequenceID[c] = 0 /\ lastSeq[c] = -1
    BY Zenon DEF Subs
  <2>3. QED
    BY <2>1, <2>2 DEF SequenceMoves
<1>3. InOrder /\ OnlyLatest
  BY DEF InOrder, OnlyLatest, Within, Ascending, Before, Found
<1>4. QED
  BY <1>1, <1>2, <1>3, Zenon DEF WorkerIInv

(* Steps that leave timestamps alone and are not about a Sync under way.   *)
LEMMA TimestampsKept ==
  ASSUME WorkerIInv, UNCHANGED <<syncs, pending, errq, oob, lastTS, gaveUp>>,
         wpc # "read", wpc' \notin {"read", "found"}
  PROVE  InOrder' /\ OnlyLatest'
  BY Zenon DEF WorkerIInv, InOrder, OnlyLatest, Found

(* Steps of others than the worker.                                        *)
LEMMA WorkerUntouched ==
  ASSUME WorkerIInv, UNCHANGED <<wpc, wsub, txfound, syncs, pending, errq, oob, lastTS,
                           gaveUp, sequenceID, lastSeq, followed>>
  PROVE  InOrder' /\ OnlyLatest' /\ SequenceMoves'
  BY Zenon DEF WorkerIInv, InOrder, OnlyLatest, SequenceMoves, Found

(* The worker starts with a subscription of the type its line is for.      *)
LEMMA WorkerServes ==
  ASSUME WorkerIInv, NEW c \in Subs,
         UNCHANGED <<wpc, wsub>> \/ (wsub' = c /\ wpc' = Entry(c))
  PROVE  /\ wpc' = "idle" => wsub' = NoWork
         /\ wpc' \in {"sync", "read", "found"} => wsub' \in SyncSubs
         /\ wpc' = "announce" => wsub' \in AnnounceSubs
         /\ wpc' \in {"header", "body", "send"} => wsub' \in DelaySubs
<1>1. CASE UNCHANGED <<wpc, wsub>>
  BY <1>1, Zenon DEF WorkerIInv, Serving
<1>2. CASE wsub' = c /\ wpc' = Entry(c)
  <2>1. CASE c \in SyncSubs
    BY <1>2, <2>1, Zenon DEF Entry
  <2>2. CASE c \in AnnounceSubs /\ c \notin SyncSubs
    BY <1>2, <2>2, Zenon DEF Entry
  <2>3. CASE c \in DelaySubs /\ c \notin AnnounceSubs /\ c \notin SyncSubs
    BY <1>2, <2>3, Zenon DEF Entry
  <2>4. QED
    BY <2>1, <2>2, <2>3, Zenon DEF Subs
<1>3. QED
  BY <1>1, <1>2, Zenon

(* A subscription put into the queue, or handed to the idle worker.        *)
LEMMA EnqueueFacts ==
  ASSUME WorkerIInv, NEW c \in Subs, Enqueue(c)
  PROVE  /\ wqueue' \in Seq(Subs) /\ Len(wqueue') <= WorkerQueueSize
         /\ wpc' \in WorkerPcs /\ wsub' \in Subs \cup {NoWork}
         /\ \/ UNCHANGED <<wpc, wsub>>
            \/ /\ wpc = "idle" /\ wsub' = c /\ wpc' = Entry(c)
               /\ wqueue' = wqueue
         /\ wpc' = Entry(c) => wpc' \notin {"read", "found", "idle"}
<1> USE SendWorkerAssumption DEF WorkerIInv
<1>1. Entry(c) \in {"sync", "announce", "header"}
  BY Zenon DEF Entry
<1>2. CASE /\ Len(wqueue) < WorkerQueueSize /\ wqueue' = Append(wqueue, c)
           /\ UNCHANGED <<wpc, wsub>>
  <2>1. wqueue' \in Seq(Subs) /\ Len(wqueue') = Len(wqueue) + 1 /\ Len(wqueue) \in Nat
    BY <1>2, AppendFacts, Zenon DEF WorkerTypeOK
  <2>2. QED
    BY <1>1, <1>2, <2>1 DEF WorkerTypeOK
<1>3. CASE /\ wqueue = <<>> /\ wpc = "idle" /\ wpc' = Entry(c) /\ wsub' = c
           /\ UNCHANGED wqueue
  BY <1>1, <1>3, Zenon DEF WorkerTypeOK, WorkerPcs
<1>4. QED
  BY <1>2, <1>3, Zenon DEF Enqueue

(* A tick of a sender keeps the invariant.                                 *)
LEMMA SenderTickInv ==
  ASSUME WorkerIInv, NEW c \in SyncSubs \cup AnnounceSubs, SenderTick(c)
  PROVE  WorkerIInv'
<1> USE SendWorkerAssumption DEF WorkerIInv, SenderTick,
    readVars, kernelVars, packetVars, bufVars, handlerVars, seqVars
<1>1. c \in Subs
  BY Zenon DEF Subs, Serving, WorkerTypeOK
<1>2. /\ wqueue' \in Seq(Subs) /\ Len(wqueue') <= WorkerQueueSize
      /\ wpc' \in WorkerPcs /\ wsub' \in Subs \cup {NoWork}
      /\ \/ UNCHANGED <<wpc, wsub>>
         \/ wpc = "idle" /\ wsub' = c /\ wpc' = Entry(c)
  BY <1>1, EnqueueFacts, Zenon
<1>3. Entry(c) \in {"sync", "announce", "header"}
  BY Zenon DEF Entry
<1>4. WorkerTypeOK'
  BY <1>2, SMTT(30) DEF WorkerTypeOK
<1>5. Serving'
  <2>1. UNCHANGED <<hpc, hsub>>
    BY Zenon
  <2>2. UNCHANGED <<wpc, wsub>> \/ (wsub' = c /\ wpc' = Entry(c))
    BY <1>2, Zenon
  <2>3. QED
    BY <1>1, <2>1, <2>2, WorkerServes, Zenon DEF Serving
<1>6. InOrder'
  BY <1>2, <1>3, TimestampsKept, WorkerUntouched, Zenon
<1>7. OnlyLatest'
  BY <1>2, <1>3, TimestampsKept, WorkerUntouched, Zenon
<1>8. SequenceMoves'
  BY <1>2, <1>3, Zenon DEF SequenceMoves
<1>9. QED
  BY <1>4, <1>5, <1>6, <1>7, <1>8, Zenon

(* Taking a subscription from the queue keeps the invariant.               *)
LEMMA ServeNextInv ==
  ASSUME WorkerIInv, ServeNext
  PROVE  WorkerIInv'
<1> USE SendWorkerAssumption DEF WorkerIInv, ServeNext,
    readVars, kernelVars, packetVars, bufVars, handlerVars, seqVars
<1>1. /\ Head(wqueue) \in Subs /\ Tail(wqueue) \in Seq(Subs)
      /\ Len(Tail(wqueue)) <= WorkerQueueSize
  BY TailFacts DEF WorkerTypeOK
<1>2. Entry(Head(wqueue)) \in {"sync", "announce", "header"}
  BY Zenon DEF Entry
<1>3. WorkerTypeOK'
  BY <1>1, <1>2, Zenon DEF WorkerTypeOK, WorkerPcs
<1>4. Serving'
  BY <1>1, <1>2, Zenon DEF WorkerTypeOK, Serving, Entry, Subs
<1>5. InOrder'
  BY <1>2, TimestampsKept, Zenon
<1>6. OnlyLatest'
  BY <1>2, TimestampsKept, Zenon
<1>7. SequenceMoves'
  BY <1>2, Zenon DEF SequenceMoves
<1>8. QED
  BY <1>3, <1>4, <1>5, <1>6, <1>7, Zenon

(* A Sync keeps the invariant: its timestamp is the newest.                *)
LEMMA SendSyncInv ==
  ASSUME WorkerIInv, SendSync
  PROVE  WorkerIInv'
<1> USE SendWorkerAssumption DEF WorkerIInv, SendSync,
    readVars, kernelVars, packetVars, bufVars, handlerVars, seqVars
<1>1. wsub \in SyncSubs /\ sequenceID[wsub] \in 0 .. SeqIDs - 1
  BY Zenon DEF Serving, WorkerTypeOK, Subs
<1>2. /\ Append(pending, syncs + 1) \in Seq(Nat)
      /\ Within(errq, oob, syncs + 1) /\ Within(Append(pending, syncs + 1), oob, syncs + 1)
      /\ Ascending(Append(pending, syncs + 1)) /\ Before(errq, Append(pending, syncs + 1))
  BY SendSeq, Zenon DEF WorkerTypeOK, InOrder
<1>3. ~ gaveUp => errq = <<>> /\ pending' = << syncs + 1 >>
  BY DEF OnlyLatest
<1>4. WorkerTypeOK'
  <2>1. lastSeq' \in [SyncSubs -> -1 .. SeqIDs - 1]
    BY <1>1, SMTT(30) DEF WorkerTypeOK
  <2>2. followed' \in [SyncSubs -> BOOLEAN]
    BY <1>1, Zenon DEF WorkerTypeOK
  <2>3. syncs' \in Nat /\ pending' \in Seq(Nat) /\ attempts' \in 0 .. maxTXTS
    BY <1>2 DEF WorkerTypeOK
  <2>4. QED
    BY <2>1, <2>2, <2>3, Zenon DEF WorkerTypeOK, WorkerPcs
<1>5. Serving'
  BY Zenon DEF WorkerTypeOK, Serving
<1>6. InOrder'
  BY <1>1, <1>2 DEF InOrder, Found, WorkerTypeOK
<1>7. OnlyLatest'
  BY <1>3 DEF OnlyLatest, Found
<1>8. SequenceMoves'
  BY Zenon DEF WorkerTypeOK, Serving, SequenceMoves
<1>9. QED
  BY <1>4, <1>5, <1>6, <1>7, <1>8, Zenon

(* Reading a timestamp keeps the invariant: it is newer than the last.     *)
LEMMA RecvTimestampInv ==
  ASSUME WorkerIInv, RecvTimestamp
  PROVE  WorkerIInv'
<1> USE SendWorkerAssumption DEF WorkerIInv, RecvTimestamp,
    readVars, kernelVars, packetVars, bufVars, handlerVars, seqVars
<1>1. /\ Head(errq) \in Nat /\ oob < Head(errq) /\ Head(errq) <= syncs
      /\ Tail(errq) \in Seq(Nat)
      /\ Within(Tail(errq), Head(errq), syncs) /\ Within(pending, Head(errq), syncs)
      /\ Ascending(Tail(errq)) /\ Before(Tail(errq), pending)
  BY ReadSeq, Zenon DEF WorkerTypeOK, InOrder
<1>2. ~ gaveUp => /\ Head(errq) = syncs
                  /\ \A i \in 1 .. Len(Tail(errq)) : Tail(errq)[i] = syncs
  BY TailFacts DEF WorkerTypeOK, OnlyLatest
<1>3. WorkerTypeOK'
  <2>1. attempts' \in 0 .. maxTXTS /\ oob' \in Nat /\ errq' \in Seq(Nat)
    BY <1>1 DEF WorkerTypeOK
  <2>2. txfound' \in BOOLEAN
    BY Zenon
  <2>3. QED
    BY <2>1, <2>2, Zenon DEF WorkerTypeOK
<1>4. Serving'
  BY Zenon DEF WorkerTypeOK, Serving
<1>5. InOrder'
  BY <1>1, SMTT(30) DEF InOrder, Found, WorkerTypeOK
<1>6. OnlyLatest'
  BY <1>1, <1>2, Zenon DEF OnlyLatest, Found, WorkerTypeOK
<1>7. SequenceMoves'
  BY Zenon DEF WorkerTypeOK, Serving, SequenceMoves
<1>8. QED
  BY <1>3, <1>4, <1>5, <1>6, <1>7, Zenon

(* Finding the error queue empty keeps the invariant.                      *)
LEMMA RecvNothingInv ==
  ASSUME WorkerIInv, RecvNothing
  PROVE  WorkerIInv'
<1> USE SendWorkerAssumption DEF WorkerIInv, RecvNothing,
    readVars, kernelVars, packetVars, bufVars, handlerVars, seqVars
<1>1. ~ gaveUp /\ txfound => pending = <<>>
  <2> SUFFICES ASSUME ~ gaveUp, txfound PROVE pending = <<>>
    BY Zenon
  <2>1. oob = syncs /\ syncs \in Nat
    BY Zenon DEF OnlyLatest, Found, WorkerTypeOK
  <2>2. Within(pending, oob, syncs) /\ Within(errq, oob, syncs)
    BY Zenon DEF InOrder
  <2>3. pending \in Seq(Nat) /\ errq \in Seq(Nat)
    BY Zenon DEF WorkerTypeOK
  <2>4. QED
    BY <2>1, <2>2, <2>3, NothingNewer, Zenon
<1>2. WorkerTypeOK'
  BY SMTT(30) DEF WorkerTypeOK, WorkerPcs
<1>3. Serving'
  BY Zenon DEF WorkerTypeOK, Serving
<1>4. InOrder'
  BY Zenon DEF InOrder, Found
<1>5. OnlyLatest'
  BY <1>1, Zenon DEF OnlyLatest, Found
<1>6. SequenceMoves'
  BY Zenon DEF WorkerTypeOK, Serving, SequenceMoves
<1>7. QED
  BY <1>2, <1>3, <1>4, <1>5, <1>6, Zenon

(* Running out of attempts keeps the invariant.                            *)
LEMMA AttemptsUsedUpInv ==
  ASSUME WorkerIInv, AttemptsUsedUp
  PROVE  WorkerIInv'
<1> USE SendWorkerAssumption DEF WorkerIInv, AttemptsUsedUp, Continue,
    readVars, kernelVars, packetVars, bufVars, handlerVars, seqVars
<1>1. ~ gaveUp /\ txfound => pending = <<>> /\ errq = <<>>
  <2> SUFFICES ASSUME ~ gaveUp, txfound PROVE pending = <<>> /\ errq = <<>>
    BY Zenon
  <2>1. oob = syncs /\ syncs \in Nat
    BY Zenon DEF OnlyLatest, Found, WorkerTypeOK
  <2>2. Within(pending, oob, syncs) /\ Within(errq, oob, syncs)
    BY Zenon DEF InOrder
  <2>3. pending \in Seq(Nat) /\ errq \in Seq(Nat)
    BY Zenon DEF WorkerTypeOK
  <2>4. QED
    BY <2>1, <2>2, <2>3, NothingNewer, Zenon
<1>2. WorkerTypeOK'
  BY Zenon DEF WorkerTypeOK, WorkerPcs
<1>3. Serving'
  BY Zenon DEF WorkerTypeOK, Serving
<1>4. InOrder'
  BY Zenon DEF InOrder, Found
<1>5. OnlyLatest'
  BY <1>1, Zenon DEF OnlyLatest, Found
<1>6. SequenceMoves'
  BY Zenon DEF WorkerTypeOK, Serving, SequenceMoves
<1>7. QED
  BY <1>2, <1>3, <1>4, <1>5, <1>6, Zenon

(* A FollowUp keeps the invariant.                                         *)
LEMMA SendFollowUpInv ==
  ASSUME WorkerIInv, SendFollowUp
  PROVE  WorkerIInv'
<1> USE SendWorkerAssumption DEF WorkerIInv, SendFollowUp, IncSequenceID, Continue,
    readVars, kernelVars, packetVars, bufVars, handlerVars, seqVars
<1>1. wsub \in SyncSubs /\ sequenceID[wsub] \in 0 .. SeqIDs - 1
  BY Zenon DEF Serving, WorkerTypeOK, Subs
<1>2. (sequenceID[wsub] + 1) % SeqIDs \in 0 .. SeqIDs - 1
      /\ (sequenceID[wsub] + 1) % SeqIDs # sequenceID[wsub]
  BY <1>1, ModFacts, Zenon
<1>3. WorkerTypeOK'
  BY <1>1, <1>2, Zenon DEF WorkerTypeOK, WorkerPcs
<1>4. Serving'
  BY Zenon DEF WorkerTypeOK, Serving
<1>5. InOrder'
  BY DEF InOrder, Found, WorkerTypeOK
<1>6. OnlyLatest'
  BY Zenon DEF OnlyLatest, Found
<1>7. SequenceMoves'
  BY <1>1, <1>2, Zenon DEF WorkerTypeOK, SequenceMoves, Subs
<1>8. QED
  BY <1>3, <1>4, <1>5, <1>6, <1>7, Zenon

(* An Announce keeps the invariant.                                        *)
LEMMA SendAnnounceInv ==
  ASSUME WorkerIInv, SendAnnounce
  PROVE  WorkerIInv'
<1> USE SendWorkerAssumption DEF WorkerIInv, SendAnnounce, IncSequenceID, Continue,
    readVars, kernelVars, packetVars, bufVars, handlerVars, seqVars
<1>1. wsub \in AnnounceSubs /\ sequenceID[wsub] \in 0 .. SeqIDs - 1
  BY Zenon DEF Serving, WorkerTypeOK, Subs
<1>2. (sequenceID[wsub] + 1) % SeqIDs \in 0 .. SeqIDs - 1
      /\ (sequenceID[wsub] + 1) % SeqIDs # sequenceID[wsub]
  BY <1>1, ModFacts, Zenon
<1>3. WorkerTypeOK'
  BY <1>1, <1>2, Zenon DEF WorkerTypeOK, WorkerPcs
<1>4. Serving'
  BY Zenon DEF WorkerTypeOK, Serving
<1>5. InOrder'
  BY TimestampsKept, Zenon
<1>6. OnlyLatest'
  BY TimestampsKept, Zenon
<1>7. SequenceMoves'
  BY <1>1, <1>2, Zenon DEF WorkerTypeOK, SequenceMoves, Subs
<1>8. QED
  BY <1>3, <1>4, <1>5, <1>6, <1>7, Zenon

(* A packet that cannot be sent keeps the invariant.                       *)
LEMMA SendFailsInv ==
  ASSUME WorkerIInv, SendFails
  PROVE  WorkerIInv'
<1> USE SendWorkerAssumption DEF WorkerIInv, SendFails, Continue,
    readVars, kernelVars, packetVars, bufVars, handlerVars, seqVars
<1>1. WorkerTypeOK'
  BY Zenon DEF WorkerTypeOK, Serving, WorkerPcs, Subs
<1>2. Serving'
  BY Zenon DEF WorkerTypeOK, Serving
<1>3. InOrder'
  BY TimestampsKept, Zenon
<1>4. OnlyLatest'
  BY TimestampsKept, Zenon
<1>5. SequenceMoves'
  BY Zenon DEF WorkerTypeOK, Serving, SequenceMoves
<1>6. QED
  BY <1>1, <1>2, <1>3, <1>4, <1>5, Zenon

(* The driver delivering a timestamp keeps the invariant.                  *)
LEMMA DeliverInv ==
  ASSUME WorkerIInv, Deliver
  PROVE  WorkerIInv'
<1> USE SendWorkerAssumption DEF WorkerIInv, Deliver,
    readVars, kernelVars, packetVars, bufVars, handlerVars, seqVars
<1>1. LET s2 == Append(errq, Head(pending))
          t2 == Tail(pending)
      IN  /\ s2 \in Seq(Nat) /\ t2 \in Seq(Nat)
          /\ Within(s2, oob, syncs) /\ Within(t2, oob, syncs)
          /\ Ascending(s2) /\ Ascending(t2) /\ Before(s2, t2)
  BY DeliverSeq, Zenon DEF WorkerTypeOK, InOrder
<1>2. ~ gaveUp => /\ wpc = "read"
                  /\ \A i \in 1 .. Len(errq') : errq'[i] = syncs
                  /\ \A i \in 1 .. Len(pending') : pending'[i] = syncs
  BY TailFacts, AppendFacts, SMTT(30) DEF WorkerTypeOK, OnlyLatest
<1>3. WorkerTypeOK'
  BY <1>1, Zenon DEF WorkerTypeOK
<1>4. Serving'
  BY Zenon DEF WorkerTypeOK, Serving
<1>5. InOrder'
  BY <1>1, Zenon DEF InOrder, Found
<1>6. OnlyLatest'
  BY <1>2, Zenon DEF OnlyLatest, Found
<1>7. SequenceMoves'
  BY Zenon DEF WorkerTypeOK, Serving, SequenceMoves
<1>8. QED
  BY <1>3, <1>4, <1>5, <1>6, <1>7, Zenon

(* The driver losing a timestamp keeps the invariant.                      *)
LEMMA LoseTimestampInv ==
  ASSUME WorkerIInv, LoseTimestamp
  PROVE  WorkerIInv'
<1> USE SendWorkerAssumption DEF WorkerIInv, LoseTimestamp,
    readVars, kernelVars, packetVars, bufVars, handlerVars, seqVars
<1>1. /\ Tail(pending) \in Seq(Nat)
      /\ Within(Tail(pending), oob, syncs) /\ Ascending(Tail(pending))
      /\ Before(errq, Tail(pending))
  BY LoseSeq, Zenon DEF WorkerTypeOK, InOrder
<1>2. ~ gaveUp => wpc = "read" /\ \A i \in 1 .. Len(pending') : pending'[i] = syncs
  BY TailFacts DEF WorkerTypeOK, OnlyLatest
<1>3. WorkerTypeOK'
  BY <1>1, Zenon DEF WorkerTypeOK
<1>4. Serving'
  BY Zenon DEF WorkerTypeOK, Serving
<1>5. InOrder'
  BY <1>1, Zenon DEF InOrder, Found
<1>6. OnlyLatest'
  BY <1>2, Zenon DEF OnlyLatest, Found
<1>7. SequenceMoves'
  BY Zenon DEF WorkerTypeOK, Serving, SequenceMoves
<1>8. QED
  BY <1>3, <1>4, <1>5, <1>6, <1>7, Zenon

(* Serialising the header of a Delay_Resp keeps the invariant.             *)
LEMMA SerialiseHeaderInv ==
  ASSUME WorkerIInv, SerialiseHeader
  PROVE  WorkerIInv'
<1> USE SendWorkerAssumption DEF WorkerIInv, SerialiseHeader,
    readVars, kernelVars, packetVars, bufVars, handlerVars, seqVars
<1>1. WorkerTypeOK'
  BY Zenon DEF WorkerTypeOK, Serving, WorkerPcs, Subs
<1>2. Serving'
  BY Zenon DEF WorkerTypeOK, Serving
<1>3. InOrder'
  BY TimestampsKept, Zenon
<1>4. OnlyLatest'
  BY TimestampsKept, Zenon
<1>5. SequenceMoves'
  BY Zenon DEF WorkerTypeOK, Serving, SequenceMoves
<1>6. QED
  BY <1>1, <1>2, <1>3, <1>4, <1>5, Zenon

(* Serialising the body of a Delay_Resp keeps the invariant.               *)
LEMMA SerialiseBodyInv ==
  ASSUME WorkerIInv, SerialiseBody
  PROVE  WorkerIInv'
<1> USE SendWorkerAssumption DEF WorkerIInv, SerialiseBody,
    readVars, kernelVars, packetVars, bufVars, handlerVars, seqVars
<1>1. WorkerTypeOK'
  BY Zenon DEF WorkerTypeOK, Serving, WorkerPcs, Subs
<1>2. Serving'
  BY Zenon DEF WorkerTypeOK, Serving
<1>3. InOrder'
  BY TimestampsKept, Zenon
<1>4. OnlyLatest'
  BY TimestampsKept, Zenon
<1>5. SequenceMoves'
  BY Zenon DEF WorkerTypeOK, Serving, SequenceMoves
<1>6. QED
  BY <1>1, <1>2, <1>3, <1>4, <1>5, Zenon

(* A Delay_Resp keeps the invariant.                                       *)
LEMMA SendDelayRespInv ==
  ASSUME WorkerIInv, SendDelayResp
  PROVE  WorkerIInv'
<1> USE SendWorkerAssumption DEF WorkerIInv, SendDelayResp, IncSequenceID, Continue,
    readVars, kernelVars, packetVars, bufVars, handlerVars, seqVars
<1>1. wsub \in DelaySubs /\ sequenceID[wsub] \in 0 .. SeqIDs - 1
  BY Zenon DEF Serving, WorkerTypeOK, Subs
<1>2. (sequenceID[wsub] + 1) % SeqIDs \in 0 .. SeqIDs - 1
      /\ (sequenceID[wsub] + 1) % SeqIDs # sequenceID[wsub]
  BY <1>1, ModFacts, Zenon
<1>3. WorkerTypeOK'
  BY <1>1, <1>2, Zenon DEF WorkerTypeOK, WorkerPcs
<1>4. Serving'
  BY Zenon DEF WorkerTypeOK, Serving
<1>5. InOrder'
  BY TimestampsKept, Zenon
<1>6. OnlyLatest'
  BY TimestampsKept, Zenon
<1>7. SequenceMoves'
  BY <1>1, <1>2, Zenon DEF WorkerTypeOK, SequenceMoves, Subs
<1>8. QED
  BY <1>3, <1>4, <1>5, <1>6, <1>7, Zenon

(* Receiving a Delay_Req keeps the invariant.                              *)
LEMMA ReceiveDelayReqInv ==
  ASSUME WorkerIInv, NEW h \in Handlers, NEW c \in DelaySubs, ReceiveDelayReq(h, c)
  PROVE  WorkerIInv'
<1> USE SendWorkerAssumption DEF WorkerIInv, ReceiveDelayReq,
    readVars, kernelVars, packetVars, bufVars, handlerVars, seqVars
<1>1. WorkerTypeOK'
  <2>1. reqs' \in 0 .. MaxReqs /\ reqs + 1 \in Nat
    BY DEF WorkerTypeOK
  <2>2. /\ hreq' \in [Handlers -> Nat]
        /\ hsub' \in [Handlers -> DelaySubs \cup {NoWork}]
        /\ lastReq' \in [DelaySubs -> Nat]
    BY <2>1, Zenon DEF WorkerTypeOK
  <2>3. hpc' \in [Handlers -> {"idle", "seq", "body", "once"}]
    BY Zenon DEF WorkerTypeOK
  <2>4. QED
    BY <2>1, <2>2, <2>3, Zenon DEF WorkerTypeOK
<1>2. Serving'
  BY Zenon DEF WorkerTypeOK, Serving
<1>3. InOrder'
  BY WorkerUntouched, Zenon
<1>4. OnlyLatest'
  BY WorkerUntouched, Zenon
<1>5. SequenceMoves'
  BY WorkerUntouched, Zenon
<1>6. QED
  BY <1>1, <1>2, <1>3, <1>4, <1>5, Zenon

(* Writing the sequence ID of a Delay_Resp keeps the invariant.            *)
LEMMA UpdateSequenceIDInv ==
  ASSUME WorkerIInv, NEW h \in Handlers, UpdateSequenceID(h)
  PROVE  WorkerIInv'
<1> USE SendWorkerAssumption DEF WorkerIInv, UpdateSequenceID,
    readVars, kernelVars, packetVars, bufVars, handlerVars, seqVars
<1>1. WorkerTypeOK'
  BY Zenon DEF WorkerTypeOK, Serving, WorkerPcs, Subs
<1>2. Serving'
  BY Zenon DEF WorkerTypeOK, Serving
<1>3. InOrder'
  BY WorkerUntouched, Zenon
<1>4. OnlyLatest'
  BY WorkerUntouched, Zenon
<1>5. SequenceMoves'
  BY WorkerUntouched, Zenon
<1>6. QED
  BY <1>1, <1>2, <1>3, <1>4, <1>5, Zenon

(* Writing the body of a Delay_Resp keeps the invariant.                   *)
LEMMA UpdateBodyInv ==
  ASSUME WorkerIInv, NEW h \in Handlers, UpdateBody(h)
  PROVE  WorkerIInv'
<1> USE SendWorkerAssumption DEF WorkerIInv, UpdateBody,
    readVars, kernelVars, packetVars, bufVars, handlerVars, seqVars
<1>1. WorkerTypeOK'
  BY Zenon DEF WorkerTypeOK, Serving, WorkerPcs, Subs
<1>2. Serving'
  BY Zenon DEF WorkerTypeOK, Serving
<1>3. InOrder'
  BY WorkerUntouched, Zenon
<1>4. OnlyLatest'
  BY WorkerUntouched, Zenon
<1>5. SequenceMoves'
  BY WorkerUntouched, Zenon
<1>6. QED
  BY <1>1, <1>2, <1>3, <1>4, <1>5, Zenon

(* Enqueuing a Delay_Resp keeps the invariant.                             *)
LEMMA EnqueueDelayRespInv ==
  ASSUME WorkerIInv, NEW h \in Handlers, EnqueueDelayResp(h)
  PROVE  WorkerIInv'
<1> USE SendWorkerAssumption DEF WorkerIInv, EnqueueDelayResp,
    readVars, kernelVars, packetVars, bufVars, handlerVars, seqVars
<1>1. hsub[h] \in Subs
  BY Zenon DEF Subs, Serving, WorkerTypeOK
<1>2. /\ wqueue' \in Seq(Subs) /\ Len(wqueue') <= WorkerQueueSize
      /\ wpc' \in WorkerPcs /\ wsub' \in Subs \cup {NoWork}
      /\ \/ UNCHANGED <<wpc, wsub>>
         \/ wpc = "idle" /\ wsub' = hsub[h] /\ wpc' = Entry(hsub[h])
  BY <1>1, EnqueueFacts, Zenon
<1>3. Entry(hsub[h]) \in {"sync", "announce", "header"}
  BY Zenon DEF Entry
<1>4. WorkerTypeOK'
  BY <1>2, Zenon DEF WorkerTypeOK
<1>5. Serving'
  <2>1. UNCHANGED <<wpc, wsub>> \/ (wsub' = hsub[h] /\ wpc' = Entry(hsub[h]))
    BY <1>2, Zenon
  <2>2. /\ hpc'[h] = "idle" /\ hsub'[h] = NoWork
        /\ \A g \in Handlers : g # h => hpc'[g] = hpc[g] /\ hsub'[g] = hsub[g]
    BY Zenon DEF WorkerTypeOK
  <2>3. \A g \in Handlers : /\ hpc'[g] = "idle" => hsub'[g] = NoWork
                            /\ hpc'[g] # "idle" => hsub'[g] \in DelaySubs
    BY <2>2, Zenon DEF Serving
  <2>4. /\ wpc' = "idle" => wsub' = NoWork
        /\ wpc' \in {"sync", "read", "found"} => wsub' \in SyncSubs
        /\ wpc' = "announce" => wsub' \in AnnounceSubs
        /\ wpc' \in {"header", "body", "send"} => wsub' \in DelaySubs
    <3> HIDE DEF EnqueueDelayResp
    <3>1. QED
      BY <1>1, <2>1, WorkerServes, Zenon
  <2>5. QED
    <3> HIDE DEF EnqueueDelayResp, WorkerIInv
    <3>1. QED
      BY <2>3, <2>4, Zenon DEF Serving
<1>6. InOrder'
  BY <1>2, <1>3, TimestampsKept, WorkerUntouched, Zenon
<1>7. OnlyLatest'
  BY <1>2, <1>3, TimestampsKept, WorkerUntouched, Zenon
<1>8. SequenceMoves'
  BY <1>2, <1>3, Zenon DEF SequenceMoves
<1>9. QED
  BY <1>4, <1>5, <1>6, <1>7, <1>8, Zenon

(* Every step keeps the invariant.                                         *)
LEMMA WorkerNextIInv == WorkerIInv /\ [WorkerNext]_workerVars => WorkerIInv'
<1> SUFFICES ASSUME WorkerIInv, [WorkerNext]_workerVars PROVE WorkerIInv'
  BY Zenon
<1>1. CASE Worker
  BY <1>1, ServeNextInv, SendSyncInv, RecvTimestampInv, RecvNothingInv, AttemptsUsedUpInv,
     SendFollowUpInv, SendAnnounceInv, SendFailsInv, SerialiseHeaderInv,
     SerialiseBodyInv, SendDelayRespInv, Zenon DEF Worker
<1>2. CASE \E c \in SyncSubs \cup AnnounceSubs : SenderTick(c)
  BY <1>2, SenderTickInv, Zenon
<1>3. CASE \E h \in Handlers, c \in DelaySubs : ReceiveDelayReq(h, c)
  BY <1>3, ReceiveDelayReqInv, Zenon
<1>4. CASE \E h \in Handlers : EventHandler(h)
  BY <1>4, UpdateSequenceIDInv, UpdateBodyInv, EnqueueDelayRespInv, Zenon DEF EventHandler
<1>5. CASE Deliver \/ LoseTimestamp
  BY <1>5, DeliverInv, LoseTimestampInv, Zenon
<1>6. CASE UNCHANGED workerVars
  <2> USE DEF WorkerIInv, workerVars, readVars, kernelVars, packetVars, bufVars, handlerVars, seqVars
  <2>1. WorkerTypeOK'
    BY <1>6, Zenon DEF WorkerTypeOK
  <2>2. Serving'
    BY <1>6, Zenon DEF Serving
  <2>3. InOrder' /\ OnlyLatest' /\ SequenceMoves'
    BY <1>6, WorkerUntouched, Zenon
  <2>4. QED
    BY <2>1, <2>2, <2>3, Zenon
<1>7. QED
  BY <1>1, <1>2, <1>3, <1>4, <1>5, <1>6, Zenon DEF WorkerNext

(* The invariant holds in every state of a worker, its handlers and the    *)
(* driver.                                                                 *)
THEOREM WorkerInvariance == WorkerSpec => []WorkerIInv
<1>1. QED
  BY WorkerInitIInv, WorkerNextIInv, PTL DEF WorkerSpec

(* The queue never exceeds its capacity and sequence IDs stay within their *)
(* width, for every configuration.                                         *)
THEOREM WorkerTypeCorrect == WorkerSpec => []WorkerTypeOK
<1>1. WorkerIInv => WorkerTypeOK
  BY Zenon DEF WorkerIInv
<1>2. QED
  BY WorkerInvariance, <1>1, PTL

(* ReadTXtimestampBuf returns the timestamp of the Sync just sent as long  *)
(* as it never gave up, whatever the driver delays and however many        *)
(* attempts are configured.                                                *)
THEOREM OwnTimestamp == WorkerSpec => []OwnUnlessGaveUp
<1>1. WorkerIInv => OwnUnlessGaveUp
  BY Zenon DEF WorkerIInv, OnlyLatest, Found, OwnUnlessGaveUp
<1>2. QED
  BY WorkerInvariance, <1>1, PTL

(* FollowUps carry ever newer timestamps, even after reads that gave up.   *)
THEOREM NewerTimestamps == WorkerSpec => []TimestampsAdvance
<1>1. WorkerIInv => TimestampsAdvance
  BY Zenon DEF WorkerIInv, InOrder, Found, TimestampsAdvance
<1>2. QED
  BY WorkerInvariance, <1>1, PTL

(* A Sync repeats the sequence ID of the Sync before it only if that one   *)
(* got no FollowUp, also across the wrap of the uint16 counter.            *)
THEOREM SequenceIDsMove == WorkerSpec => []ReuseOnlyUnfollowed
<1>1. WorkerIInv => ReuseOnlyUnfollowed
  BY Zenon DEF WorkerIInv, Serving, SequenceMoves, ReuseOnlyUnfollowed
<1>2. QED
  BY WorkerInvariance, <1>1, PTL

-----------------------------------------------------------------------------
(* With one handler: appending to the queue queues the subscription.      *)
LEMMA QueuedAppend ==
  ASSUME NEW c \in Subs, NEW x \in Subs, wqueue \in Seq(Subs), wqueue' = Append(wqueue, x)
  PROVE  Queued(c)' <=> Queued(c) \/ x = c
<1>1. /\ Len(wqueue) \in Nat /\ Len(wqueue') = Len(wqueue) + 1
      /\ wqueue'[Len(wqueue) + 1] = x
      /\ \A i \in 1 .. Len(wqueue) : wqueue'[i] = wqueue[i]
      /\ \A i \in 1 .. Len(wqueue') : i \in 1 .. Len(wqueue) \/ i = Len(wqueue) + 1
  BY AppendFacts
<1>2. \A i \in 1 .. Len(wqueue) : i \in 1 .. Len(wqueue')
  BY <1>1
<1>3. Len(wqueue) + 1 \in 1 .. Len(wqueue')
  BY <1>1
<1>4. QED
  BY <1>1, <1>2, <1>3, Zenon DEF Queued

(* Taking the head of the queue leaves the other subscriptions queued.     *)
LEMMA QueuedTail ==
  ASSUME NEW c \in Subs, wqueue \in Seq(Subs), wqueue # <<>>, wqueue' = Tail(wqueue)
  PROVE  Queued(c) => Queued(c)' \/ Head(wqueue) = c
<1> SUFFICES ASSUME NEW i \in 1 .. Len(wqueue), wqueue[i] = c, Head(wqueue) # c
             PROVE  Queued(c)'
  BY Zenon DEF Queued
<1>1. /\ Head(wqueue) = wqueue[1] /\ Len(wqueue) \in Nat /\ Len(wqueue') = Len(wqueue) - 1
      /\ \A j \in 1 .. Len(wqueue') : wqueue'[j] = wqueue[j + 1]
  BY TailFacts, Zenon
<1>2. i # 1
  BY <1>1, Zenon
<1>3. i - 1 \in 1 .. Len(wqueue') /\ (i - 1) + 1 = i
  BY <1>1, <1>2
<1>4. wqueue'[i - 1] = c
  BY <1>1, <1>3, Zenon
<1>5. QED
  BY <1>3, <1>4, Zenon DEF Queued

(* A tick of another subscription leaves the Delay_Resp of c alone.        *)
LEMMA SenderTickAnswering ==
  ASSUME WorkerIInv, NEW c \in DelaySubs, Answering(c), NEW x \in SyncSubs \cup AnnounceSubs,
         SenderTick(x)
  PROVE  Answering(c)'
<1> USE SendWorkerAssumption DEF WorkerIInv, SenderTick,
    readVars, kernelVars, packetVars, bufVars, handlerVars, seqVars
<1>1. c \in Subs /\ x \in Subs
  BY Zenon DEF Subs, Serving, WorkerTypeOK
<1>2. CASE wqueue' = Append(wqueue, x) /\ UNCHANGED <<wpc, wsub>>
  <2>1. Queued(c)' <=> Queued(c) \/ x = c
    BY <1>1, <1>2, QueuedAppend, Zenon DEF WorkerTypeOK
  <2>2. QED
    BY <1>2, <2>1, Zenon DEF WorkerTypeOK, Serving, Answering, Handled
<1>3. CASE /\ wpc = "idle" /\ wpc' = Entry(x) /\ wsub' = x /\ UNCHANGED wqueue
  <2>1. Entry(x) \in {"sync", "announce", "header"}
    BY Zenon DEF Entry
  <2>2. Queued(c)' <=> Queued(c)
    BY <1>3, Zenon DEF Queued
  <2>3. wsub = NoWork /\ wsub # c
    BY <1>3, Zenon DEF Serving, Subs
  <2>4. QED
    BY <1>3, <2>1, <2>2, <2>3, Zenon DEF WorkerTypeOK, Serving, Answering, Handled
<1>4. QED
  BY <1>2, <1>3, Zenon DEF Enqueue

(* The worker starts to serve c only from the queue.                       *)
LEMMA ServeNextAnswering ==
  ASSUME WorkerIInv, NEW c \in DelaySubs, Answering(c), ServeNext
  PROVE  Answering(c)'
<1> USE SendWorkerAssumption DEF WorkerIInv, ServeNext,
    readVars, kernelVars, packetVars, bufVars, handlerVars, seqVars
<1>1. Head(wqueue) \in Subs /\ c \in Subs
  BY TailFacts, Zenon DEF WorkerTypeOK, Subs
<1>2. Entry(Head(wqueue)) \in {"sync", "announce", "header"}
  BY Zenon DEF Entry
<1>3. Queued(c) => Queued(c)' \/ Head(wqueue) = c
  BY <1>1, QueuedTail, Zenon DEF WorkerTypeOK
<1>4. wsub = NoWork /\ wsub # c
  BY Zenon DEF Serving, Subs
<1>5. QED
  BY <1>2, <1>3, <1>4, Zenon DEF WorkerTypeOK, Answering, Handled

(* A Sync leaves the Delay_Resp of c alone.                                *)
LEMMA SendSyncAnswering ==
  ASSUME WorkerIInv, NEW c \in DelaySubs, Answering(c), SendSync
  PROVE  Answering(c)'
<1> USE SendWorkerAssumption DEF WorkerIInv, SendSync,
    readVars, kernelVars, packetVars, bufVars, handlerVars, seqVars
<1> QED
  BY Zenon DEF WorkerTypeOK, Serving, Answering, Handled, Queued

(* Reading a timestamp leaves the Delay_Resp of c alone.                   *)
LEMMA RecvTimestampAnswering ==
  ASSUME WorkerIInv, NEW c \in DelaySubs, Answering(c), RecvTimestamp
  PROVE  Answering(c)'
<1> USE SendWorkerAssumption DEF WorkerIInv, RecvTimestamp,
    readVars, kernelVars, packetVars, bufVars, handlerVars, seqVars
<1> QED
  BY Zenon DEF WorkerTypeOK, Serving, Answering, Handled, Queued

(* So does an empty error queue,                                           *)
LEMMA RecvNothingAnswering ==
  ASSUME WorkerIInv, NEW c \in DelaySubs, Answering(c), RecvNothing
  PROVE  Answering(c)'
<1> USE SendWorkerAssumption DEF WorkerIInv, RecvNothing,
    readVars, kernelVars, packetVars, bufVars, handlerVars, seqVars
<1> QED
  BY Zenon DEF WorkerTypeOK, Serving, Answering, Handled, Queued

(* running out of attempts,                                                *)
LEMMA AttemptsUsedUpAnswering ==
  ASSUME WorkerIInv, NEW c \in DelaySubs, Answering(c), AttemptsUsedUp
  PROVE  Answering(c)'
<1> USE SendWorkerAssumption DEF WorkerIInv, AttemptsUsedUp, Continue,
    readVars, kernelVars, packetVars, bufVars, handlerVars, seqVars
<1> QED
  BY Zenon DEF WorkerTypeOK, Serving, Answering, Handled, Queued

(* a FollowUp,                                                             *)
LEMMA SendFollowUpAnswering ==
  ASSUME WorkerIInv, NEW c \in DelaySubs, Answering(c), SendFollowUp
  PROVE  Answering(c)'
<1> USE SendWorkerAssumption DEF WorkerIInv, SendFollowUp, IncSequenceID, Continue,
    readVars, kernelVars, packetVars, bufVars, handlerVars, seqVars
<1> QED
  BY Zenon DEF WorkerTypeOK, Serving, Answering, Handled, Queued

(* an Announce,                                                            *)
LEMMA SendAnnounceAnswering ==
  ASSUME WorkerIInv, NEW c \in DelaySubs, Answering(c), SendAnnounce
  PROVE  Answering(c)'
<1> USE SendWorkerAssumption DEF WorkerIInv, SendAnnounce, IncSequenceID, Continue,
    readVars, kernelVars, packetVars, bufVars, handlerVars, seqVars
<1> QED
  BY Zenon DEF WorkerTypeOK, Serving, Answering, Handled, Queued

(* and a packet that cannot be sent (its Delay_Resp was built).            *)
LEMMA SendFailsAnswering ==
  ASSUME WorkerIInv, NEW c \in DelaySubs, Answering(c), SendFails
  PROVE  Answering(c)'
<1> USE SendWorkerAssumption DEF WorkerIInv, SendFails, Continue,
    readVars, kernelVars, packetVars, bufVars, handlerVars, seqVars
<1> QED
  BY Zenon DEF WorkerTypeOK, Serving, Answering, Handled, Queued

(* The driver does not touch the Delay_Resp of c                           *)
LEMMA DeliverAnswering ==
  ASSUME WorkerIInv, NEW c \in DelaySubs, Answering(c), Deliver
  PROVE  Answering(c)'
<1> USE SendWorkerAssumption DEF WorkerIInv, Deliver,
    readVars, kernelVars, packetVars, bufVars, handlerVars, seqVars
<1> QED
  BY Zenon DEF WorkerTypeOK, Serving, Answering, Handled, Queued

(* when it loses a timestamp either.                                       *)
LEMMA LoseTimestampAnswering ==
  ASSUME WorkerIInv, NEW c \in DelaySubs, Answering(c), LoseTimestamp
  PROVE  Answering(c)'
<1> USE SendWorkerAssumption DEF WorkerIInv, LoseTimestamp,
    readVars, kernelVars, packetVars, bufVars, handlerVars, seqVars
<1> QED
  BY Zenon DEF WorkerTypeOK, Serving, Answering, Handled, Queued

(* The header the worker serialises is that of the latest request.         *)
LEMMA SerialiseHeaderAnswering ==
  ASSUME WorkerIInv, NEW c \in DelaySubs, Answering(c), SerialiseHeader
  PROVE  Answering(c)'
<1> USE SendWorkerAssumption DEF WorkerIInv, SerialiseHeader,
    readVars, kernelVars, packetVars, bufVars, handlerVars, seqVars
<1> QED
  BY Zenon DEF WorkerTypeOK, Serving, Answering, Handled, Queued

(* So is the body.                                                         *)
LEMMA SerialiseBodyAnswering ==
  ASSUME WorkerIInv, NEW c \in DelaySubs, Answering(c), SerialiseBody
  PROVE  Answering(c)'
<1> USE SendWorkerAssumption DEF WorkerIInv, SerialiseBody,
    readVars, kernelVars, packetVars, bufVars, handlerVars, seqVars
<1> QED
  BY Zenon DEF WorkerTypeOK, Serving, Answering, Handled, Queued

(* A Delay_Resp sent answers the latest request.                           *)
LEMMA SendDelayRespAnswering ==
  ASSUME WorkerIInv, NEW c \in DelaySubs, Answering(c), SendDelayResp
  PROVE  Answering(c)'
<1> USE SendWorkerAssumption DEF WorkerIInv, SendDelayResp, IncSequenceID, Continue,
    readVars, kernelVars, packetVars, bufVars, handlerVars, seqVars
<1> QED
  BY Zenon DEF WorkerTypeOK, Serving, Answering, Handled, Queued

(* The only handler takes the latest request.                              *)
LEMMA ReceiveDelayReqAnswering ==
  ASSUME WorkerIInv, NEW c \in DelaySubs, Answering(c), 
         NEW h \in Handlers, NEW x \in DelaySubs,
         \E g \in Handlers : Handlers = {g}, ReceiveDelayReq(h, x)
  PROVE  Answering(c)'
<1> USE SendWorkerAssumption DEF WorkerIInv, ReceiveDelayReq,
    readVars, kernelVars, packetVars, bufVars, handlerVars, seqVars
<1>1. \A g \in Handlers : g = h
  BY Zenon
<1>2. hsub'[h] = x /\ hreq'[h] = reqs + 1 /\ hpc'[h] = "seq" /\ hsub[h] = NoWork
  BY Zenon DEF WorkerTypeOK, Serving
<1>3. CASE x = c
  <2>1. lastReq'[c] = reqs + 1 /\ Handled(c)'
    BY <1>2, <1>3, Zenon DEF WorkerTypeOK, Handled
  <2>2. QED
    BY <1>1, <1>2, <2>1, Zenon DEF Answering
<1>4. CASE x # c
  <2>1. lastReq'[c] = lastReq[c] /\ ~ Handled(c) /\ \A g \in Handlers : hsub'[g] # c
    BY <1>1, <1>2, <1>4, Zenon DEF WorkerTypeOK, Handled, Subs
  <2>2. Queued(c)' <=> Queued(c)
    BY Zenon DEF Queued
  <2>3. QED
    BY <2>1, <2>2, Zenon DEF Answering
<1>5. QED
  BY <1>3, <1>4, Zenon

(* It writes its sequence ID,                                              *)
LEMMA UpdateSequenceIDAnswering ==
  ASSUME WorkerIInv, NEW c \in DelaySubs, Answering(c), NEW h \in Handlers,
         \E g \in Handlers : Handlers = {g}, UpdateSequenceID(h)
  PROVE  Answering(c)'
<1> USE SendWorkerAssumption DEF WorkerIInv, UpdateSequenceID,
    readVars, kernelVars, packetVars, bufVars, handlerVars, seqVars
<1> QED
  BY Zenon DEF WorkerTypeOK, Serving, Answering, Handled, Queued

(* then its body,                                                          *)
LEMMA UpdateBodyAnswering ==
  ASSUME WorkerIInv, NEW c \in DelaySubs, Answering(c), NEW h \in Handlers,
         \E g \in Handlers : Handlers = {g}, UpdateBody(h)
  PROVE  Answering(c)'
<1> USE SendWorkerAssumption DEF WorkerIInv, UpdateBody,
    readVars, kernelVars, packetVars, bufVars, handlerVars, seqVars
<1> QED
  BY Zenon DEF WorkerTypeOK, Serving, Answering, Handled, Queued

(* and queues the subscription.                                            *)
LEMMA EnqueueDelayRespAnswering ==
  ASSUME WorkerIInv, NEW c \in DelaySubs, Answering(c), NEW h \in Handlers,
         \E g \in Handlers : Handlers = {g}, EnqueueDelayResp(h)
  PROVE  Answering(c)'
<1> USE SendWorkerAssumption DEF WorkerIInv, EnqueueDelayResp,
    readVars, kernelVars, packetVars, bufVars, handlerVars, seqVars
<1>1. c \in Subs /\ hsub[h] \in DelaySubs /\ hsub[h] \in Subs
  BY Zenon DEF Subs, Serving, WorkerTypeOK
<1>2. \A g \in Handlers : g = h /\ hsub'[g] = NoWork
  BY Zenon DEF WorkerTypeOK
<1>3. ~ Handled(c)' /\ (Handled(c) <=> hsub[h] = c)
  BY <1>1, <1>2, Zenon DEF Handled, Subs
<1>4. respSeq'[c] = lastReq'[c] /\ respBody'[c] = lastReq'[c]
  BY <1>2, <1>3, Zenon DEF Answering
<1>5. CASE wqueue' = Append(wqueue, hsub[h]) /\ UNCHANGED <<wpc, wsub>>
  <2>1. Queued(c)' <=> Queued(c) \/ hsub[h] = c
    BY <1>1, <1>5, QueuedAppend, Zenon DEF WorkerTypeOK
  <2>2. QED
    BY <1>1, <1>2, <1>3, <1>4, <1>5, <2>1, Zenon DEF Answering, Subs
<1>6. CASE wpc = "idle" /\ wpc' = Entry(hsub[h]) /\ wsub' = hsub[h] /\ UNCHANGED wqueue
  <2>1. wpc' \in {"sync", "announce", "header"}
    BY <1>6, Zenon DEF Entry
  <2>2. Queued(c)' <=> Queued(c)
    BY <1>6, Zenon DEF Queued
  <2>3. wsub = NoWork /\ wsub # c
    BY <1>6, Zenon DEF Serving, Subs
  <2>4. QED
    BY <1>1, <1>2, <1>3, <1>4, <1>6, <2>1, <2>2, <2>3, Zenon DEF Answering, Subs
<1>7. QED
  BY <1>5, <1>6, Zenon DEF Enqueue

(* One goroutine runs handleEventMessages: RecvWorkers is 1.               *)
OneHandler == \E g \in Handlers : Handlers = {g}

AllAnswering == \A c \in DelaySubs : Answering(c)

(* With one handler, every step keeps track of the latest requests.        *)
LEMMA NextAnswering ==
  ASSUME OneHandler
  PROVE  WorkerIInv /\ AllAnswering /\ [WorkerNext]_workerVars => AllAnswering'
<1> SUFFICES ASSUME WorkerIInv, AllAnswering, [WorkerNext]_workerVars, NEW c \in DelaySubs
             PROVE  Answering(c)'
  BY Zenon DEF AllAnswering
<1> Answering(c)
  BY Zenon DEF AllAnswering
<1> USE DEF OneHandler
<1>1. CASE Worker
  BY <1>1, ServeNextAnswering, SendSyncAnswering, RecvTimestampAnswering,
     RecvNothingAnswering, AttemptsUsedUpAnswering, SendFollowUpAnswering,
     SendAnnounceAnswering, SendFailsAnswering, SerialiseHeaderAnswering,
     SerialiseBodyAnswering, SendDelayRespAnswering, Zenon DEF Worker
<1>2. CASE \E x \in SyncSubs \cup AnnounceSubs : SenderTick(x)
  BY <1>2, SenderTickAnswering, Zenon
<1>3. CASE \E h \in Handlers, x \in DelaySubs : ReceiveDelayReq(h, x)
  BY <1>3, ReceiveDelayReqAnswering, Zenon
<1>4. CASE \E h \in Handlers : EventHandler(h)
  BY <1>4, UpdateSequenceIDAnswering, UpdateBodyAnswering, EnqueueDelayRespAnswering, Zenon
     DEF EventHandler
<1>5. CASE Deliver \/ LoseTimestamp
  BY <1>5, DeliverAnswering, LoseTimestampAnswering, Zenon
<1>6. CASE UNCHANGED workerVars
  BY <1>6, Zenon DEF Answering, Handled, Queued, workerVars, readVars, kernelVars, packetVars,
              bufVars, handlerVars, seqVars
<1>7. QED
  BY <1>1, <1>2, <1>3, <1>4, <1>5, <1>6, Zenon DEF WorkerNext

(* With one event handler, overwriting the only Delay_Resp packet loses    *)
(* nothing a client still waits for: once its subscription is at rest, its *)
(* last Delay_Resp carries the sequence ID and the time of its last        *)
(* Delay_Req.                                                              *)
THEOREM OneHandlerAnswers ==
  ASSUME OneHandler
  PROVE  WorkerSpec => []QuietMeansAnswered
<1>1. WorkerInit => AllAnswering
  BY SendWorkerAssumption, Zenon DEF WorkerInit, AllAnswering, Answering, Handled, Queued, Subs
<1>2. WorkerIInv /\ AllAnswering => QuietMeansAnswered
  BY Zenon DEF AllAnswering, Answering, QuietMeansAnswered, Handled, Queued
<1>3. QED
  BY <1>1, <1>2, NextAnswering, WorkerInvariance, PTL DEF WorkerSpec

-----------------------------------------------------------------------------
(* Statistics *)

(* How far Snapshot and Reset have come: which keys are copied and not     *)
(* reset yet.                                                              *)
Progress ==
  /\ mpc = "wait" => copied = {}
  /\ mpc = "snapshot" => \A i \in Maps : i < pos => MapKeys[i] \subseteq copied
  /\ mpc = "reset" => \A i \in Maps :
       /\ i >= pos => MapKeys[i] \subseteq copied
       /\ i < pos => MapKeys[i] \cap copied = {}

(* What has been reported of the increments of a key.                      *)
Accounts ==
  \A k \in CountKeys :
    /\ k \in copied => reported[k] = counted[k]
    /\ k \notin copied => reported[k] + counters[k] = counted[k]

(* Where the latest inventory is.                                          *)
InventoryKept ==
  \A k \in InvKeys :
    /\ mpc = "wait" => counters[k] = 0 /\ report[k] = inventory[k]
    /\ mpc = "snapshot" =>
         counters[k] = inventory[k] /\ (k \in copied => report[k] = inventory[k])
    /\ mpc = "reset" => report[k] = inventory[k] /\ (k \notin copied => counters[k] = 0)

(* A maximum between its comparison and its store is a new maximum.        *)
PendingKept ==
  \A k \in MaxKeys : pendingMax[k] # -1 => pendingMax[k] >= recorded[k]

(* Which rounds the values of the report, and what a request has read of   *)
(* them, come from.                                                        *)
OneRound ==
  /\ mpc # "snapshot" => \A k \in StatKeys : repRound[k] = rounds
  /\ mpc = "snapshot" => \A k \in copied : repRound[k] = rounds
  /\ http = "read" /\ hquiet =>
       \A k \in StatKeys : /\ \A l \in StatKeys : repRound[k] = repRound[l]
                       /\ \A r \in hround : r = repRound[k]
  /\ hround # {} => hread # {}

(* The inductive invariant.                                                *)
StatsIInv ==
  /\ StatsTypeOK /\ Progress /\ Accounts /\ InventoryKept
  /\ MaximumKept /\ PendingKept /\ OneRound

(* The initial state satisfies the inductive invariant.                    *)
LEMMA StatsInitIInv == StatsInit => StatsIInv
  BY StatsAssumption DEF StatsInit, Zero, StatsIInv, StatsTypeOK, Progress, Accounts,
     InventoryKept, MaximumKept, PendingKept, OneRound, StatKeys

(* Counting an increment keeps the invariant.                              *)
LEMMA CountInv ==
  ASSUME StatsIInv, NEW k \in CountKeys, Count(k)
  PROVE  StatsIInv'
<1> USE StatsAssumption DEF StatsIInv, Count, Inc, metricVars, httpVars, roundVars
<1>1. StatsTypeOK'
  BY SMTT(30) DEF StatsTypeOK, StatKeys
<1>2. Progress' /\ OneRound'
  BY SMTT(30) DEF Progress, OneRound
<1>3. Accounts'
  BY SMTT(30) DEF StatsTypeOK, Accounts, StatKeys
<1>4. InventoryKept'
  BY SMTT(30) DEF StatsTypeOK, InventoryKept, StatKeys
<1>5. MaximumKept' /\ PendingKept'
  BY DEF StatsTypeOK, MaximumKept, PendingKept, StatKeys
<1>6. QED
  BY <1>1, <1>2, <1>3, <1>4, <1>5, SMTT(30)

(* Comparing a maximum keeps the invariant.                                *)
LEMMA LoadMaxInv ==
  ASSUME StatsIInv, NEW k \in MaxKeys, NEW v \in 0 .. MaxValue, LoadMax(k, v)
  PROVE  StatsIInv'
<1> USE StatsAssumption DEF StatsIInv, LoadMax, metricVars, httpVars, roundVars
<1>1. StatsTypeOK'
  BY SMTT(30) DEF StatsTypeOK
<1>2. Progress' /\ Accounts' /\ InventoryKept' /\ OneRound'
  BY Zenon DEF Progress, Accounts, InventoryKept, OneRound
<1>3. MaximumKept' /\ PendingKept'
  BY DEF StatsTypeOK, MaximumKept, PendingKept, Exceeds, StatKeys
<1>4. QED
  BY <1>1, <1>2, <1>3, SMTT(30)

(* Storing a maximum keeps the invariant.                                  *)
LEMMA StoreMaxInv ==
  ASSUME StatsIInv, NEW k \in MaxKeys, StoreMax(k)
  PROVE  StatsIInv'
<1> USE StatsAssumption DEF StatsIInv, StoreMax, metricVars, httpVars, histVars, roundVars
<1>1. StatsTypeOK'
  BY SMTT(30) DEF StatsTypeOK, StatKeys
<1>2. Progress' /\ OneRound'
  BY SMTT(30) DEF Progress, OneRound
<1>3. Accounts' /\ InventoryKept'
  BY SMTT(30) DEF StatsTypeOK, Accounts, InventoryKept, StatKeys
<1>4. MaximumKept' /\ PendingKept'
  BY DEF StatsTypeOK, MaximumKept, PendingKept, StatKeys
<1>5. QED
  BY <1>1, <1>2, <1>3, <1>4, SMTT(30)

(* The inventory keeps the invariant: the counters it adds to are 0.       *)
LEMMA CountSubscriptionsInv ==
  ASSUME StatsIInv, NEW n \in [InvKeys -> 0 .. MaxValue], CountSubscriptions(n)
  PROVE  StatsIInv'
<1> USE StatsAssumption DEF StatsIInv, CountSubscriptions, httpVars, roundVars
<1>1. StatsTypeOK'
  BY DEF StatsTypeOK, StatKeys
<1>2. Progress'
  BY SMTT(30) DEF Progress, Maps
<1>3. Accounts' /\ InventoryKept'
  BY SMTT(30) DEF StatsTypeOK, Progress, Accounts, InventoryKept, StatKeys
<1>4. MaximumKept' /\ PendingKept'
  BY SMTT(30) DEF StatsTypeOK, MaximumKept, PendingKept, StatKeys
<1>5. OneRound'
  BY SMTT(30) DEF StatsTypeOK, Progress, OneRound
<1>6. QED
  BY <1>1, <1>2, <1>3, <1>4, <1>5, SMTT(30)

(* Copying a key keeps the invariant.                                      *)
LEMMA CopyInv ==
  ASSUME StatsIInv, NEW k \in StatKeys, Copy(k)
  PROVE  StatsIInv'
<1> USE StatsAssumption DEF StatsIInv, Copy, httpVars, roundVars
<1>1. StatsTypeOK'
  <2>1. hquiet' \in BOOLEAN /\ copied' \in SUBSET StatKeys
    BY Zenon DEF StatsTypeOK
  <2>2. /\ report' \in [StatKeys -> Nat] /\ repRound' \in [StatKeys -> Nat]
        /\ reported' \in [CountKeys -> Nat]
    BY SMTT(30) DEF StatsTypeOK, StatKeys
  <2>3. QED
    BY <2>1, <2>2 DEF StatsTypeOK
<1>2. Progress'
  BY SMTT(30) DEF Progress
<1>3. Accounts'
  BY SMTT(30) DEF StatsTypeOK, Accounts, StatKeys
<1>4. InventoryKept'
  BY SMTT(30) DEF StatsTypeOK, InventoryKept, StatKeys
<1>5. MaximumKept' /\ PendingKept'
  BY Zenon DEF MaximumKept, PendingKept
<1>6. OneRound'
  BY SMTT(30) DEF StatsTypeOK, OneRound
<1>7. QED
  BY <1>1, <1>2, <1>3, <1>4, <1>5, <1>6, SMTT(30)

(* Going on to the next map, or to Reset once every map is copied, keeps   *)
(* the invariant.                                                          *)
LEMMA NextMapInv ==
  ASSUME StatsIInv, NextMap
  PROVE  StatsIInv'
<1> USE StatsAssumption DEF StatsIInv, httpVars, histVars, roundVars
<1>1. /\ mpc = "snapshot"
      /\ UNCHANGED <<counters, report, copied, rounds, pendingMax, httpVars, events,
                     roundVars, histVars>>
  BY SMTT(30) DEF NextMap
<1>2. CASE pos <= NMaps /\ MapKeys[pos] \subseteq copied /\ pos' = pos + 1 /\ mpc' = mpc
  <2>1. StatsTypeOK'
    BY <1>1, <1>2, SMTT(30) DEF StatsTypeOK
  <2>2. Progress'
    BY <1>1, <1>2, SMTT(30) DEF StatsTypeOK, Progress, Maps
  <2>3. QED
    BY <1>1, <1>2, <2>1, <2>2, ZenonT(30) DEF Accounts, InventoryKept, MaximumKept, PendingKept,
       OneRound
<1>3. CASE ~ (pos <= NMaps) /\ mpc' = "reset" /\ pos' = 1
  <2>1. \A i \in Maps : MapKeys[i] \subseteq copied
    BY <1>1, <1>3, SMTT(30) DEF StatsTypeOK, Progress, Maps
  <2>2. StatsTypeOK'
    BY <1>1, <1>3, SMTT(30) DEF StatsTypeOK
  <2>3. Progress'
    BY <1>1, <1>3, <2>1 DEF Progress, Maps
  <2>4. \A k \in StatKeys : k \in copied
    BY <2>1, SMTT(30)
  <2>5. InventoryKept'
    BY <1>1, <1>3, <2>4, Zenon DEF InventoryKept, StatKeys
  <2>6. OneRound'
    BY <1>1, <1>3, <2>4 DEF OneRound
  <2>7. QED
    BY <1>1, <1>3, <2>2, <2>3, <2>5, <2>6, ZenonT(30) DEF Accounts, MaximumKept, PendingKept
<1>4. QED
  BY <1>2, <1>3 DEF NextMap

(* Resetting a map keeps the invariant: its keys have been copied.         *)
LEMMA ResetMapInv ==
  ASSUME StatsIInv, ResetMap
  PROVE  StatsIInv'
<1> USE StatsAssumption DEF StatsIInv, httpVars, roundVars
<1>1. /\ mpc = "reset"
      /\ UNCHANGED <<report, rounds, pendingMax, httpVars, events, roundVars, counted,
                     reported, inventory>>
  BY SMTT(30) DEF ResetMap
<1>2. CASE pos <= NMaps
  <2>1. /\ counters' = [k \in StatKeys |-> IF k \in MapKeys[pos] THEN 0 ELSE counters[k]]
        /\ copied' = copied \ MapKeys[pos]
        /\ pos' = pos + 1
        /\ mpc' = mpc
    BY <1>2, SMTT(30) DEF ResetMap, Cleared
  <2>2. /\ recorded' \in [MaxKeys -> Nat]
        /\ \A k \in MaxKeys :
             /\ k \notin MapKeys[pos] => recorded'[k] = recorded[k]
             /\ k \in MapKeys[pos] /\ pendingMax[k] = -1 => recorded'[k] = 0
             /\ k \in MapKeys[pos] /\ pendingMax[k] # -1 => recorded'[k] = pendingMax[k]
    BY <1>2, SMTT(30) DEF ResetMap, Upcoming, StatsTypeOK
  <2>3. pos \in Maps /\ MapKeys[pos] \subseteq copied
    BY <1>1, <1>2, SMTT(30) DEF StatsTypeOK, Progress, Maps
  <2>4. StatsTypeOK'
    BY <1>1, <1>2, <2>1, <2>2, SMTT(30) DEF StatsTypeOK
  <2>5. Progress'
    <3>1. ASSUME NEW i \in Maps, i >= pos'
          PROVE  MapKeys[i] \subseteq copied'
      BY <1>1, <2>1, <2>3, <3>1, SMTT(30) DEF StatsTypeOK, Progress, Maps
    <3>2. ASSUME NEW i \in Maps, i < pos'
          PROVE  MapKeys[i] \cap copied' = {}
      BY <1>1, <2>1, <2>3, <3>2, SMTT(30) DEF StatsTypeOK, Progress, Maps
    <3>3. QED
      BY <1>1, <2>1, <3>1, <3>2, SMTT(30) DEF Progress
  <2>6. Accounts'
    BY <1>1, <2>1, <2>3, SMTT(30) DEF StatsTypeOK, Accounts, StatKeys
  <2>7. InventoryKept'
    BY <1>1, <2>1, <2>3, SMTT(30) DEF StatsTypeOK, InventoryKept, StatKeys
  <2>8. \A k \in MaxKeys :
          /\ pendingMax'[k] = -1 => counters'[k] >= recorded'[k]
          /\ pendingMax'[k] # -1 => pendingMax'[k] >= recorded'[k]
    <3> TAKE k \in MaxKeys
    <3>1. CASE k \in MapKeys[pos]
      BY <1>1, <2>1, <2>2, <3>1, SMTT(30) DEF StatsTypeOK, StatKeys
    <3>2. CASE k \notin MapKeys[pos]
      BY <1>1, <2>1, <2>2, <3>2, SMTT(30) DEF StatsTypeOK, MaximumKept, PendingKept, StatKeys
    <3>3. QED
      BY <3>1, <3>2, SMTT(30)
  <2>9. OneRound'
    BY <1>1, <2>1, ZenonT(30) DEF OneRound
  <2>10. QED
    BY <2>4, <2>5, <2>6, <2>7, <2>8, <2>9, ZenonT(30) DEF MaximumKept, PendingKept
<1>3. CASE ~ (pos <= NMaps)
  <2>1. mpc' = "wait" /\ pos' = 1 /\ UNCHANGED <<counters, recorded, copied>>
    BY <1>3, SMTT(30) DEF ResetMap
  <2>2. \A k \in StatKeys : k \notin copied
    BY <1>1, <1>3, SMTT(30) DEF StatsTypeOK, Progress, Maps
  <2>3. StatsTypeOK'
    BY <1>1, <2>1, SMTT(30) DEF StatsTypeOK
  <2>4. Progress'
    BY <2>1, <2>2, SMTT(30) DEF StatsTypeOK, Progress
  <2>5. InventoryKept'
    BY <1>1, <2>1, <2>2, ZenonT(30) DEF InventoryKept, StatKeys
  <2>6. QED
    BY <1>1, <2>1, <2>3, <2>4, <2>5, Zenon DEF Accounts, MaximumKept, PendingKept, OneRound
<1>4. QED
  BY <1>2, <1>3, SMTT(30)

(* HTTP requests only read: they keep the invariant.                       *)
LEMMA RequestInv ==
  ASSUME StatsIInv, StartRequest \/ Reply \/ \E k \in StatKeys : ReadKey(k)
  PROVE  StatsIInv'
<1> USE StatsAssumption DEF StatsIInv, metricVars, histVars, roundVars
<1>1. /\ UNCHANGED <<counters, report, metricVars, pendingMax, events, repRound, histVars>>
  BY Zenon DEF StartRequest, Reply, ReadKey
<1>2. StatsTypeOK' /\ OneRound'
  <2>1. CASE StartRequest
    <3>1. StatsTypeOK'
      BY <1>1, <2>1 DEF StartRequest, StatsTypeOK
    <3>2. OneRound'
      BY <1>1, <2>1, ZenonT(30) DEF StartRequest, OneRound
    <3>3. QED
      BY <3>1, <3>2, SMTT(30)
  <2>2. CASE Reply
    BY <1>1, <2>2, Zenon DEF Reply, StatsTypeOK, OneRound
  <2>3. ASSUME NEW k \in StatKeys, ReadKey(k)
        PROVE  StatsTypeOK' /\ OneRound'
    <3>1. /\ hread' = hread \cup {k} /\ hround' = hround \cup {repRound[k]}
          /\ http = "read" /\ UNCHANGED <<http, reads, hquiet>>
      BY <2>3, Zenon DEF ReadKey
    <3>2. repRound[k] \in Nat /\ hread \subseteq StatKeys /\ hround \subseteq Nat
      BY DEF StatsTypeOK
    <3>3. hread' \in SUBSET StatKeys /\ hround' \in SUBSET Nat
      BY <3>1, <3>2, ZenonT(30)
    <3>4. StatsTypeOK'
      BY <1>1, <3>1, <3>3, SMTT(30) DEF StatsTypeOK
    <3>5. OneRound'
      BY <1>1, <3>1 DEF OneRound
    <3>6. QED
      BY <3>4, <3>5
  <2>4. QED
    BY <2>1, <2>2, <2>3
<1>3. QED
  BY <1>1, <1>2, Zenon DEF Progress, Accounts, InventoryKept, MaximumKept, PendingKept

(* Every step keeps the inductive invariant.                               *)
LEMMA StatsNextIInv == StatsIInv /\ [StatsNext]_statsVars => StatsIInv'
<1> SUFFICES ASSUME StatsIInv, [StatsNext]_statsVars PROVE StatsIInv'
  OBVIOUS
<1>1. CASE UNCHANGED statsVars
  BY <1>1, Zenon DEF statsVars, metricVars, httpVars, roundVars, histVars, StatsIInv,
     StatsTypeOK, Progress, Accounts, InventoryKept, MaximumKept, PendingKept, OneRound
<1>2. CASE Metrics
  BY <1>2, CountSubscriptionsInv, CopyInv, NextMapInv, ResetMapInv DEF Metrics
<1>3. CASE \E k \in CountKeys : Count(k)
  BY <1>3, CountInv
<1>4. CASE \E k \in MaxKeys : StoreMax(k) \/ \E v \in 0 .. MaxValue : LoadMax(k, v)
  BY <1>4, StoreMaxInv, LoadMaxInv
<1>5. CASE StartRequest \/ Reply \/ \E k \in StatKeys : ReadKey(k)
  BY <1>5, RequestInv, SMTT(30)
<1>6. QED
  BY <1>1, <1>2, <1>3, <1>4, <1>5 DEF StatsNext

(* The inductive invariant holds in every reachable state.                 *)
THEOREM StatsInvariance == StatsSpec => []StatsIInv
  BY StatsInitIInv, StatsNextIInv, PTL DEF StatsSpec

(* Every increment not made between its key's copy and reset is in exactly *)
(* one report, whatever the maps and however Snapshot, Reset and the       *)
(* counting goroutines interleave.                                         *)
THEOREM CountedOnce == StatsSpec => []ReportedExactlyOnce
<1>1. StatsIInv => ReportedExactlyOnce
  BY SMTT(30) DEF StatsIInv, Progress, Accounts, ReportedExactlyOnce
<1>2. QED
  BY <1>1, StatsInvariance, PTL

(* Between rounds the report has the latest inventory.                     *)
THEOREM LatestInventory == StatsSpec => []InventoryReported
<1>1. StatsIInv => InventoryReported
  BY DEF StatsIInv, InventoryKept, InventoryReported
<1>2. QED
  BY <1>1, StatsInvariance, PTL

(* SetMax... never lowers a maximum within a period.                       *)
THEOREM MaximaKept == StatsSpec => []MaximumKept
<1>1. StatsIInv => MaximumKept
  BY SMTT(30) DEF StatsIInv
<1>2. QED
  BY <1>1, StatsInvariance, PTL

(* handleRequest replies with the values of a single round unless it meets *)
(* a Snapshot, whatever the maps.                                          *)
THEOREM AtomicBetweenSnapshots == StatsSpec => []ReportedAtomically
<1>1. StatsIInv => ReportedAtomically
  BY DEF StatsIInv, StatsTypeOK, OneRound, ReportedAtomically
<1>2. QED
  BY <1>1, StatsInvariance, PTL

=============================================================================
