-------------------------------- MODULE Stats --------------------------------
(***************************************************************************)
(* The JSON statistics of ptp4u (src/ptp/ptp4u/stats) and the metrics      *)
(* goroutine of Server.Start that drives them: inventory of the            *)
(* subscriptions, Snapshot of the live counters into the report, Reset of  *)
(* the live counters, over and over, while workers and handlers go on      *)
(* counting and HTTP requests read the report.                             *)
(*                                                                         *)
(* Each syncMapInt64 has its own mutex, held for one load, store, inc or   *)
(* for the reset of that map; nothing is held for longer.  A key that is   *)
(* not in a map counts as 0, which is what load returns for it.            *)
(***************************************************************************)
EXTENDS Integers

CONSTANTS
  NMaps,        \* how many maps there are
  MapKeys,      \* the keys of each map, in the order of Snapshot and Reset
  InvKeys,      \* keys only the metrics goroutine counts: subscriptions, workerSubs
  CountKeys,    \* keys others count: rx, tx, rxSignaling, txSignaling
  MaxKeys,      \* maxima, each set by one worker: workerQueue, txtsattempts
  MaxValue,     \* bound: values of a maximum, subscriptions in an inventory
  MaxEvents, MaxRounds, MaxReads   \* bounds

StatKeys == InvKeys \cup CountKeys \cup MaxKeys
Maps == 1 .. NMaps

ASSUME StatsAssumption ==
  /\ NMaps \in Nat
  /\ MapKeys \in [Maps -> SUBSET StatKeys]
  /\ \A k \in StatKeys : \E i \in Maps : k \in MapKeys[i]
  /\ \A i, j \in Maps : i # j => MapKeys[i] \cap MapKeys[j] = {}
  /\ CountKeys \cap (InvKeys \cup MaxKeys) = {}
  /\ InvKeys \cap MaxKeys = {}
  /\ MaxValue \in Nat /\ MaxEvents \in Nat /\ MaxRounds \in Nat /\ MaxReads \in Nat

VARIABLES
  counters,     \* the live values
  report,       \* the values HTTP requests see
  mpc,          \* the metrics goroutine: "wait", "snapshot" or "reset"
  pos,          \* the map Snapshot or Reset has come to
  copied,       \* the keys copied since the last wait
  pendingMax,   \* SetMax..., between load and store: the value, or -1
  http, hread, hround,   \* an HTTP request: state, keys read, their rounds
  rounds, events, reads,   \* counted for the bounds
  \* histories
  repRound,     \* the round in which each key of the report was copied
  hquiet,       \* no snapshot was under way at or since the start of the request
  counted,      \* increments of a key made while it was not copied and not reset
  reported,     \* the sum of all values of a key ever copied to the report
  inventory,    \* the latest inventory
  recorded      \* the largest value a worker recorded since the last reset

metricVars == <<mpc, pos, copied, rounds>>
httpVars   == <<http, hread, hround, reads>>
roundVars  == <<repRound, hquiet>>
histVars   == <<counted, reported, inventory, recorded>>
statsVars ==
  <<counters, report, metricVars, pendingMax, httpVars, events, roundVars, histVars>>

Zero == [k \in StatKeys |-> 0]

StatsInit ==
  /\ counters = Zero /\ report = Zero
  /\ mpc = "wait" /\ pos = 1 /\ copied = {}
  /\ pendingMax = [k \in MaxKeys |-> -1]
  /\ http = "idle" /\ hread = {} /\ hround = {}
  /\ rounds = 0 /\ events = 0 /\ reads = 0
  /\ repRound = Zero /\ hquiet = TRUE
  /\ counted = [k \in CountKeys |-> 0] /\ reported = [k \in CountKeys |-> 0]
  /\ inventory = [k \in InvKeys |-> 0]
  /\ recorded = [k \in MaxKeys |-> 0]

-----------------------------------------------------------------------------
(* Workers and handlers *)

(* syncMapInt64.inc.                                                       *)
Inc(k) == counters' = [counters EXCEPT ![k] = @ + 1]

(* IncRX, IncTX, IncRXSignaling, IncTXSignaling.                           *)
Count(k) ==
  /\ events < MaxEvents
  /\ events' = events + 1
  /\ Inc(k)
  /\ counted' = IF k \in copied THEN counted ELSE [counted EXCEPT ![k] = @ + 1]
  /\ UNCHANGED <<report, metricVars, pendingMax, httpVars, roundVars, reported,
                 inventory, recorded>>

(* A mutant: the comparison is the wrong way round.                        *)
Below(v, k) == v < counters[k]

Exceeds(v, k) == v > counters[k]

(* SetMaxWorkerQueue, SetMaxTXTSAttempts: load and compare ...             *)
LoadMax(k, v) ==
  /\ pendingMax[k] = -1
  /\ events < MaxEvents
  /\ events' = events + 1
  /\ recorded' = [recorded EXCEPT ![k] = IF v > @ THEN v ELSE @]
  /\ pendingMax' = IF Exceeds(v, k) THEN [pendingMax EXCEPT ![k] = v] ELSE pendingMax
  /\ UNCHANGED <<counters, report, metricVars, httpVars, roundVars, counted, reported,
                 inventory>>

(* ... and, under the mutex again, store.                                  *)
StoreMax(k) ==
  /\ pendingMax[k] # -1
  /\ counters' = [counters EXCEPT ![k] = pendingMax[k]]
  /\ pendingMax' = [pendingMax EXCEPT ![k] = -1]
  /\ UNCHANGED <<report, metricVars, httpVars, events, roundVars, histVars>>

-----------------------------------------------------------------------------
(* The metrics goroutine *)

(* inventoryClients of every worker: IncSubscription and IncWorkerSubs for *)
(* each running subscription; n has how many there are.                    *)
CountSubscriptions(n) ==
  /\ mpc = "wait"
  /\ rounds < MaxRounds
  /\ rounds' = rounds + 1
  /\ counters' = [k \in StatKeys |-> counters[k] + IF k \in InvKeys THEN n[k] ELSE 0]
  /\ inventory' = n
  /\ mpc' = "snapshot" /\ pos' = 1
  /\ UNCHANGED <<report, copied, pendingMax, httpVars, events, roundVars, counted,
                 reported, recorded>>

(* A mutant: a key that a snapshot finds at 0 is skipped.                  *)
CopyNonZero(k) ==
  /\ mpc = "snapshot"
  /\ pos <= NMaps /\ k \in MapKeys[pos] \ copied
  /\ report' = IF counters[k] = 0 THEN report ELSE [report EXCEPT ![k] = counters[k]]
  /\ repRound' = IF counters[k] = 0 THEN repRound ELSE [repRound EXCEPT ![k] = rounds]
  /\ hquiet' = FALSE
  /\ copied' = copied \cup {k}
  /\ reported' = IF k \in CountKeys THEN [reported EXCEPT ![k] = @ + counters[k]]
                 ELSE reported
  /\ UNCHANGED <<counters, mpc, pos, rounds, pendingMax, httpVars, events, counted,
                 inventory, recorded>>

(* Snapshot, copy of one key.  The load and the store into the report are  *)
(* one step: no other goroutine uses both maps.                            *)
Copy(k) ==
  /\ mpc = "snapshot"
  /\ pos <= NMaps /\ k \in MapKeys[pos] \ copied
  /\ report' = [report EXCEPT ![k] = counters[k]]
  /\ repRound' = [repRound EXCEPT ![k] = rounds]
  /\ hquiet' = FALSE
  /\ copied' = copied \cup {k}
  /\ reported' = IF k \in CountKeys THEN [reported EXCEPT ![k] = @ + counters[k]]
                 ELSE reported
  /\ UNCHANGED <<counters, mpc, pos, rounds, pendingMax, httpVars, events, counted,
                 inventory, recorded>>

(* Snapshot, on to the next map, or to Reset.                              *)
NextMap ==
  /\ mpc = "snapshot"
  /\ IF pos <= NMaps
     THEN MapKeys[pos] \subseteq copied /\ pos' = pos + 1 /\ UNCHANGED mpc
     ELSE mpc' = "reset" /\ pos' = 1
  /\ UNCHANGED <<counters, report, copied, rounds, pendingMax, httpVars, events,
                 roundVars, histVars>>

(* A mutant: reset forgets the second map.                                 *)
ClearedButSecond(i) == IF i = 2 THEN {} ELSE MapKeys[i]

(* The keys that the reset of a map sets to 0.                             *)
Cleared(i) == MapKeys[i]

(* The value a worker is about to store, if any.                           *)
Upcoming(k) == IF pendingMax[k] = -1 THEN 0 ELSE pendingMax[k]

(* Reset, one map under its mutex; a maximum compared before and stored    *)
(* after it counts for the next period.                                    *)
ResetMap ==
  /\ mpc = "reset"
  /\ IF pos <= NMaps
     THEN /\ counters' = [k \in StatKeys |-> IF k \in Cleared(pos) THEN 0 ELSE counters[k]]
          /\ recorded' = [k \in MaxKeys |->
                            IF k \in MapKeys[pos] THEN Upcoming(k) ELSE recorded[k]]
          /\ copied' = copied \ MapKeys[pos]
          /\ pos' = pos + 1 /\ UNCHANGED mpc
     ELSE mpc' = "wait" /\ pos' = 1 /\ UNCHANGED <<counters, recorded, copied>>
  /\ UNCHANGED <<report, rounds, pendingMax, httpVars, events, roundVars, counted,
                 reported, inventory>>

-----------------------------------------------------------------------------
(* HTTP requests *)

(* handleRequest: toMap reads the report key by key, map by map.           *)
StartRequest ==
  /\ http = "idle"
  /\ reads < MaxReads
  /\ reads' = reads + 1
  /\ http' = "read" /\ hread' = {} /\ hround' = {}
  /\ hquiet' = (mpc # "snapshot")
  /\ UNCHANGED <<counters, report, metricVars, pendingMax, events, repRound, histVars>>

ReadKey(k) ==
  /\ http = "read"
  /\ k \notin hread
  /\ \A i, j \in Maps : i < j /\ k \in MapKeys[j] => MapKeys[i] \subseteq hread
  /\ hread' = hread \cup {k}
  /\ hround' = hround \cup {repRound[k]}
  /\ UNCHANGED <<counters, report, metricVars, pendingMax, http, reads, events,
                 roundVars, histVars>>

Reply ==
  /\ http = "read"
  /\ hread = StatKeys
  /\ http' = "idle" /\ hread' = {} /\ hround' = {}
  /\ UNCHANGED <<counters, report, metricVars, pendingMax, reads, events, roundVars,
                 histVars>>

Metrics ==
  \/ \E n \in [InvKeys -> 0 .. MaxValue] : CountSubscriptions(n)
  \/ \E k \in StatKeys : Copy(k)
  \/ NextMap \/ ResetMap

StatsNext ==
  \/ \E k \in CountKeys : Count(k)
  \/ \E k \in MaxKeys : StoreMax(k) \/ \E v \in 0 .. MaxValue : LoadMax(k, v)
  \/ Metrics
  \/ StartRequest \/ Reply \/ \E k \in StatKeys : ReadKey(k)

StatsSpec == StatsInit /\ [][StatsNext]_statsVars

-----------------------------------------------------------------------------
(* Properties *)

(* Every variable has its type.                                            *)
StatsTypeOK ==
  /\ counters \in [StatKeys -> Nat] /\ report \in [StatKeys -> Nat]
  /\ mpc \in {"wait", "snapshot", "reset"}
  /\ pos \in 1 .. NMaps + 1
  /\ copied \in SUBSET StatKeys
  /\ pendingMax \in [MaxKeys -> Nat \cup {-1}]
  /\ http \in {"idle", "read"} /\ hread \in SUBSET StatKeys /\ hround \in SUBSET Nat
  /\ rounds \in 0 .. MaxRounds /\ events \in 0 .. MaxEvents /\ reads \in 0 .. MaxReads
  /\ repRound \in [StatKeys -> Nat] /\ hquiet \in BOOLEAN
  /\ counted \in [CountKeys -> Nat] /\ reported \in [CountKeys -> Nat]
  /\ inventory \in [InvKeys -> Nat]
  /\ recorded \in [MaxKeys -> Nat]

(* Between rounds, what the reports said so far and what is being counted  *)
(* now add up to the increments that did not fall between a key's copy and *)
(* its reset: each of those is reported exactly once, the others never.    *)
ReportedExactlyOnce ==
  mpc = "wait" => \A k \in CountKeys : reported[k] + counters[k] = counted[k]

(* Between rounds the report has the latest inventory of subscriptions: it *)
(* neither accumulates nor misses a worker.                                *)
InventoryReported ==
  mpc = "wait" => \A k \in InvKeys : report[k] = inventory[k]

(* A maximum is never below a value its worker has recorded since the last *)
(* reset, although comparing and storing are two critical sections.        *)
MaximumKept ==
  \A k \in MaxKeys : pendingMax[k] = -1 => counters[k] >= recorded[k]

(* All values of a reply come from the same round, unless a snapshot was   *)
(* under way while they were read: handleRequest copies the report key by  *)
(* key, but between snapshots the report has values of one round only.     *)
ReportedAtomically ==
  http = "read" /\ hquiet => \A r, s \in hround : r = s

=============================================================================
