---------------------------- MODULE NTPResponder ----------------------------
(***************************************************************************)
(* The NTP responder (src/ntp/responder, src/cmd/ntpresponder): one        *)
(* listener goroutine per address puts that address on the interface,      *)
(* binds a socket and hands every packet it reads to a pool of workers     *)
(* over a channel; a checker goroutine cancels the context when listeners  *)
(* or workers are missing; the announce loop advertises the addresses; on  *)
(* a signal or a cancelled context a shutdown goroutine withdraws the      *)
(* announcement, deletes the addresses and lets main return.  An HTTP      *)
(* handler copies the counters while all of this goes on.                  *)
(*                                                                         *)
(* Every request of a behaviour has a number.  It stands for what the      *)
(* request brings along: poll, transmit time and kernel receive time.      *)
(***************************************************************************)
EXTENDS Integers, Sequences, FiniteSets

CONSTANTS
  IPs,             \* ListenConfig.IPs
  Workers,         \* the worker goroutines, Server.Workers of them
  Assigned,        \* addresses the interface has before the start
  Settings,        \* first bytes a packet may have: LI, VN and mode
  ShouldAnnounce,  \* ListenConfig.ShouldAnnounce
  CallsFail,       \* netlink and announcer calls may return errors
  MaxRequests      \* bound: packets sent to the server

Ids == 1 .. MaxRequests
None == 0
NoByte == 256

ASSUME ResponderAssumption ==
  /\ IsFiniteSet(IPs)
  /\ IsFiniteSet(Workers) /\ Workers # {}   \* main refuses to start without
  /\ Assigned \subseteq IPs
  /\ Settings \subseteq 0 .. 255
  /\ ShouldAnnounce \in BOOLEAN /\ CallsFail \in BOOLEAN
  /\ MaxRequests \in Nat

VARIABLES
  up,            \* the process runs
  spc,           \* Start: "launch", then the announce loop "wait" or "spin"
  lpc, lreq,     \* each listener: where it is, the request it hands over
  wpc, wreq,     \* each worker: where it is, the request it serves
  response,      \* each worker's response packet, allocated once
  tasks,         \* Server.tasks: a channel of capacity Server.Workers
  realListeners, realWorkers,   \* SimpleChecker
  ctxDone,       \* the context is cancelled
  stoppc,        \* the shutdown goroutine
  toDelete,      \* DeleteAllIPs: addresses the loop has still to visit
  iface,         \* addresses on the interface
  advertised,    \* what the announcer last did
  stats,         \* JSONStats
  export,        \* what toMap has copied so far for an HTTP request
  \* history
  settings,      \* first byte of each request a listener has read
  answers,       \* what was written to clients
  refused,       \* requests dropped as invalid
  late           \* an undoing call failed, or was overtaken by the call it undoes

procVars == <<lpc, lreq, wpc, wreq, response, tasks>>
checkVars == <<realListeners, realWorkers>>
stopVars == <<stoppc, toDelete>>
histVars == <<settings, answers, refused>>
vars == <<up, spc, procVars, checkVars, ctxDone, stopVars, iface, advertised,
          stats, export, histVars, late>>

\* The counters, in the order in which toMap reads them.
Keys == <<"invalidFormat", "requests", "responses", "listeners", "workers",
          "readError", "announce">>
Counters == {Keys[k] : k \in DOMAIN Keys}
Unset == [settings |-> 0, static |-> FALSE, orig |-> None, rx |-> None]

Init ==
  /\ up = TRUE /\ spc = "launch"
  /\ lpc = [i \in IPs |-> "none"] /\ lreq = [i \in IPs |-> None]
  /\ wpc = [w \in Workers |-> "none"] /\ wreq = [w \in Workers |-> None]
  /\ response = [w \in Workers |-> Unset]
  /\ tasks = <<>>
  /\ realListeners = 0 /\ realWorkers = 0
  /\ ctxDone = FALSE
  /\ stoppc = "select" /\ toDelete = {}
  /\ iface = Assigned /\ advertised = FALSE
  /\ stats = [c \in Counters |-> 0]
  /\ export = <<>>
  /\ settings = [q \in Ids |-> NoByte] /\ answers = {} /\ refused = {}
  /\ late = FALSE

received == {q \in Ids : settings[q] # NoByte}
answered == {a.to : a \in answers}
Inc(c) == stats' = [stats EXCEPT ![c] = @ + 1]

(***************************************************************************)
(* Server.Start                                                            *)
(***************************************************************************)
\* The workers, the listeners and the checker are launched; each goroutine
\* runs when the scheduler lets it.
Launch ==
  /\ up /\ spc = "launch"
  /\ spc' = "wait"
  /\ lpc' = [i \in IPs |-> "start"]
  /\ wpc' = [w \in Workers |-> "start"]
  /\ UNCHANGED <<up, lreq, wreq, response, tasks, checkVars, ctxDone, stopVars,
                 iface, advertised, stats, export, histVars, late>>

\* The timer wins the select.  A break in the other case leaves the select
\* only, so once the context is cancelled the loop spins: a fresh timer never
\* fires before the closed channel is seen.
AfterTimer == IF ctxDone THEN "spin" ELSE "wait"

AnnounceTimer ==
  /\ up /\ spc = "wait"
  /\ spc' = AfterTimer
  /\ \/ /\ ShouldAnnounce
        /\ advertised' = TRUE
        /\ stats' = [stats EXCEPT !["announce"] = 1]
        /\ late' = (late \/ stoppc # "select")
     \/ /\ ~ShouldAnnounce \/ CallsFail
        /\ stats' = [stats EXCEPT !["announce"] = 0]
        /\ UNCHANGED <<advertised, late>>
  /\ UNCHANGED <<up, procVars, checkVars, ctxDone, stopVars, iface, export,
                 histVars>>

SeeCancelled ==
  /\ up /\ spc = "wait" /\ ctxDone
  /\ spc' = "spin"
  /\ UNCHANGED <<up, procVars, checkVars, ctxDone, stopVars, iface, advertised,
                 stats, export, histVars, late>>

(***************************************************************************)
(* Listeners                                                               *)
(***************************************************************************)
Listens(i, from, to) ==
  /\ up /\ lpc[i] = from
  /\ lpc' = [lpc EXCEPT ![i] = to]

\* Stats.IncListeners, then addIPToInterface.  addIfaceIP returns early when
\* the address is assigned already.
CheckIP(i) ==
  /\ Listens(i, "start", IF i \in iface THEN "bind" ELSE "add")
  /\ Inc("listeners")
  /\ UNCHANGED <<up, spc, lreq, wpc, wreq, response, tasks, checkVars, ctxDone,
                 stopVars, iface, advertised, export, histVars, late>>

\* Otherwise the address is added in a netlink call of its own.
addIfaceIP(i) ==
  \/ /\ iface' = iface \cup {i}
     /\ late' = (late \/ stoppc # "select")
  \/ CallsFail /\ UNCHANGED <<iface, late>>

\* An error is only logged.
AddIP(i) ==
  /\ Listens(i, "add", "bind")
  /\ addIfaceIP(i)
  /\ UNCHANGED <<up, spc, lreq, wpc, wreq, response, tasks, checkVars, ctxDone,
                 stopVars, advertised, stats, export, histVars>>

\* Checker.IncListeners, ListenUDP and the kernel timestamp option.
Bind(i) ==
  /\ Listens(i, "bind", "read")
  /\ realListeners' = realListeners + 1
  /\ UNCHANGED <<up, spc, lreq, wpc, wreq, response, tasks, realWorkers,
                 ctxDone, stopVars, iface, advertised, stats, export,
                 histVars, late>>

\* The port is taken, or neither kernel timestamp option can be set.
\* log.Fatalf: the process ends with nothing undone.
BindFails(i) ==
  /\ Listens(i, "bind", "bind")
  /\ up' = FALSE
  /\ UNCHANGED <<spc, lreq, wpc, wreq, response, tasks, checkVars, ctxDone,
                 stopVars, iface, advertised, stats, export, histVars, late>>

Arrivals == Cardinality(received) + stats["readError"]

ReadPacket(i, s) ==
  /\ Listens(i, "read", "send")
  /\ Arrivals < MaxRequests
  /\ LET q == Cardinality(received) + 1
     IN  /\ lreq' = [lreq EXCEPT ![i] = q]
         /\ settings' = [settings EXCEPT ![q] = s]
  /\ Inc("requests")
  /\ UNCHANGED <<up, spc, wpc, wreq, response, tasks, checkVars, ctxDone,
                 stopVars, iface, advertised, export, answers, refused, late>>

ReadError(i) ==
  /\ Listens(i, "read", "read")
  /\ Arrivals < MaxRequests
  /\ Inc("readError")
  /\ UNCHANGED <<up, spc, lreq, wpc, wreq, response, tasks, checkVars, ctxDone,
                 stopVars, iface, advertised, export, histVars, late>>

\* The send blocks while the channel is full.
HasRoom == Len(tasks) < Cardinality(Workers)

\* Mutant of SendTask: a full channel drops the task instead of blocking.
SendOrDrop(i) ==
  /\ Listens(i, "send", "read")
  /\ tasks' = IF HasRoom THEN Append(tasks, lreq[i]) ELSE tasks
  /\ lreq' = [lreq EXCEPT ![i] = None]
  /\ UNCHANGED <<up, spc, wpc, wreq, response, checkVars, ctxDone, stopVars,
                 iface, advertised, stats, export, histVars, late>>

SendTask(i) ==
  /\ Listens(i, "send", "read")
  /\ HasRoom
  /\ tasks' = Append(tasks, lreq[i])
  /\ lreq' = [lreq EXCEPT ![i] = None]
  /\ UNCHANGED <<up, spc, wpc, wreq, response, checkVars, ctxDone, stopVars,
                 iface, advertised, stats, export, histVars, late>>

Listener(i) ==
  CheckIP(i) \/ AddIP(i) \/ Bind(i) \/ SendTask(i)

(***************************************************************************)
(* Workers                                                                 *)
(***************************************************************************)
Works(w, from, to) ==
  /\ up /\ wpc[w] = from
  /\ wpc' = [wpc EXCEPT ![w] = to]

\* Both counters go up, and fillStaticHeaders sets once what all responses of
\* this worker share.
StartWorker(w) ==
  /\ Works(w, "start", "idle")
  /\ realWorkers' = realWorkers + 1
  /\ Inc("workers")
  /\ response' = [response EXCEPT ![w].static = TRUE]
  /\ UNCHANGED <<up, spc, lpc, lreq, wreq, tasks, realListeners, ctxDone,
                 stopVars, iface, advertised, export, histVars, late>>

TakeTask(w) ==
  /\ Works(w, "idle", "serve")
  /\ tasks # <<>>
  /\ wreq' = [wreq EXCEPT ![w] = Head(tasks)]
  /\ tasks' = Tail(tasks)
  /\ UNCHANGED <<up, spc, lpc, lreq, response, checkVars, ctxDone, stopVars,
                 iface, advertised, stats, export, histVars, late>>

\* LI must be 0 or 3, the version 1 to 4, the mode 3 (client).
ValidSettingsFormat(s) ==
  /\ s \div 64 \in {0, 3}
  /\ (s \div 8) % 8 \in 1 .. 4
  /\ s % 8 = 3

\* Mutant of generateResponse: the receive time stays from the last response.
generateNoRx(r, q) ==
  [r EXCEPT !.settings = ((settings[q] \div 8) % 8) * 8 + 4, !.orig = q,
            !.rx = IF @ = None THEN q ELSE @]

\* request.Settings & 0x38 keeps the version; 4 is the server mode.
generateResponse(r, q) ==
  [r EXCEPT !.settings = ((settings[q] \div 8) % 8) * 8 + 4,
            !.orig = q, !.rx = q]

\* A failed WriteTo is only logged: to the client it is a lost packet.
Respond(w) ==
  LET r == generateResponse(response[w], wreq[w])
  IN  /\ Works(w, "serve", "count")
      /\ ValidSettingsFormat(settings[wreq[w]])
      /\ response' = [response EXCEPT ![w] = r]
      /\ answers' = answers \cup {[to |-> wreq[w], packet |-> r]}
      /\ UNCHANGED <<up, spc, lpc, lreq, wreq, tasks, checkVars, ctxDone,
                     stopVars, iface, advertised, stats, export, settings,
                     refused, late>>

CountResponse(w) ==
  /\ Works(w, "count", "idle")
  /\ Inc("responses")
  /\ wreq' = [wreq EXCEPT ![w] = None]
  /\ UNCHANGED <<up, spc, lpc, lreq, response, tasks, checkVars, ctxDone,
                 stopVars, iface, advertised, export, histVars, late>>

\* Mutant of Refuse: the worker leaves after an invalid request.
RefuseAndLeave(w) ==
  /\ Works(w, "serve", "none")
  /\ ~ValidSettingsFormat(settings[wreq[w]])
  /\ Inc("invalidFormat")
  /\ refused' = refused \cup {wreq[w]}
  /\ wreq' = [wreq EXCEPT ![w] = None]
  /\ UNCHANGED <<up, spc, lpc, lreq, response, tasks, checkVars, ctxDone,
                 stopVars, iface, advertised, export, settings, answers, late>>

Refuse(w) ==
  /\ Works(w, "serve", "idle")
  /\ ~ValidSettingsFormat(settings[wreq[w]])
  /\ Inc("invalidFormat")
  /\ refused' = refused \cup {wreq[w]}
  /\ wreq' = [wreq EXCEPT ![w] = None]
  /\ UNCHANGED <<up, spc, lpc, lreq, response, tasks, checkVars, ctxDone,
                 stopVars, iface, advertised, export, settings, answers, late>>

Worker(w) ==
  StartWorker(w) \/ TakeTask(w) \/ Respond(w) \/ CountResponse(w) \/ Refuse(w)

(***************************************************************************)
(* The checker goroutine, the HTTP handler                                 *)
(***************************************************************************)
Check == realListeners = Cardinality(IPs) /\ realWorkers = Cardinality(Workers)

\* It wakes up every minute, and for good leaves after the first error.
RunChecker ==
  /\ up /\ spc # "launch" /\ ~ctxDone
  /\ ~Check
  /\ ctxDone' = TRUE
  /\ UNCHANGED <<up, spc, procVars, checkVars, stopVars, iface, advertised,
                 stats, export, histVars, late>>

HandleRequest ==
  /\ up /\ export = <<>>
  /\ export' = <<stats[Keys[1]]>>
  /\ UNCHANGED <<up, spc, procVars, checkVars, ctxDone, stopVars, iface,
                 advertised, stats, histVars, late>>

\* toMap copies the counters one after the other, without a lock.  The map as
\* it will be if the copies after the first are made now:
MapNow == [c \in Counters |-> IF c = Keys[1] THEN export[1] ELSE stats[c]]

ToMap ==
  /\ up /\ export # <<>>
  /\ export' = <<>>
  /\ UNCHANGED <<up, spc, procVars, checkVars, ctxDone, stopVars, iface,
                 advertised, stats, histVars, late>>

(***************************************************************************)
(* Shutdown                                                                *)
(***************************************************************************)
\* Mutants of Stop: the announcement is not withdrawn; a cancelled context
\* is not waited for.
StopSilently(signal) ==
  /\ up /\ stoppc = "select" /\ (signal \/ ctxDone)
  /\ stoppc' = "delete" /\ toDelete' = IPs
  /\ UNCHANGED <<up, spc, procVars, checkVars, ctxDone, iface, advertised,
                 stats, export, histVars, late>>
StopOnSignal(signal) ==
  /\ up /\ stoppc = "select" /\ signal
  /\ stoppc' = "delete" /\ toDelete' = IPs
  /\ advertised' = FALSE
  /\ UNCHANGED <<up, spc, procVars, checkVars, ctxDone, iface, stats, export,
                 histVars, late>>

\* The select of the shutdown goroutine, on a signal or a cancelled context,
\* and Server.Stop: a Withdraw that fails is only logged.
Stop(signal) ==
  /\ up /\ stoppc = "select" /\ (signal \/ ctxDone)
  /\ stoppc' = "delete" /\ toDelete' = IPs
  /\ \/ advertised' = FALSE /\ late' = late
     \/ CallsFail /\ advertised /\ advertised' = TRUE /\ late' = TRUE
  /\ UNCHANGED <<up, spc, procVars, checkVars, ctxDone, iface, stats, export,
                 histVars>>

\* Nothing is called, and nothing fails, when the address is not assigned.
deleteIfaceIP(i) ==
  \/ iface' = iface \ {i} /\ late' = late
  \/ CallsFail /\ i \in iface /\ iface' = iface /\ late' = TRUE

\* DeleteAllIPs goes on after an error.
DeleteIP(i) ==
  /\ up /\ stoppc = "delete" /\ i \in toDelete
  /\ toDelete' = toDelete \ {i}
  /\ deleteIfaceIP(i)
  /\ UNCHANGED <<up, spc, procVars, checkVars, ctxDone, stoppc,
                 advertised, stats, export, histVars>>

\* close(shutdownFinish), and main returns.
Exit ==
  /\ up /\ stoppc = "delete" /\ toDelete = {}
  /\ stoppc' = "closed" /\ up' = FALSE
  /\ UNCHANGED <<spc, procVars, checkVars, ctxDone, toDelete, iface,
                 advertised, stats, export, histVars, late>>

Next ==
  \/ Launch \/ AnnounceTimer \/ SeeCancelled
  \/ \E i \in IPs : Listener(i) \/ BindFails(i) \/ ReadError(i)
  \/ \E i \in IPs, s \in Settings : ReadPacket(i, s)
  \/ \E w \in Workers : Worker(w)
  \/ RunChecker \/ HandleRequest \/ ToMap
  \/ Stop(TRUE) \/ Stop(FALSE) \/ (\E i \in IPs : DeleteIP(i)) \/ Exit

\* Goroutines that can run are run.  Nothing obliges clients, the operator or
\* the HTTP side to do anything, nor a bind to fail.
Fairness ==
  /\ WF_vars(Launch) /\ WF_vars(SeeCancelled)
  /\ \A i \in IPs : WF_vars(Listener(i))
  /\ \A w \in Workers : WF_vars(Worker(w))
  /\ WF_vars(RunChecker) /\ WF_vars(Stop(FALSE))
  /\ \A i \in IPs : WF_vars(DeleteIP(i))
  /\ WF_vars(Exit)

Spec == Init /\ [][Next]_vars /\ Fairness

-----------------------------------------------------------------------------
Packets == [settings : 0 .. 255, static : BOOLEAN, orig : Ids \cup {None},
            rx : Ids \cup {None}]

\* Every variable has its type, and the channel never exceeds its capacity.
TypeOK ==
  /\ up \in BOOLEAN /\ spc \in {"launch", "wait", "spin"}
  /\ lpc \in [IPs -> {"none", "start", "add", "bind", "read", "send"}]
  /\ lreq \in [IPs -> Ids \cup {None}]
  /\ wpc \in [Workers -> {"none", "start", "idle", "serve", "count"}]
  /\ wreq \in [Workers -> Ids \cup {None}]
  /\ response \in [Workers -> Packets]
  /\ tasks \in Seq(Ids) /\ Len(tasks) <= Cardinality(Workers)
  /\ realListeners \in 0 .. Cardinality(IPs)
  /\ realWorkers \in 0 .. Cardinality(Workers)
  /\ ctxDone \in BOOLEAN
  /\ stoppc \in {"select", "delete", "closed"}
  /\ toDelete \subseteq IPs /\ iface \subseteq IPs
  /\ advertised \in BOOLEAN
  /\ stats \in [Counters -> Nat]
  /\ export \in Seq(Nat)
  /\ settings \in [Ids -> 0 .. 256]
  /\ answers \subseteq [to : Ids, packet : Packets] /\ refused \subseteq Ids
  /\ late \in BOOLEAN

Queued == {tasks[k] : k \in 1 .. Len(tasks)}
Finished(q) == q \in answered \cup refused /\ \A w \in Workers : wreq[w] # q

\* A packet a listener has counted (IncRequests) is neither lost nor served
\* twice, however listeners block on the channel and workers race for it: it
\* is in the hands of exactly one listener or worker, or in one place of the
\* channel, or it has been answered or refused, but not both.
HeldByOne ==
  /\ \A i, j \in IPs : lreq[i] = lreq[j] /\ lreq[i] # None => i = j
  /\ \A v, w \in Workers : wreq[v] = wreq[w] /\ wreq[v] # None => v = w
  /\ \A k, l \in 1 .. Len(tasks) : tasks[k] = tasks[l] => k = l
  /\ \A i \in IPs : lreq[i] # None =>
       lreq[i] \notin Queued \cup answered \cup refused
  /\ \A i \in IPs, w \in Workers : lreq[i] # None => lreq[i] # wreq[w]
  /\ \A w \in Workers : wreq[w] # None => wreq[w] \notin Queued \cup refused
  /\ Queued \cap (answered \cup refused) = {} /\ answered \cap refused = {}
RequestsAccounted ==
  /\ HeldByOne
  /\ \A q \in received :
       \/ \E i \in IPs : lreq[i] = q
       \/ q \in Queued
       \/ \E w \in Workers : wreq[w] = q
       \/ Finished(q)

\* A worker's response packet is allocated once and reused, yet what it writes
\* for a request (generateResponse) is that request's alone: its version with
\* the server mode, its transmit time as origin and its receive time; the
\* static headers are set; and only valid requests are answered.
AnswerOfItsRequest ==
  \A a \in answers :
    /\ ValidSettingsFormat(settings[a.to])
    /\ a.packet = [settings |-> (settings[a.to] % 64) + 1, static |-> TRUE,
                   orig |-> a.to, rx |-> a.to]

\* toMap copies the counters one by one while workers go on.  As it copies
\* invalidformat before requests, the map never shows more invalid packets
\* than packets.  (Nothing of the kind holds for responses.)
ExportConsistent ==
  export # <<>> => MapNow["invalidFormat"] <= MapNow["requests"]

\* When main returns after Stop, no address is left on the interface and
\* nothing is advertised, if no call that undoes failed and none was overtaken
\* by the listener or announce loop whose effect it undoes.
GoneUnlessLate ==
  stoppc = "closed" /\ ~late => iface = {} /\ ~advertised

\* The checker's counters follow the goroutines exactly: it cancels the
\* context only while a listener has not bound or a worker has not started.
CancelledOnlyWhileStarting ==
  [][ctxDone' # ctxDone =>
       \/ \E i \in IPs : lpc[i] \notin {"read", "send"}
       \/ \E w \in Workers : wpc[w] = "start"]_vars

\* Every packet read is answered or refused, unless the process ends first:
\* as packets are finitely many, again and again none is open.
RequestsServed == []<>(received \subseteq answered \cup refused \/ ~up)

\* A cancelled context, or a Stop that has begun, ends the process, although
\* the announce loop never leaves its select loop.
ShutdownCompletes == (ctxDone \/ stoppc # "select") ~> ~up

=============================================================================
