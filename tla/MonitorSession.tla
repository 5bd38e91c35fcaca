--------------------------- MODULE MonitorSession ---------------------------
(***************************************************************************)
(* One run of a monitoring command, from opening the connection to its     *)
(* exit: ntpcheck against chronyd (over UDP, or over its Unix socket) or   *)
(* ntpd, ntpcheck utils ntpdate, ptpcheck against ptp4l, and ptpcheck      *)
(* oscillatord.  The clients of src/ntp/chrony, src/ntp/control and        *)
(* src/ptp/protocol number their requests but never look at the number in  *)
(* an answer, so what keeps answers and questions together is the order    *)
(* of the calls, one read per answer, and one read deadline for the whole  *)
(* session.                                                                *)
(*                                                                         *)
(* The daemon and the network are external: the daemon's list of sources   *)
(* may change between two requests, UDP may lose, repeat or reorder its    *)
(* answers, a Unix socket does not.                                        *)
(***************************************************************************)
EXTENDS CheckResult, Sequences

CONSTANTS
  Addrs,         \* addresses of sources; also association ids of ntpd
  States, Offs,  \* states and offsets the daemon's sources take
  Rooms,         \* how many associations may fit one datagram of ntpd (117)
  VarParts,      \* datagrams of a readvars answer
  Requests,      \* ntpdate -r
  MaxSources,    \* bound: sources of the daemon
  MaxChanges,    \* bound: changes of the daemon's sources
  MaxFaults,     \* bound: answers lost, repeated or reordered
  CallsFail      \* dialling and writing may fail

ASSUME SessionAssumption ==
  /\ RefClocks \subseteq Addrs /\ States \subseteq SourceStates
  /\ 0 \notin Addrs                   \* the association id of the system
  /\ Offs \subseteq Int
  /\ Rooms \subseteq Nat \ {0}
  /\ VarParts \in Nat \ {0, 1}        \* a peer's offset is in the second
  /\ Requests \in Nat \ {0}
  /\ MaxSources \in Nat /\ MaxChanges \in Nat /\ MaxFaults \in Nat
  /\ CallsFail \in BOOLEAN

\* Command line and what getFlavour finds: RunCheck asks chronyd over UDP,
\* RunNTPData and RunServerStats over the Unix socket.  "check" stands for the
\* subcommands that call RunCheck: which one it is matters only to Report.
Sessions == {<<"chronyUDP", "check">>,
             <<"chronyUnix", "peerstats">>, <<"chronyUnix", "serverstats">>,
             <<"ntpd", "check">>, <<"ntpd", "serverstats">>,
             <<"ntpdate", "ntpdate">>, <<"ptp", "diag">>,
             <<"oscillatord", "status">>}

Unix == {"chronyUnix", "ptp"}
UDP == {"chronyUDP", "ntpd", "ntpdate"}
Lists == {"tracking", "readstatus"}   \* a session that begins so lists sources

Source == [addr : Addrs, state : States, off : Offs]

VARIABLES
  flavour, command,
  pc,            \* "dial", "send", "read", "report" or "done"
  call,          \* the request being made: [cmd, arg]
  cur,           \* sourceData of the loop's turn
  got,           \* datagrams of the current answer
  Sequence, expired,
  sock,          \* the client's own socket file exists
  result, outcome, exit,
  toServer, toClient, faults,
  sources, room, changes,
  able,          \* of the daemon: "np", ptp4l has the _NP data sets; "gm", its
                 \* grandmaster is another clock; "whole", oscillatord writes
                 \* its status at once
  \* history
  first,         \* the daemon's sources when the session began
  used,          \* pairs of numbers: the request's, that of the answer used
  lost, misordered, broke,
  seen           \* states any source has had during the session

clientVars == <<call, cur, got, Sequence, expired, result>>
netVars == <<toServer, toClient, faults>>
daemonVars == <<sources, room, able, changes>>
histVars == <<used, lost, misordered, broke, seen>>
vars == <<flavour, command, pc, clientVars, sock, outcome, exit, netVars,
          daemonVars, first, histVars>>

NoPeers == << >>
StatesOf(ss) == {ss[i].state : i \in DOMAIN ss}

\* chronyd and ntpd list a source once and have at most one selected.
Listing(ss) ==
  /\ \A i, j \in DOMAIN ss : ss[i].addr = ss[j].addr => i = j
  /\ \A i, j \in DOMAIN ss : ss[i].state = "sync" /\ ss[j].state = "sync" => i = j
Listings ==
  {ss \in UNION {[1 .. n -> Source] : n \in 0 .. MaxSources} : Listing(ss)}

Call(c, a) == [cmd |-> c, arg |-> a]
Request(c, seq) == [cmd |-> c.cmd, arg |-> c.arg, seq |-> seq]

FirstCall ==
  CASE flavour = "ptp" -> Call("current", 0)
    [] flavour = "ntpdate" -> Call("time", 1)
    [] flavour = "oscillatord" -> Call("status", 0)
    [] flavour = "ntpd" /\ command = "serverstats" -> Call("servervars", 0)
    [] flavour = "ntpd" /\ command # "serverstats" -> Call("readstatus", 0)
    [] flavour = "chronyUnix" /\ command = "serverstats" -> Call("serverstats", 0)
    [] OTHER -> Call("tracking", 0)

Init ==
  /\ \E s \in Sessions : flavour = s[1] /\ command = s[2]
  /\ pc = "dial" /\ call = Call("none", 0) /\ cur = {} /\ got = <<>>
  /\ Sequence = 1 /\ expired = FALSE /\ sock = FALSE
  /\ result = [peers |-> NoPeers, n |-> 0, ids |-> {}, clockSource |-> "none",
               gm |-> FALSE, ingress |-> FALSE, portStats |-> FALSE]
  /\ outcome = "running" /\ exit = -1
  /\ toServer = <<>> /\ toClient = <<>> /\ faults = 0
  /\ IF flavour \in {"chronyUDP", "chronyUnix", "ntpd"} /\ command # "serverstats"
       THEN sources \in Listings ELSE sources = <<>>
  /\ able \in CASE flavour = "ptp" -> SUBSET {"np", "gm"}
               [] flavour = "oscillatord" -> SUBSET {"whole"}
               [] OTHER -> {{}}
  /\ room \in IF flavour = "ntpd" THEN Rooms ELSE {0}
  /\ changes = 0
  /\ first = sources
  /\ used = {} /\ lost = FALSE /\ misordered = FALSE /\ broke = FALSE
  /\ seen = StatesOf(sources)

(***************************************************************************)
(* Opening and closing the connection.                                     *)
(***************************************************************************)
Dial ==
  /\ pc = "dial"
  /\ pc' = "send" /\ call' = FirstCall
  /\ sock' = (flavour \in Unix)
  /\ UNCHANGED <<flavour, command, cur, got, Sequence, expired, result, outcome,
                 exit, netVars, daemonVars, first, histVars>>

\* DialUnix binds the client's socket file, then connects, then changes its
\* mode.  The checker of chrony leaves the file behind when either of the
\* last two fails; ptpcheck's cleanup removes it.
DialFails ==
  /\ pc = "dial" /\ CallsFail
  /\ sock' \in IF flavour = "chronyUnix" THEN BOOLEAN ELSE {FALSE}
  /\ pc' = "done" /\ outcome' = "error" /\ exit' = 1 /\ broke' = TRUE
  /\ UNCHANGED <<flavour, command, clientVars, netVars, daemonVars, first,
                 used, lost, misordered, seen>>

\* Mutant of CloseAnd: the socket file is removed only after a success.
CloseIfOk(res, out) ==
  /\ result' = res /\ outcome' = out /\ sock' = (sock /\ out = "error")
  /\ IF out = "ok" THEN pc' = "report" /\ UNCHANGED exit
                   ELSE pc' = "done" /\ exit' = 1
  /\ UNCHANGED <<call, cur>>

\* Run returns: the deferred Close or cleanup removes the socket file.
CloseAnd(res, out) ==
  /\ result' = res /\ outcome' = out /\ sock' = FALSE
  /\ IF out = "ok" THEN pc' = "report" /\ UNCHANGED exit
                   ELSE pc' = "done" /\ exit' = 1
  /\ UNCHANGED <<call, cur>>

Goto(res, c, a, s) ==
  /\ result' = res /\ call' = Call(c, a) /\ cur' = s /\ pc' = "send"
  /\ UNCHANGED <<outcome, exit, sock>>

(***************************************************************************)
(* Communicate: number the request, write it, read the answer.             *)
(***************************************************************************)
\* NTPClient numbers the request before it counts, the others after.
RequestSeq == IF flavour = "ntpd" THEN Sequence ELSE Sequence + 1
AskedSeq == IF flavour = "ntpd" THEN Sequence - 1 ELSE Sequence

\* Mutant of Send: a fresh deadline for every request.
SendAnew ==
  /\ pc = "send" /\ (expired => flavour # "oscillatord")
  /\ toServer' = Append(toServer, Request(call, RequestSeq))
  /\ Sequence' = Sequence + 1
  /\ got' = <<>> /\ pc' = "read"
  /\ expired' = FALSE
  /\ UNCHANGED <<flavour, command, call, cur, result, sock, outcome, exit,
                 toClient, faults, daemonVars, first, histVars>>

\* oscillatord's connection has its deadline for writes too.
Send ==
  /\ pc = "send" /\ (expired => flavour # "oscillatord")
  /\ toServer' = Append(toServer, Request(call, RequestSeq))
  /\ Sequence' = Sequence + 1
  /\ got' = <<>> /\ pc' = "read"
  /\ expired' = (expired /\ flavour # "ntpdate")   \* a new time.After
  /\ UNCHANGED <<flavour, command, call, cur, result, sock, outcome, exit,
                 toClient, faults, daemonVars, first, histVars>>

\* Mutant of NextSource: the last source is left out.
NextSourceButLast(res, i) ==
  IF i < res.n - 1 THEN Goto(res, "sourcedata", i, {})
  ELSE CloseAnd(res, "ok")

\* A turn of ChronyCheck.Run's loop over the sources.
NextSource(res, i) ==
  IF i < res.n THEN Goto(res, "sourcedata", i, {})
  ELSE CloseAnd(res, "ok")

Stored(peers, i, peer) ==
  [j \in DOMAIN peers \cup {i} |-> IF j = i THEN peer ELSE peers[j]]

StorePeer(res, i, peer, src) ==
  [res EXCEPT !.peers = Stored(@, i, peer),
              !.clockSource = IF src.state # "sync" THEN @
                              ELSE IF src.addr \in RefClocks THEN "local"
                              ELSE "ntp"]

NextAssociation(res) ==
  IF res.ids = {} THEN CloseAnd(res, "ok")
  ELSE \E id \in res.ids :
         Goto([res EXCEPT !.ids = @ \ {id}], "readvars", id, {})

\* An error of the current call.  Only ptpcheck's two non-standard data sets
\* may be missing.
CallFails ==
  CASE call.cmd = "portstats" -> Goto(result, "timestatus", 0, {})
    [] call.cmd = "timestatus" -> CloseAnd(result, "ok")
    [] OTHER -> CloseAnd(result, "error")

SendFails ==
  /\ pc = "send" /\ (CallsFail \/ (expired /\ flavour = "oscillatord"))
  /\ Sequence' = Sequence + 1
  /\ CallFails
  /\ broke' = TRUE
  /\ UNCHANGED <<flavour, command, got, expired, netVars, daemonVars, first,
                 used, lost, misordered, seen>>

(***************************************************************************)
(* The answer frags, a sequence of datagrams, is complete: ChronyCheck.Run *)
(* and ServerStats, NTPCheck.Run and ServerStats, Run of ptpcheck,         *)
(* ntpDate, and ReadStatus of oscillatord.                                 *)
(***************************************************************************)
Parts(frags) == {frags[k].n : k \in DOMAIN frags}

\* CommunicateWithData appends the data of every datagram.
Data(frags) ==
  LET upTo[k \in 0 .. Len(frags)] ==
        IF k = 0 THEN <<>> ELSE upTo[k - 1] \o frags[k].src
  IN  upTo[Len(frags)]

\* GetAssociations walks as many entries as the last datagram counts.
GetAssociations(frags) ==
  {a \in Addrs : \E i \in 1 .. frags[Len(frags)].n : Data(frags)[i].addr = a}

\* The address ntpdata is asked about.
ntpdataAddr(src) == src.addr

ChronyAnswer(m) ==
  CASE call.cmd = "tracking" -> Goto(result, "nsources", 0, {})
    [] call.cmd = "nsources" -> NextSource([result EXCEPT !.n = m.n], 0)
    [] call.cmd = "sourcedata" ->
         LET src == m.src[1]
             peer == NewPeerFromChrony(src, NoDetail)
         IN  IF src.addr \notin RefClocks /\ flavour = "chronyUnix"
               THEN Goto(result, "ntpdata", ntpdataAddr(src),
                         {[i |-> call.arg, src |-> src]})
               ELSE NextSource(StorePeer(result, call.arg, peer, src), call.arg + 1)
    [] call.cmd = "ntpdata" ->
         \E c \in cur :
           NextSource(StorePeer(result, c.i,
                                NewPeerFromChrony(c.src, {m.src[1]}), c.src),
                      c.i + 1)
    [] OTHER -> CloseAnd(result, "ok")

NTPAnswer(frags, m) ==
  CASE call.cmd = "readstatus" ->
         Goto([result EXCEPT !.ids = GetAssociations(frags)], "readvars", 0, {})
    [] call.cmd = "readvars" /\ call.arg = 0 -> NextAssociation(result)
    [] call.cmd = "readvars" /\ call.arg # 0 ->
         NextAssociation(
           StorePeer(result, call.arg,
                     NewPeerFromNTP(m.src[1], Parts(frags), 1 .. VarParts),
                     m.src[1]))
    [] OTHER -> CloseAnd(result, "ok")

PTPAnswer(m) ==
  CASE call.cmd = "current" -> Goto(result, "default", 0, {})
    [] call.cmd = "default" -> Goto(result, "parent", 0, {})
    [] call.cmd = "parent" ->
         Goto([result EXCEPT !.gm = m.n = 1], "portstats", 0, {})
    [] call.cmd = "portstats" ->
         Goto([result EXCEPT !.portStats = TRUE], "timestatus", 0, {})
    [] call.cmd = "timestatus" -> CloseAnd([result EXCEPT !.ingress = TRUE], "ok")

TimeAnswer ==
  IF call.arg < Requests THEN Goto(result, "time", call.arg + 1, {})
  ELSE CloseAnd(result, "ok")

\* oscillatordRun: one answer is all.
StatusAnswer == CloseAnd(result, "ok")

\* decodePacket and decodeMgmtPacket refuse an answer with an error status,
\* and so do ServerStats of ntpd and oscillatord's JSON decoder.
Decodes(m) == m.ok \/ call.cmd = "readstatus"

\* The type assertions of MgmtClient's calls and of ChronyCheck.
OfItsType(m) == m.cmd = call.cmd

\* The fields of NTPControlMsg are read only when its operation is the one
\* they belong to, and must contain what a peer or a system cannot lack.
Accepts(frags, m) ==
  /\ Decodes(m) /\ OfItsType(m)
  /\ call.cmd = "readvars" =>
       /\ Sane(Parts(frags))
       /\ (call.arg # 0) => m.arg # 0    \* no polls among system variables

Answer(frags) ==
  LET m == frags[Len(frags)]
  IN  IF ~Accepts(frags, m) THEN CallFails
      ELSE CASE flavour \in {"chronyUDP", "chronyUnix"} -> ChronyAnswer(m)
             [] flavour = "ntpd" -> NTPAnswer(frags, m)
             [] flavour = "ptp" -> PTPAnswer(m)
             [] flavour = "ntpdate" -> TimeAnswer
             [] flavour = "oscillatord" -> StatusAnswer

\* A read fails once the deadline has passed, even with an answer waiting.
\* ntpdate has no deadline on its socket: it waits for the reading goroutine
\* or its timer, whichever it happens to see.
MayRead == toClient # <<>> /\ (expired => flavour = "ntpdate")

\* Only ntpd's answers are split.
More(m) == flavour = "ntpd" /\ m.more

Assemble(g, m) == Append(g, m)

Read ==
  /\ pc = "read" /\ MayRead
  /\ LET m == Head(toClient)
         frags == Assemble(got, m)
     IN  /\ toClient' = Tail(toClient)
         /\ used' = used \cup {<<AskedSeq, m.seq>>}
         /\ IF More(m)
              THEN got' = frags
                   /\ UNCHANGED <<pc, call, cur, result, sock, outcome, exit>>
              ELSE Answer(frags) /\ got' = <<>>
  /\ UNCHANGED <<flavour, command, Sequence, expired, toServer, faults,
                 daemonVars, first, lost, misordered, broke, seen>>

ReadFails ==
  /\ pc = "read" /\ expired
  /\ CallFails
  /\ UNCHANGED <<flavour, command, got, Sequence, expired, netVars, daemonVars,
                 first, histVars>>

\* Mutant of Deadline: none on a Unix socket.
DeadlineButUnix ==
  /\ pc \in {"send", "read"} /\ ~expired /\ flavour \notin Unix
  /\ expired' = TRUE
  /\ UNCHANGED <<flavour, command, pc, call, cur, got, Sequence, sock, result,
                 outcome, exit, netVars, daemonVars, first, histVars>>

\* Five seconds (one for oscillatord) have passed.
Deadline ==
  /\ pc \in {"send", "read"} /\ ~expired
  /\ expired' = TRUE
  /\ UNCHANGED <<flavour, command, pc, call, cur, got, Sequence, sock, result,
                 outcome, exit, netVars, daemonVars, first, histVars>>

(***************************************************************************)
(* The command prints the result and exits.                                *)
(***************************************************************************)
Report ==
  /\ pc = "report"
  /\ pc' = "done"
  /\ command' \in IF command = "check" THEN {"ntpdiag", "stats", "offset"}
                 ELSE {command}
  /\ exit' = CASE command' = "ntpdiag" -> ExitStatus(ntpDiagnose(result.peers))
               [] command' \in {"stats", "offset"} ->
                    IF NewNTPStats(result.peers) = NoStats THEN 1 ELSE 0
               [] flavour = "ptp" -> ExitStatus(ptpDiagnose(result))
               [] OTHER -> 0
  /\ UNCHANGED <<flavour, clientVars, sock, outcome, netVars, daemonVars,
                 first, histVars>>

(***************************************************************************)
(* The daemon and the network (external).                                  *)
(***************************************************************************)
Datagram(r, ok, n, src, more) ==
  [cmd |-> r.cmd, arg |-> r.arg, seq |-> r.seq,
   ok |-> ok, n |-> n, src |-> src, more |-> more]

Find(a) ==
  IF \E k \in DOMAIN sources : sources[k].addr = a
    THEN <<sources[CHOOSE k \in DOMAIN sources : sources[k].addr = a]>>
    ELSE <<>>

Chunks(r) ==
  LET k == (Len(sources) + room - 1) \div room
  IN  IF k = 0 THEN <<Datagram(r, TRUE, 0, <<>>, FALSE)>>
      ELSE [i \in 1 .. k |->
              LET part == SubSeq(sources, (i - 1) * room + 1,
                                 IF i < k THEN i * room ELSE Len(sources))
              IN  Datagram(r, TRUE, Len(part), part, i < k)]

Reply(r) ==
  CASE r.cmd = "nsources" -> <<Datagram(r, TRUE, Len(sources), <<>>, FALSE)>>
    [] r.cmd = "sourcedata" ->
         IF r.arg < Len(sources)
           THEN <<Datagram(r, TRUE, 0, <<sources[r.arg + 1]>>, FALSE)>>
           ELSE <<Datagram(r, FALSE, 0, <<>>, FALSE)>>
    [] r.cmd = "ntpdata" ->
         <<Datagram(r, Find(r.arg) # <<>>, 0, Find(r.arg), FALSE)>>
    [] r.cmd = "readstatus" -> Chunks(r)
    [] r.cmd = "readvars" /\ r.arg # 0 /\ Find(r.arg) = <<>> ->
         <<Datagram(r, FALSE, 0, <<>>, FALSE)>>
    [] r.cmd = "readvars" /\ (r.arg = 0 \/ Find(r.arg) # <<>>) ->
         [i \in 1 .. VarParts |->
            Datagram(r, TRUE, i, IF r.arg = 0 THEN <<>> ELSE Find(r.arg),
                     i < VarParts)]
    [] r.cmd = "parent" ->
         <<Datagram(r, TRUE, IF "gm" \in able THEN 1 ELSE 0, <<>>, FALSE)>>
    [] r.cmd \in {"portstats", "timestatus"} ->
         <<Datagram(r, "np" \in able, 0, <<>>, FALSE)>>
    [] r.cmd = "status" -> <<Datagram(r, "whole" \in able, 0, <<>>, FALSE)>>
    [] OTHER -> <<Datagram(r, TRUE, 0, <<>>, FALSE)>>

Serve ==
  /\ toServer # <<>>
  /\ toServer' = Tail(toServer)
  /\ toClient' = toClient \o Reply(Head(toServer))
  /\ UNCHANGED <<flavour, command, pc, clientVars, sock, outcome, exit, faults,
                 daemonVars, first, histVars>>

\* The daemon's sources matter only when it answers, so it is enough to let
\* them change before a request is sent.
Change ==
  /\ pc = "send" /\ ~expired /\ changes < MaxChanges
  /\ call.cmd \notin {"current", "default", "parent", "portstats", "timestatus",
                      "time", "status", "serverstats", "servervars"}
  /\ changes' = changes + 1
  /\ sources' \in Listings \ {sources}
  /\ seen' = seen \cup StatesOf(sources')
  /\ UNCHANGED <<flavour, command, pc, clientVars, sock, outcome, exit, netVars,
                 room, able, first, used, lost, misordered, broke>>

Without(s, k) == SubSeq(s, 1, k - 1) \o SubSeq(s, k + 1, Len(s))

Lose ==
  /\ pc = "read" /\ ~expired /\ flavour \in UDP /\ faults < MaxFaults
  /\ faults' = faults + 1 /\ lost' = TRUE
  /\ \/ toServer # <<>> /\ toServer' = Tail(toServer) /\ UNCHANGED toClient
     \/ \E k \in DOMAIN toClient :
          /\ toClient' = Without(toClient, k)
          /\ UNCHANGED toServer
  /\ UNCHANGED <<flavour, command, pc, clientVars, sock, outcome, exit,
                 daemonVars, first, used, misordered, broke, seen>>

\* The first answer on its way arrives twice, or behind the others.
Misorder ==
  /\ pc = "read" /\ ~expired /\ flavour \in UDP /\ faults < MaxFaults
  /\ toClient # <<>>
  /\ faults' = faults + 1 /\ misordered' = TRUE
  /\ toClient' \in {Append(toClient, Head(toClient)),
                    Append(Tail(toClient), Head(toClient))} \ {toClient}
  /\ UNCHANGED <<flavour, command, pc, clientVars, sock, outcome, exit, toServer,
                 daemonVars, first, used, lost, broke, seen>>

Client == Dial \/ DialFails \/ Send \/ SendFails \/ Read \/ ReadFails \/ Report

Next == Client \/ Deadline \/ Serve \/ Change \/ Lose \/ Misorder

\* The client's goroutine runs on and its deadline passes; nothing obliges the
\* daemon to answer.
Spec == Init /\ [][Next]_vars /\ WF_vars(Client) /\ WF_vars(Deadline)

(***************************************************************************)
(* Properties.                                                             *)
(***************************************************************************)
\* Although no client compares sequence numbers, every datagram it uses
\* answers the request it has just made, as long as none was repeated or
\* overtaken: each call reads its own answer to the end, and after a read
\* that timed out every later read of the session times out too.  And though
\* CommunicateWithData concatenates what arrives without looking at offsets,
\* the variables of a peer of ntpd are then complete unless one was lost.
OwnAnswer ==
  \/ misordered
  \/ /\ \A u \in used : u[1] = u[2]
     /\ lost \/ \A i \in DOMAIN result.peers : result.peers[i].whole

\* The associations ntpd listed did not fit one datagram.
Split == flavour = "ntpd" /\ Len(first) > room

\* ChronyCheck.Run asks by address for the second half of a peer, so both
\* halves are about one source even if the daemon's list changed in between.
PairConsistent(peer) == peer.detail \subseteq {peer.addr}

\* Every peer a check shows is made of one source's data.  And a check that
\* succeeds shows the daemon's sources, each once and with its
\* state, if the list did not change while it was read one source at a time
\* and (ntpd) its answers came whole and in order.  A list of associations of
\* several datagrams is excluded: GetAssociations uses the last one's count.
SnapshotUnlessChanged ==
  /\ \A i \in DOMAIN result.peers : PairConsistent(result.peers[i])
  /\ (/\ outcome = "ok" /\ changes = 0 /\ ~misordered /\ ~Split
      /\ (lost => flavour # "ntpd")
      /\ FirstCall.cmd \in Lists) =>
       /\ {<<result.peers[i].addr, result.peers[i].sel, result.peers[i].off>> :
              i \in DOMAIN result.peers}
            = {<<first[k].addr, chronyToPeerSelection[first[k].state], first[k].off>> :
                 k \in DOMAIN first}
       /\ \A i, j \in DOMAIN result.peers :
            result.peers[i].addr = result.peers[j].addr => i = j

\* A Unix socket loses nothing, so ptpcheck succeeds unless a system call
\* failed or its time ran out, whether or not ptp4l knows the two data sets
\* that are its own extension; and then it is right about the grandmaster
\* and claims to know the time of the last Sync only if ptp4l said it.
OptionalIsOptional ==
  /\ outcome = "error" => broke \/ expired
  /\ outcome = "ok" => result.gm = ("gm" \in able)
  /\ result.ingress => "np" \in able

\* What a command makes of the answers agrees with the daemon.  ntpcheck diag
\* exits 0 only if some source was selected at some time during the session,
\* stats only if one was usable; and when the check itself succeeded, nothing
\* changed and nothing went astray, diag exits 1 only if none was selected.
\* For ptpcheck see OptionalIsOptional.
VerdictAgrees ==
  /\ (FirstCall.cmd \in Lists /\ pc = "done") =>
       /\ (command = "ntpdiag" /\ exit = 0) => "sync" \in seen
       /\ (command = "stats" /\ exit = 0) => seen \cap {"sync", "candidate"} # {}
       /\ (/\ command = "ntpdiag" /\ exit = 1 /\ outcome = "ok"
           /\ changes = 0 /\ faults = 0 /\ ~Split) => "sync" \notin seen
  /\ flavour = "ptp" => OptionalIsOptional

\* No socket file is left behind once the command has ended, however it
\* ended, but for a chrony connection that could not be set up.
SocketRemoved ==
  (pc = "done" /\ sock) => flavour = "chronyUnix" /\ broke /\ Sequence = 1

\* Every session ends, even if the daemon never answers.
Terminates == <>(pc = "done")

=============================================================================
