------------------------- MODULE NTPResponderProofs -------------------------
(***************************************************************************)
(* Proofs of the safety properties of NTPResponder for any addresses, any  *)
(* number of workers and requests, and whichever calls fail.               *)
(***************************************************************************)
EXTENDS NTPResponder, FiniteSetTheorems, TLAPS

-----------------------------------------------------------------------------
(* Facts about the operators                                               *)
-----------------------------------------------------------------------------
Elems(s) == {s[k] : k \in 1 .. Len(s)}
Distinct(s) == \A k, l \in 1 .. Len(s) : s[k] = s[l] => k = l

\* What SendTask does to the channel.
LEMMA AppendElems ==
  ASSUME NEW s \in Seq(Ids), NEW q \in Ids, Distinct(s), q \notin Elems(s)
  PROVE  /\ Append(s, q) \in Seq(Ids) /\ Len(Append(s, q)) = Len(s) + 1
         /\ Distinct(Append(s, q)) /\ Elems(Append(s, q)) = Elems(s) \cup {q}
<1> DEFINE t == Append(s, q)
<1>1. /\ t \in Seq(Ids) /\ Len(s) \in Nat /\ Len(t) = Len(s) + 1
      /\ t[Len(s) + 1] = q
      /\ \A k \in 1 .. Len(s) : t[k] = s[k]
  OBVIOUS
<1> HIDE DEF t
<1>2. \A k \in 1 .. Len(t) : k \in 1 .. Len(s) \/ k = Len(s) + 1
  BY <1>1
<1>3. \A k \in 1 .. Len(s) : k \in 1 .. Len(t)
  BY <1>1
<1>4. Len(s) + 1 \in 1 .. Len(t)
  BY <1>1
<1>5. Elems(t) = Elems(s) \cup {q}
  BY <1>1, <1>2, <1>3, <1>4, Zenon DEF Elems
<1>6. Distinct(t)
  <2> SUFFICES ASSUME NEW k \in 1 .. Len(t), NEW l \in 1 .. Len(t), t[k] = t[l]
               PROVE  k = l
    BY Zenon DEF Distinct
  <2>1. \A j \in 1 .. Len(s) : s[j] # q
    BY Zenon DEF Elems
  <2>2. QED
    BY <1>1, <1>2, <2>1, Zenon DEF Distinct
<1>7. QED
  BY <1>1, <1>5, <1>6, Zenon DEF t

\* What TakeTask does to it.
LEMMA TailElems ==
  ASSUME NEW s \in Seq(Ids), s # <<>>, Distinct(s)
  PROVE  /\ Head(s) \in Ids /\ Tail(s) \in Seq(Ids) /\ Len(Tail(s)) = Len(s) - 1
         /\ Len(s) \in Nat
         /\ Head(s) \in Elems(s)
         /\ Distinct(Tail(s)) /\ Elems(Tail(s)) = Elems(s) \ {Head(s)}
<1> DEFINE t == Tail(s)
<1>1. /\ t \in Seq(Ids) /\ Len(s) \in Nat /\ Len(s) >= 1 /\ Len(t) = Len(s) - 1
      /\ Head(s) = s[1] /\ Head(s) \in Ids
      /\ \A k \in 1 .. Len(t) : t[k] = s[k + 1] /\ k + 1 \in 1 .. Len(s)
  OBVIOUS
<1> HIDE DEF t
<1>2. 1 \in 1 .. Len(s)
  BY <1>1
<1>3. \A k \in 1 .. Len(s) : k = 1 \/ (k - 1 \in 1 .. Len(t) /\ t[k - 1] = s[k])
  BY <1>1
<1>4. \A k \in 1 .. Len(t) : t[k] # s[1]
  BY <1>1, <1>2 DEF Distinct
<1>5. Elems(t) = Elems(s) \ {s[1]}
  BY <1>1, <1>2, <1>3, <1>4 DEF Elems
<1>6. Distinct(t)
  BY <1>1 DEF Distinct
<1>7. QED
  BY <1>1, <1>2, <1>5, <1>6, Zenon DEF t, Elems

\* The counters are the seven of JSONStats, the first the invalid packets.
LEMMA CounterNames ==
  /\ Counters = {"invalidFormat", "requests", "responses", "listeners",
                 "workers", "readError", "announce"}
  /\ Keys[1] = "invalidFormat"
<1>1. DOMAIN Keys = 1 .. 7
  BY DEF Keys
<1>2. 1 .. 7 = {1, 2, 3, 4, 5, 6, 7}
  OBVIOUS
<1>3. QED
  BY <1>1, <1>2 DEF Counters, Keys

\* The first byte of a response, for any request and for a valid one.
LEMMA ResponseSettings ==
  ASSUME NEW s \in 0 .. 256
  PROVE  /\ ((s \div 8) % 8) * 8 + 4 \in 0 .. 255
         /\ s \in 0 .. 255 /\ ValidSettingsFormat(s) =>
              ((s \div 8) % 8) * 8 + 4 = (s % 64) + 1
  BY DEF ValidSettingsFormat

-----------------------------------------------------------------------------
(* The inductive invariant                                                 *)
-----------------------------------------------------------------------------
(* Start launches all goroutines at once.                                  *)
Started ==
  /\ \A i \in IPs : spc = "launch" <=> lpc[i] = "none"
  /\ \A w \in Workers : spc = "launch" <=> wpc[w] = "none"

(* The checker's counters count the goroutines that have come so far.      *)
Listening == {i \in IPs : lpc[i] \in {"read", "send"}}
Working == {w \in Workers : wpc[w] \notin {"none", "start"}}
Counted ==
  /\ realListeners = Cardinality(Listening)
  /\ realWorkers = Cardinality(Working)

(* Requests are numbered in the order of their arrival.                    *)
Numbered ==
  /\ received = 1 .. Cardinality(received)
  /\ Cardinality(received) \in 0 .. MaxRequests

(* A goroutine has a request exactly while it is busy with it; what anyone *)
(* has, or has done, was received; a worker is done with its request once  *)
(* it has written the answer.                                              *)
Owned ==
  /\ \A i \in IPs : lpc[i] = "send" <=> lreq[i] # None
  /\ \A w \in Workers : wpc[w] \in {"serve", "count"} <=> wreq[w] # None
  /\ \A i \in IPs : lreq[i] \in received \cup {None}
  /\ \A w \in Workers : wreq[w] \in received \cup {None}
  /\ Elems(tasks) \cup answered \cup refused \subseteq received
  /\ \A w \in Workers : wreq[w] # None => (wreq[w] \in answered <=> wpc[w] = "count")

(* fillStaticHeaders comes before the first response.                      *)
Prepared == \A w \in Working : response[w].static

(* What Stop has still to undo.                                            *)
Undone ==
  /\ stoppc # "select" /\ ~late => ~advertised /\ iface \subseteq toDelete
  /\ stoppc = "closed" => toDelete = {}

(* The counters count what was received and refused; the copy of the first *)
(* is not ahead of it.                                                     *)
Exported ==
  /\ stats["requests"] = Cardinality(received)
  /\ stats["invalidFormat"] = Cardinality(refused)
  /\ export # <<>> => export[1] <= stats["invalidFormat"]

IInv ==
  /\ TypeOK /\ Started /\ Counted /\ Numbered /\ Owned /\ RequestsAccounted
  /\ Prepared /\ AnswerOfItsRequest /\ Undone /\ Exported

-----------------------------------------------------------------------------
(* Consequences of the invariant and of the assumption                     *)
-----------------------------------------------------------------------------
\* Ids and its subsets are finite.
LEMMA IdsFinite ==
  /\ \A S \in SUBSET Ids : IsFiniteSet(S) /\ Cardinality(S) \in Nat
  /\ \A S, T \in SUBSET Ids : S \subseteq T => Cardinality(S) <= Cardinality(T)
<1>1. MaxRequests \in Nat
  BY ResponderAssumption, Zenon
<1>2. IsFiniteSet(Ids)
  BY <1>1, FS_Interval DEF Ids
<1>3. \A S \in SUBSET Ids : IsFiniteSet(S)
  BY <1>2, FS_Subset, Zenon
<1>4. QED
  BY <1>3, FS_Subset, FS_CardinalityType, Zenon

\* The checker's counters never exceed what it expects.
LEMMA CountRange ==
  ASSUME NEW S \in SUBSET IPs, NEW T \in SUBSET Workers
  PROVE  /\ Cardinality(S) \in 0 .. Cardinality(IPs)
         /\ Cardinality(T) \in 0 .. Cardinality(Workers)
<1>1. IsFiniteSet(IPs) /\ IsFiniteSet(Workers)
  BY ResponderAssumption, Zenon
<1>2. /\ IsFiniteSet(S) /\ Cardinality(S) <= Cardinality(IPs)
      /\ IsFiniteSet(T) /\ Cardinality(T) <= Cardinality(Workers)
  BY <1>1, FS_Subset, Zenon
<1>3. /\ Cardinality(S) \in Nat /\ Cardinality(IPs) \in Nat
      /\ Cardinality(T) \in Nat /\ Cardinality(Workers) \in Nat
  BY <1>1, <1>2, FS_CardinalityType, Zenon
<1>4. QED
  BY <1>2, <1>3

\* The initial state satisfies the invariant.
LEMMA InitIInv == Init => IInv
<1> SUFFICES ASSUME Init PROVE IInv
  BY Zenon
<1> USE DEF Init
<1>1. received = {} /\ answered = {} /\ refused = {} /\ Elems(tasks) = {}
  BY ResponderAssumption DEF received, answered, Elems, NoByte
<1>2. Cardinality({}) = 0 /\ MaxRequests \in Nat
  BY FS_EmptySet, ResponderAssumption, Zenon
<1>3. Started
  BY Zenon DEF Started
<1>4. Counted
  <2>1. Listening = {} /\ Working = {}
    BY Zenon DEF Listening, Working
  <2>2. QED
    BY <1>2, <2>1, Zenon DEF Counted
<1>5. Numbered
  BY <1>1, <1>2 DEF Numbered
<1>6. Owned
  BY <1>1, Zenon DEF Owned, None
<1>7. RequestsAccounted
  BY <1>1 DEF RequestsAccounted, HeldByOne, None, Queued
<1>8. Prepared /\ AnswerOfItsRequest
  BY Zenon DEF Prepared, Working, AnswerOfItsRequest
<1>9. Undone
  BY Zenon DEF Undone
<1>10. Exported
  BY <1>1, <1>2, CounterNames, Zenon DEF Exported
<1>11. TypeOK
  <2>1. Unset \in Packets
    BY DEF Unset, Packets
  <2>2. tasks \in Seq(Ids) /\ Len(tasks) <= Cardinality(Workers)
    BY ResponderAssumption, FS_CardinalityType
  <2>3. up \in BOOLEAN /\ ctxDone \in BOOLEAN /\ advertised \in BOOLEAN /\ late \in BOOLEAN
    BY Zenon
  <2>4. lreq \in [IPs -> Ids \cup {None}] /\ wreq \in [Workers -> Ids \cup {None}]
    BY Zenon
  <2>5. response \in [Workers -> Packets]
    BY <2>1, Zenon
  <2>6. stats \in [Counters -> Nat] /\ settings \in [Ids -> 0 .. 256]
    BY DEF NoByte
  <2>7. iface \subseteq IPs
    BY ResponderAssumption, Zenon
  <2>8. /\ spc \in {"launch", "wait", "spin"}
        /\ lpc \in [IPs -> {"none", "start", "add", "bind", "read", "send"}]
        /\ wpc \in [Workers -> {"none", "start", "idle", "serve", "count"}]
        /\ stoppc \in {"select", "delete", "closed"} /\ toDelete \subseteq IPs
        /\ export \in Seq(Nat)
        /\ answers \subseteq [to : Ids, packet : Packets] /\ refused \subseteq Ids
    BY <1>2
  <2>9. realListeners \in 0 .. Cardinality(IPs) /\ realWorkers \in 0 .. Cardinality(Workers)
    <3>1. Listening \in SUBSET IPs /\ Working \in SUBSET Workers
      BY Zenon DEF Listening, Working
    <3>2. QED
      BY <1>4, <3>1, CountRange, Zenon DEF Counted
  <2>10. QED
    BY <2>2, <2>3, <2>4, <2>5, <2>6, <2>7, <2>8, <2>9, Zenon DEF TypeOK
<1>12. QED
  BY <1>3, <1>4, <1>5, <1>6, <1>7, <1>8, <1>9, <1>10, <1>11, Zenon DEF IInv

-----------------------------------------------------------------------------
(* Requests: the six actions that pass them on                             *)
-----------------------------------------------------------------------------
Requests == Numbered /\ Owned /\ RequestsAccounted

\* A number under which a packet arrived is not None.
LEMMA ReceivedIds == received \subseteq Ids /\ None \notin received
  BY DEF received, Ids, None

\* A request that a listener reads has a number nobody has seen.
LEMMA ReadPacketRequests ==
  ASSUME IInv, NEW i \in IPs, NEW s \in Settings, ReadPacket(i, s)
  PROVE  Requests' /\ Cardinality(received') = Cardinality(received) + 1
<1> DEFINE n == Cardinality(received)
           q == n + 1
<1>1. /\ lpc[i] = "read" /\ lpc' = [lpc EXCEPT ![i] = "send"]
      /\ lreq' = [lreq EXCEPT ![i] = q] /\ settings' = [settings EXCEPT ![q] = s]
      /\ UNCHANGED <<wpc, wreq, tasks, answers, refused>>
      /\ n + stats["readError"] < MaxRequests
  BY Zenon DEF ReadPacket, Listens, Arrivals
<1>2. s \in 0 .. 255 /\ MaxRequests \in Nat
  BY ResponderAssumption, Zenon
<1>3. received = 1 .. n /\ n \in 0 .. MaxRequests
  BY Zenon DEF IInv, Numbered
<1>4. q \in Ids /\ q \notin received
  <2>1. stats["readError"] \in Nat
    BY CounterNames, Zenon DEF IInv, TypeOK
  <2>2. QED
    BY <1>1, <1>2, <1>3, <2>1 DEF Ids
<1>5. received' = received \cup {q}
  <2>1. \A r \in Ids : settings'[r] = IF r = q THEN s ELSE settings[r]
    BY <1>1, <1>4, Zenon DEF IInv, TypeOK
  <2>2. s # NoByte
    BY <1>2 DEF NoByte
  <2>3. QED
    BY <1>4, <2>1, <2>2, Zenon DEF received
<1>6. Cardinality(received') = q
  BY <1>3, <1>4, <1>5, IdsFinite, FS_AddElement, Zenon DEF received
<1> HIDE DEF q, n
<1>7. Numbered'
  <2>1. received' = 1 .. q /\ q \in 0 .. MaxRequests
    BY <1>2, <1>3, <1>4, <1>5 DEF q, Ids
  <2>2. QED
    BY <1>6, <2>1, Zenon DEF Numbered
<1>8. /\ lreq[i] = None /\ q # None
      /\ \A j \in IPs : lreq'[j] = IF j = i THEN q ELSE lreq[j]
      /\ \A j \in IPs : lpc'[j] = IF j = i THEN "send" ELSE lpc[j]
  BY <1>1, <1>4 DEF IInv, TypeOK, Owned, Ids, None
<1>9. answered' = answered /\ Queued' = Queued /\ Queued = Elems(tasks)
  BY <1>1, Zenon DEF answered, Queued, Elems
<1>10. Owned'
  BY <1>1, <1>5, <1>8, <1>9 DEF IInv, Owned, Elems
<1>11. HeldByOne'
  BY <1>1, <1>4, <1>8, <1>9 DEF IInv, RequestsAccounted, HeldByOne, Owned
<1>12. RequestsAccounted'
  <2> SUFFICES ASSUME NEW r \in received'
               PROVE  \/ \E j \in IPs : lreq'[j] = r
                      \/ r \in Queued'
                      \/ \E w \in Workers : wreq'[w] = r
                      \/ Finished(r)'
    BY <1>11, Zenon DEF RequestsAccounted
  <2>1. CASE r = q
    BY <1>8, <2>1, Zenon
  <2>2. CASE r # q
    <3>1. r \in received /\ r # None
      BY <1>5, <2>2, ReceivedIds, Zenon
    <3>2. Finished(r)' = Finished(r)
      BY <1>1, <1>9, Zenon DEF Finished
    <3>3. QED
      BY <1>1, <1>8, <1>9, <3>1, <3>2, Zenon DEF IInv, RequestsAccounted
  <2>3. QED
    BY <2>1, <2>2, Zenon
<1>13. QED
  BY <1>6, <1>7, <1>10, <1>12, Zenon DEF Requests, q, n

\* The frame of the numbering: settings, and with it received, stay.
LEMMA NumberedFrame ==
  ASSUME IInv, settings' = settings
  PROVE  Numbered' /\ received' = received
  BY Zenon DEF IInv, Numbered, received

\* A request moves from the listener to the channel.
LEMMA SendTaskRequests ==
  ASSUME IInv, NEW i \in IPs, SendTask(i)
  PROVE  Requests'
<1> DEFINE q == lreq[i]
<1>1. /\ lpc[i] = "send" /\ lpc' = [lpc EXCEPT ![i] = "read"]
      /\ lreq' = [lreq EXCEPT ![i] = None] /\ tasks' = Append(tasks, q)
      /\ UNCHANGED <<wpc, wreq, settings, answers, refused>>
  BY Zenon DEF SendTask, Listens, histVars
<1>2. q # None /\ q \in received /\ q \in Ids
  BY <1>1, Zenon DEF IInv, TypeOK, Owned, received
<1>3. received' = received /\ Numbered' /\ answered' = answered
  BY <1>1, NumberedFrame, Zenon DEF answered
<1>4. Queued = Elems(tasks) /\ Queued' = Elems(tasks') /\ Distinct(tasks)
  BY Zenon DEF Queued, Elems, IInv, RequestsAccounted, HeldByOne, Distinct
<1>5. q \notin Queued \cup answered \cup refused /\ \A w \in Workers : q # wreq[w]
  BY <1>2, Zenon DEF IInv, RequestsAccounted, HeldByOne
<1>6. Distinct(tasks') /\ Queued' = Queued \cup {q}
  BY <1>1, <1>2, <1>4, <1>5, AppendElems, Zenon DEF IInv, TypeOK
<1>7. /\ \A j \in IPs : lreq'[j] = IF j = i THEN None ELSE lreq[j]
      /\ \A j \in IPs : lpc'[j] = IF j = i THEN "read" ELSE lpc[j]
  BY <1>1, Zenon DEF IInv, TypeOK
<1>8. \A j \in IPs : j # i => lreq[j] # q
  BY <1>2, Zenon DEF IInv, RequestsAccounted, HeldByOne
<1> HIDE DEF q
<1>9. Owned'
  BY <1>1, <1>2, <1>3, <1>4, <1>6, <1>7 DEF IInv, Owned
<1>10. HeldByOne'
  <2>1. \A k, l \in 1 .. Len(tasks') : tasks'[k] = tasks'[l] => k = l
    BY <1>6, Zenon DEF Distinct
  <2>2. QED
    BY <1>1, <1>2, <1>3, <1>5, <1>6, <1>7, <1>8, <2>1
       DEF IInv, RequestsAccounted, HeldByOne
<1>11. RequestsAccounted'
  BY <1>1, <1>3, <1>6, <1>7, <1>8, <1>10, Zenon DEF IInv, RequestsAccounted, Finished, q
<1>12. QED
  BY <1>3, <1>9, <1>11, Zenon DEF Requests

\* It moves from the channel to a worker.
LEMMA TakeTaskRequests ==
  ASSUME IInv, NEW w \in Workers, TakeTask(w)
  PROVE  Requests'
<1> DEFINE q == Head(tasks)
<1>1. /\ wpc[w] = "idle" /\ wpc' = [wpc EXCEPT ![w] = "serve"] /\ tasks # <<>>
      /\ wreq' = [wreq EXCEPT ![w] = q] /\ tasks' = Tail(tasks)
      /\ UNCHANGED <<lpc, lreq, settings, answers, refused>>
  BY Zenon DEF TakeTask, Works, histVars
<1>2. received' = received /\ Numbered' /\ answered' = answered
  BY <1>1, NumberedFrame, Zenon DEF answered
<1>3. Queued = Elems(tasks) /\ Queued' = Elems(tasks') /\ Distinct(tasks)
  BY Zenon DEF Queued, Elems, IInv, RequestsAccounted, HeldByOne, Distinct
<1>4. q \in Ids /\ q \in Queued /\ Distinct(tasks') /\ Queued' = Queued \ {q}
  BY <1>1, <1>3, TailElems, Zenon DEF IInv, TypeOK
<1>5. wreq[w] = None /\ q # None
  BY <1>1, <1>4 DEF IInv, Owned, Ids, None
<1>6. /\ \A v \in Workers : wreq'[v] = IF v = w THEN q ELSE wreq[v]
      /\ \A v \in Workers : wpc'[v] = IF v = w THEN "serve" ELSE wpc[v]
  BY <1>1, Zenon DEF IInv, TypeOK
<1>7. /\ q \notin answered \cup refused
      /\ \A i \in IPs : lreq[i] # q
      /\ \A v \in Workers : wreq[v] # q
  BY <1>4, <1>5 DEF IInv, RequestsAccounted, HeldByOne
<1> HIDE DEF q
<1>8. Owned'
  BY <1>1, <1>2, <1>3, <1>4, <1>5, <1>6, <1>7 DEF IInv, Owned
<1>9. HeldByOne'
  <2>1. \A k, l \in 1 .. Len(tasks') : tasks'[k] = tasks'[l] => k = l
    BY <1>4, Zenon DEF Distinct
  <2>2. QED
    BY <1>1, <1>2, <1>4, <1>5, <1>6, <1>7, <2>1 DEF IInv, RequestsAccounted, HeldByOne
<1>10. RequestsAccounted'
  <2> SUFFICES ASSUME NEW r \in received
               PROVE  \/ \E i \in IPs : lreq[i] = r
                      \/ r \in Queued'
                      \/ \E v \in Workers : wreq'[v] = r
                      \/ Finished(r)'
    BY <1>1, <1>2, <1>9, Zenon DEF RequestsAccounted
  <2>1. CASE r = q
    BY <1>6, <2>1, Zenon
  <2>2. CASE r # q
    <3>1. r # None
      BY ReceivedIds, Zenon
    <3>2. Finished(r) => Finished(r)'
      BY <1>1, <1>2, <1>6, <2>2, Zenon DEF Finished
    <3>3. QED
      BY <1>4, <1>5, <1>6, <2>2, <3>1, <3>2, Zenon DEF IInv, RequestsAccounted
  <2>3. QED
    BY <2>1, <2>2, Zenon
<1>11. QED
  BY <1>2, <1>8, <1>10, Zenon DEF Requests

\* Writing the answer puts the request among the answered ones.
LEMMA RespondRequests ==
  ASSUME IInv, NEW w \in Workers, Respond(w)
  PROVE  Requests'
<1> DEFINE q == wreq[w]
<1>1. /\ wpc[w] = "serve" /\ wpc' = [wpc EXCEPT ![w] = "count"]
      /\ answers' = answers \cup {[to |-> q, packet |-> generateResponse(response[w], q)]}
      /\ UNCHANGED <<lpc, lreq, wreq, tasks, settings, refused>>
  BY Zenon DEF Respond, Works
<1>2. received' = received /\ Numbered'
  BY <1>1, NumberedFrame, Zenon
<1>3. answered' = answered \cup {q}
  <2>1. PICK a : a.to = q /\ answers' = answers \cup {a}
    BY <1>1, Zenon
  <2>2. QED
    BY <2>1, Zenon DEF answered
<1>4. Queued' = Queued /\ Elems(tasks)' = Elems(tasks)
  BY <1>1, Zenon DEF Queued, Elems
<1>5. q # None /\ q \in received
  BY <1>1, Zenon DEF IInv, Owned
<1>6. \A v \in Workers : wpc'[v] = IF v = w THEN "count" ELSE wpc[v]
  BY <1>1, Zenon DEF IInv, TypeOK
<1>7. /\ q \notin Queued \cup refused
      /\ \A i \in IPs : lreq[i] # q
      /\ \A v \in Workers : v # w => wreq[v] # q
  BY <1>5, Zenon DEF IInv, RequestsAccounted, HeldByOne
<1> HIDE DEF q
<1>8. Owned'
  BY <1>1, <1>2, <1>3, <1>4, <1>5, <1>6, <1>7, ZenonT(30) DEF IInv, Owned, q
<1>9. HeldByOne'
  <2>1. HeldByOne
    BY Zenon DEF IInv, RequestsAccounted
  <2>2. \A i \in IPs : lreq'[i] # None => lreq'[i] \notin Queued' \cup answered' \cup refused'
    BY <1>1, <1>3, <1>4, <1>7, <2>1, Zenon DEF HeldByOne
  <2>3. Queued' \cap (answered' \cup refused') = {} /\ answered' \cap refused' = {}
    BY <1>1, <1>3, <1>4, <1>7, <2>1 DEF HeldByOne
  <2>4. QED
    BY <1>1, <1>4, <2>1, <2>2, <2>3, Zenon DEF HeldByOne
<1>10. \A r \in received : Finished(r) => Finished(r)'
  BY <1>1, <1>3, Zenon DEF Finished
<1>11. RequestsAccounted'
  BY <1>1, <1>2, <1>4, <1>9, <1>10, Zenon DEF IInv, RequestsAccounted
<1>12. QED
  BY <1>2, <1>8, <1>11, Zenon DEF Requests

\* A worker that lets go of its request has answered or refused it.
LEMMA ReleaseRequests ==
  ASSUME IInv, NEW w \in Workers, CountResponse(w) \/ Refuse(w)
  PROVE  Requests'
<1> DEFINE q == wreq[w]
<1>1. /\ wpc[w] \in {"serve", "count"} /\ wpc' = [wpc EXCEPT ![w] = "idle"]
      /\ wreq' = [wreq EXCEPT ![w] = None]
      /\ UNCHANGED <<lpc, lreq, tasks, settings, answers>>
      /\ \/ wpc[w] = "count" /\ refused' = refused
         \/ wpc[w] = "serve" /\ refused' = refused \cup {q}
  BY Zenon DEF CountResponse, Refuse, Works, histVars
<1>2. received' = received /\ Numbered' /\ answered' = answered
  BY <1>1, NumberedFrame, Zenon DEF answered
<1>3. Queued' = Queued /\ Elems(tasks)' = Elems(tasks)
  BY <1>1, Zenon DEF Queued, Elems
<1>4. q # None /\ q \in received /\ (q \in answered <=> wpc[w] = "count")
  BY <1>1, Zenon DEF IInv, Owned
<1>5. /\ \A v \in Workers : wreq'[v] = IF v = w THEN None ELSE wreq[v]
      /\ \A v \in Workers : wpc'[v] = IF v = w THEN "idle" ELSE wpc[v]
  BY <1>1, Zenon DEF IInv, TypeOK
<1>6. /\ q \notin Queued
      /\ \A i \in IPs : lreq[i] # q
      /\ \A v \in Workers : v # w => wreq[v] # q
  BY <1>4, Zenon DEF IInv, RequestsAccounted, HeldByOne
<1> HIDE DEF q
<1>7. Owned'
  BY <1>1, <1>2, <1>3, <1>4, <1>5 DEF IInv, Owned
<1>8. HeldByOne'
  BY <1>1, <1>2, <1>3, <1>4, <1>5, <1>6 DEF IInv, RequestsAccounted, HeldByOne
<1>9. RequestsAccounted'
  <2> SUFFICES ASSUME NEW r \in received
               PROVE  \/ \E i \in IPs : lreq[i] = r
                      \/ r \in Queued
                      \/ \E v \in Workers : wreq'[v] = r
                      \/ Finished(r)'
    BY <1>1, <1>2, <1>3, <1>8, Zenon DEF RequestsAccounted
  <2>1. CASE r = q
    BY <1>1, <1>2, <1>4, <1>5, <1>6, <2>1, Zenon DEF Finished
  <2>2. CASE r # q
    <3>1. r # None
      BY ReceivedIds, Zenon
    <3>2. Finished(r) => Finished(r)'
      BY <1>1, <1>2, <1>5, <3>1, Zenon DEF Finished
    <3>3. QED
      BY <1>5, <2>2, <3>1, <3>2, Zenon DEF IInv, RequestsAccounted, q
  <2>3. QED
    BY <2>1, <2>2, Zenon
<1>10. QED
  BY <1>2, <1>7, <1>9, Zenon DEF Requests

\* The other steps leave requests, and who is busy with one, alone.
LEMMA RequestsFrame ==
  ASSUME IInv, UNCHANGED <<lreq, wreq, tasks, settings, answers, refused>>,
         \A i \in IPs : lpc'[i] = "send" <=> lpc[i] = "send",
         \A w \in Workers : wpc'[w] \in {"serve", "count"} <=> wpc[w] \in {"serve", "count"},
         \A w \in Workers : wpc'[w] = "count" <=> wpc[w] = "count"
  PROVE  Requests'
<1>1. received' = received /\ Numbered' /\ answered' = answered
  BY NumberedFrame, Zenon DEF answered
<1>2. Owned'
  BY <1>1 DEF IInv, Owned, Elems
<1>3. RequestsAccounted'
  <2>1. Queued' = Queued /\ \A q : Finished(q)' <=> Finished(q)
    BY <1>1, Zenon DEF Queued, Finished
  <2>2. HeldByOne'
    BY <1>1, <2>1, ZenonT(30) DEF IInv, RequestsAccounted, HeldByOne
  <2>3. QED
    BY <1>1, <2>1, <2>2, Zenon DEF IInv, RequestsAccounted
<1>4. QED
  BY <1>1, <1>2, <1>3, Zenon DEF Requests

\* Requests are kept by every step.
LEMMA RequestsStep ==
  ASSUME IInv, Next
  PROVE  Requests'
<1> USE DEF procVars, histVars, IInv, TypeOK
<1>1. CASE Launch
  <2>1. /\ \A i \in IPs : lpc[i] = "none" /\ lpc'[i] = "start"
        /\ \A w \in Workers : wpc[w] = "none" /\ wpc'[w] = "start"
    BY <1>1, Zenon DEF Launch, Started
  <2>2. UNCHANGED <<lreq, wreq, tasks, settings, answers, refused>>
    BY <1>1, Zenon DEF Launch
  <2>3. QED
    BY <2>1, <2>2, RequestsFrame, Zenon
<1>2. CASE \/ AnnounceTimer \/ SeeCancelled \/ RunChecker \/ HandleRequest \/ ToMap
           \/ Stop(TRUE) \/ Stop(FALSE) \/ Exit \/ \E i \in IPs : DeleteIP(i)
  <2>1. UNCHANGED <<lpc, wpc, lreq, wreq, tasks, settings, answers, refused>>
    BY <1>2, Zenon DEF AnnounceTimer, SeeCancelled, RunChecker, HandleRequest, ToMap, Stop,
       Exit, DeleteIP
  <2>2. QED
    BY <2>1, RequestsFrame, Zenon
<1>3. ASSUME NEW i \in IPs,
             CheckIP(i) \/ AddIP(i) \/ Bind(i) \/ BindFails(i) \/ ReadError(i)
      PROVE  Requests'
  <2>1. UNCHANGED <<wpc, lreq, wreq, tasks, settings, answers, refused>>
    BY <1>3, Zenon DEF CheckIP, AddIP, Bind, BindFails, ReadError
  <2>2. \A j \in IPs : lpc'[j] = "send" <=> lpc[j] = "send"
    BY <1>3, Zenon DEF CheckIP, AddIP, Bind, BindFails, ReadError, Listens
  <2>3. QED
    BY <2>1, <2>2, RequestsFrame, Zenon
<1>4. ASSUME NEW w \in Workers, StartWorker(w)
      PROVE  Requests'
  <2>1. UNCHANGED <<lpc, lreq, wreq, tasks, settings, answers, refused>>
    BY <1>4, Zenon DEF StartWorker
  <2>2. \A v \in Workers : wpc'[v] = wpc[v] \/ (wpc[v] = "start" /\ wpc'[v] = "idle")
    BY <1>4, Zenon DEF StartWorker, Works
  <2>3. QED
    BY <2>1, <2>2, RequestsFrame, Zenon
<1>5. ASSUME NEW i \in IPs, NEW s \in Settings, ReadPacket(i, s)
      PROVE  Requests'
  BY <1>5, ReadPacketRequests, Zenon
<1>6. QED
  BY <1>1, <1>2, <1>3, <1>4, <1>5, SendTaskRequests, TakeTaskRequests, RespondRequests,
     ReleaseRequests, Zenon DEF Next, Listener, Worker

-----------------------------------------------------------------------------
(* Every step keeps every part of the invariant                            *)
-----------------------------------------------------------------------------
\* All goroutines are launched together, and none goes back.
LEMMA StartedStep ==
  ASSUME IInv, Next
  PROVE  Started'
<1> USE DEF IInv, TypeOK, Started, procVars
<1>1. CASE Launch
  BY <1>1, Zenon DEF Launch
<1>2. CASE AnnounceTimer \/ SeeCancelled
  BY <1>2, Zenon DEF AnnounceTimer, AfterTimer, SeeCancelled
<1>3. CASE \/ RunChecker \/ HandleRequest \/ ToMap \/ Stop(TRUE) \/ Stop(FALSE) \/ Exit
           \/ \E i \in IPs : DeleteIP(i)
  <2>1. UNCHANGED <<spc, lpc, wpc>>
    BY <1>3, Zenon DEF RunChecker, HandleRequest, ToMap, Stop, Exit, DeleteIP
  <2>2. QED
    BY <2>1, Zenon
<1>4. ASSUME NEW i \in IPs, Listener(i) \/ BindFails(i) \/ ReadError(i)
                            \/ \E s \in Settings : ReadPacket(i, s)
      PROVE  Started'
  <2>1. PICK from, to : Listens(i, from, to) /\ from # "none" /\ to # "none"
    BY <1>4, Zenon DEF Listener, CheckIP, AddIP, Bind, SendTask, BindFails, ReadError, ReadPacket
  <2>2. UNCHANGED <<spc, wpc>>
    BY <1>4, Zenon DEF Listener, CheckIP, AddIP, Bind, SendTask, BindFails, ReadError,
       ReadPacket
  <2>3. QED
    BY <2>1, <2>2, Zenon DEF Listens
<1>5. ASSUME NEW w \in Workers, Worker(w)
      PROVE  Started'
  <2>1. PICK from, to : Works(w, from, to) /\ from # "none" /\ to # "none"
    BY <1>5, Zenon DEF Worker, StartWorker, TakeTask, Respond, CountResponse, Refuse
  <2>2. UNCHANGED <<spc, lpc>>
    BY <1>5, Zenon DEF Worker, StartWorker, TakeTask, Respond, CountResponse, Refuse
  <2>3. QED
    BY <2>1, <2>2, Zenon DEF Works
<1>6. QED
  BY <1>1, <1>2, <1>3, <1>4, <1>5, Zenon DEF Next

\* The checker's counters follow the goroutines.
LEMMA CountedStep ==
  ASSUME IInv, Next
  PROVE  Counted'
<1> USE DEF procVars, checkVars
<1>1. IsFiniteSet(Listening) /\ IsFiniteSet(Working)
  <2>1. Listening \in SUBSET IPs /\ Working \in SUBSET Workers
    BY Zenon DEF Listening, Working
  <2>2. QED
    BY <2>1, FS_Subset, ResponderAssumption, Zenon
<1>2. ASSUME NEW i \in IPs, Bind(i)
      PROVE  Counted'
  <2>1. i \notin Listening /\ Listening' = Listening \cup {i}
    BY <1>2, Zenon DEF IInv, TypeOK, Bind, Listens, Listening
  <2>2. Working' = Working
    BY <1>2, Zenon DEF Bind, Working
  <2>3. Cardinality(Listening') = Cardinality(Listening) + 1
    BY <1>1, <2>1, FS_AddElement, Zenon
  <2>4. QED
    BY <1>2, <2>2, <2>3, Zenon DEF IInv, Counted, Bind
<1>3. ASSUME NEW w \in Workers, StartWorker(w)
      PROVE  Counted'
  <2>1. w \notin Working /\ Working' = Working \cup {w}
    BY <1>3 DEF IInv, TypeOK, StartWorker, Works, Working
  <2>2. Listening' = Listening
    BY <1>3, Zenon DEF StartWorker, Listening
  <2>3. Cardinality(Working') = Cardinality(Working) + 1
    BY <1>1, <2>1, FS_AddElement, Zenon
  <2>4. QED
    BY <1>3, <2>2, <2>3, Zenon DEF IInv, Counted, StartWorker
<1>4. ASSUME Listening' = Listening, Working' = Working, UNCHANGED checkVars
      PROVE  Counted'
  BY <1>4, Zenon DEF IInv, Counted
<1>5. CASE Launch
  <2>1. Listening = {} /\ Working = {} /\ Listening' = {} /\ Working' = {}
    BY <1>5, Zenon DEF Launch, IInv, Started, Listening, Working
  <2>2. QED
    BY <1>4, <1>5, <2>1, Zenon DEF Launch
<1>6. CASE \/ AnnounceTimer \/ SeeCancelled \/ RunChecker \/ HandleRequest \/ ToMap
           \/ Stop(TRUE) \/ Stop(FALSE) \/ Exit \/ \E i \in IPs : DeleteIP(i)
  <2>1. UNCHANGED <<lpc, wpc, checkVars>>
    BY <1>6, Zenon DEF AnnounceTimer, SeeCancelled, RunChecker, HandleRequest, ToMap, Stop,
       Exit, DeleteIP
  <2>2. QED
    BY <1>4, <2>1, Zenon DEF Listening, Working
<1>7. ASSUME NEW i \in IPs, CheckIP(i) \/ AddIP(i) \/ SendTask(i) \/ BindFails(i)
                            \/ ReadError(i) \/ \E s \in Settings : ReadPacket(i, s)
      PROVE  Counted'
  <2>1. Listening' = Listening
    BY <1>7, ZenonT(30) DEF IInv, TypeOK, CheckIP, AddIP, SendTask, BindFails, ReadError, ReadPacket,
       Listens, Listening
  <2>2. UNCHANGED <<wpc, checkVars>>
    BY <1>7, Zenon DEF CheckIP, AddIP, SendTask, BindFails, ReadError, ReadPacket
  <2>3. QED
    BY <1>4, <2>1, <2>2, Zenon DEF Working
<1>8. ASSUME NEW w \in Workers, TakeTask(w) \/ Respond(w) \/ CountResponse(w) \/ Refuse(w)
      PROVE  Counted'
  <2>1. Working' = Working
    BY <1>8, ZenonT(30) DEF IInv, TypeOK, TakeTask, Respond, CountResponse, Refuse, Works, Working
  <2>2. UNCHANGED <<lpc, checkVars>>
    BY <1>8, Zenon DEF TakeTask, Respond, CountResponse, Refuse
  <2>3. QED
    BY <1>4, <2>1, <2>2, Zenon DEF Listening
<1>9. QED
  BY <1>2, <1>3, <1>5, <1>6, <1>7, <1>8, Zenon DEF Next, Listener, Worker

\* What Stop undoes stays undone, unless a call fails or comes late.
LEMMA UndoneStep ==
  ASSUME IInv, Next
  PROVE  Undone'
<1> USE DEF procVars, stopVars
<1>1. CASE AnnounceTimer
  <2>1. /\ UNCHANGED <<stoppc, toDelete, iface>>
        /\ \/ late' = (late \/ stoppc # "select")
           \/ UNCHANGED <<late, advertised>>
    BY <1>1, Zenon DEF AnnounceTimer
  <2>2. stoppc # "select" => late' \/ UNCHANGED <<late, advertised>>
    BY <2>1, Zenon
  <2>3. stoppc' # "select" /\ ~late' => ~advertised' /\ iface' \subseteq toDelete'
    BY <2>1, <2>2, Zenon DEF IInv, Undone
  <2>4. QED
    BY <2>1, <2>3, Zenon DEF IInv, Undone
<1>2. ASSUME NEW i \in IPs, AddIP(i)
      PROVE  Undone'
  <2>1. /\ UNCHANGED <<stoppc, toDelete, advertised>>
        /\ \/ late' = (late \/ stoppc # "select")
           \/ UNCHANGED <<late, iface>>
    BY <1>2, Zenon DEF AddIP, addIfaceIP
  <2>2. stoppc # "select" => late' \/ UNCHANGED <<late, iface>>
    BY <2>1, Zenon
  <2>3. QED
    BY <2>1, <2>2, Zenon DEF IInv, Undone
<1>3. ASSUME NEW b \in BOOLEAN, Stop(b)
      PROVE  Undone'
  BY <1>3, Zenon DEF IInv, TypeOK, Undone, Stop
<1>4. ASSUME NEW i \in IPs, DeleteIP(i)
      PROVE  Undone'
  BY <1>4 DEF IInv, TypeOK, Undone, DeleteIP, deleteIfaceIP
<1>5. CASE Exit
  BY <1>5, Zenon DEF IInv, TypeOK, Undone, Exit
<1>6. ASSUME UNCHANGED <<stoppc, toDelete, iface, advertised, late>>
      PROVE  Undone'
  BY <1>6, Zenon DEF IInv, Undone
<1>7. CASE Launch \/ SeeCancelled \/ RunChecker \/ HandleRequest \/ ToMap
  BY <1>6, <1>7, Zenon DEF Launch, SeeCancelled, RunChecker, HandleRequest, ToMap
<1>8. ASSUME NEW i \in IPs, CheckIP(i) \/ Bind(i) \/ SendTask(i) \/ BindFails(i)
                            \/ ReadError(i) \/ \E s \in Settings : ReadPacket(i, s)
      PROVE  Undone'
  BY <1>6, <1>8, Zenon DEF CheckIP, Bind, SendTask, BindFails, ReadError, ReadPacket
<1>9. ASSUME NEW w \in Workers, Worker(w)
      PROVE  Undone'
  BY <1>6, <1>9, Zenon DEF Worker, StartWorker, TakeTask, Respond, CountResponse, Refuse
<1>10. QED
  BY <1>1, <1>2, <1>3, <1>4, <1>5, <1>7, <1>8, <1>9, Zenon DEF Next, Listener

\* A worker has filled in the static headers before it answers, and answers
\* each request with what is that request's.
LEMMA AnswersStep ==
  ASSUME IInv, Next
  PROVE  Prepared' /\ AnswerOfItsRequest'
<1> USE DEF procVars, histVars
<1>1. ASSUME NEW w \in Workers, StartWorker(w)
      PROVE  Prepared'
  <2>1. \A v \in Workers : response'[v] =
          IF v = w THEN [response[w] EXCEPT !.static = TRUE] ELSE response[v]
    BY <1>1, Zenon DEF IInv, TypeOK, StartWorker
  <2>2. \A v \in Working' : v = w \/ v \in Working
    BY <1>1, Zenon DEF IInv, TypeOK, StartWorker, Works, Working
  <2>3. response[w] \in Packets
    BY Zenon DEF IInv, TypeOK
  <2>4. QED
    BY <2>1, <2>2, <2>3, Zenon DEF IInv, Prepared, Working, Packets
<1>2. ASSUME NEW w \in Workers, Respond(w)
      PROVE  Prepared' /\ AnswerOfItsRequest'
  <2> DEFINE q == wreq[w]
             r == generateResponse(response[w], q)
  <2>1. /\ wpc[w] = "serve" /\ ValidSettingsFormat(settings[q])
        /\ response' = [response EXCEPT ![w] = r]
        /\ answers' = answers \cup {[to |-> q, packet |-> r]}
        /\ settings' = settings /\ wpc' = [wpc EXCEPT ![w] = "count"]
    BY <1>2, ZenonT(30) DEF Respond, Works
  <2>2. q \in Ids /\ settings[q] \in 0 .. 255
    BY <2>1 DEF IInv, Owned, TypeOK, received, NoByte
  <2>3. response[w] \in Packets /\ response[w].static = TRUE
    <3>1. w \in Working
      BY <2>1, Zenon DEF Working
    <3>2. response[w] \in Packets /\ response[w].static
      BY <3>1, Zenon DEF IInv, TypeOK, Prepared
    <3>3. response[w].static \in BOOLEAN
      BY <3>2, Zenon DEF Packets
    <3>4. QED
      BY <3>2, <3>3, Zenon
  <2>4. r = [settings |-> (settings[q] % 64) + 1, static |-> TRUE, orig |-> q, rx |-> q]
    <3> DEFINE Mode(s) == ((s \div 8) % 8) * 8 + 4 = (s % 64) + 1
    <3>0. \A s \in 0 .. 255 : ValidSettingsFormat(s) => Mode(s)
      BY ResponseSettings
    <3> HIDE DEF Mode
    <3>1. Mode(settings[q])
      BY <2>1, <2>2, <3>0, Zenon
    <3> USE DEF Mode
    <3>2. r = [response[w] EXCEPT !.settings = (settings[q] % 64) + 1, !.orig = q, !.rx = q]
      BY <3>1, Zenon DEF generateResponse
    <3>3. QED
      BY <2>3, <3>2, Zenon DEF Packets
  <2> HIDE DEF q, r
  <2>5. AnswerOfItsRequest'
    <3>1. \A a \in answers' : a \in answers \/ (a.to = q /\ a.packet = r)
      BY <2>1
    <3>2. QED
      BY <2>1, <2>4, <3>1, ZenonT(30) DEF IInv, AnswerOfItsRequest
  <2>6. Prepared'
    <3>1. Working' = Working
      BY <2>1, Zenon DEF IInv, TypeOK, Working
    <3>2. \A v \in Workers : response'[v] = IF v = w THEN r ELSE response[v]
      BY <2>1, Zenon DEF IInv, TypeOK
    <3>3. QED
      BY <2>4, <3>1, <3>2 DEF IInv, Prepared, Working
  <2>7. QED
    BY <2>5, <2>6, Zenon
<1>3. ASSUME NEW i \in IPs, NEW s \in Settings, ReadPacket(i, s)
      PROVE  AnswerOfItsRequest'
  <2> DEFINE q == Cardinality(received) + 1
  <2>1. settings' = [settings EXCEPT ![q] = s] /\ answers' = answers
    BY <1>3, Zenon DEF ReadPacket
  <2>2. \A a \in answers : a.to \in received /\ a.to # q
    BY DEF IInv, Owned, answered, Numbered
  <2>3. \A a \in answers : settings'[a.to] = settings[a.to]
    BY <2>1, <2>2, Zenon DEF IInv, TypeOK, received
  <2>4. QED
    BY <2>1, <2>3, Zenon DEF IInv, AnswerOfItsRequest
<1>4. ASSUME UNCHANGED <<settings, answers>>
      PROVE  AnswerOfItsRequest'
  BY <1>4, Zenon DEF IInv, AnswerOfItsRequest
<1>5. ASSUME UNCHANGED response, \A v \in Workers : v \in Working' => v \in Working
      PROVE  Prepared'
  BY <1>5, Zenon DEF IInv, Prepared, Working
<1>6. CASE Launch
  <2>1. Working' = {}
    BY <1>6, Zenon DEF Launch, Working
  <2>2. QED
    BY <1>4, <1>5, <1>6, <2>1, Zenon DEF Launch
<1>7. CASE \/ AnnounceTimer \/ SeeCancelled \/ RunChecker \/ HandleRequest \/ ToMap
           \/ Stop(TRUE) \/ Stop(FALSE) \/ Exit \/ \E i \in IPs : DeleteIP(i)
  <2>1. UNCHANGED <<wpc, response, settings, answers>>
    BY <1>7, Zenon DEF AnnounceTimer, SeeCancelled, RunChecker, HandleRequest, ToMap, Stop,
       Exit, DeleteIP
  <2>2. QED
    BY <1>4, <1>5, <2>1, Zenon DEF Working
<1>8. ASSUME NEW i \in IPs, Listener(i) \/ BindFails(i) \/ ReadError(i)
      PROVE  Prepared' /\ AnswerOfItsRequest'
  <2>1. UNCHANGED <<wpc, response, settings, answers>>
    BY <1>8, Zenon DEF Listener, CheckIP, AddIP, Bind, SendTask, BindFails, ReadError
  <2>2. QED
    BY <1>4, <1>5, <2>1, Zenon DEF Working
<1>9. ASSUME NEW i \in IPs, NEW s \in Settings, ReadPacket(i, s)
      PROVE  Prepared'
  <2>1. UNCHANGED <<wpc, response>>
    BY <1>9, Zenon DEF ReadPacket
  <2>2. QED
    BY <1>5, <2>1, Zenon DEF Working
<1>10. ASSUME NEW w \in Workers, TakeTask(w) \/ CountResponse(w) \/ Refuse(w)
       PROVE  Prepared' /\ AnswerOfItsRequest'
  <2>1. UNCHANGED <<response, settings, answers>>
    BY <1>10, Zenon DEF TakeTask, CountResponse, Refuse
  <2>2. Working' = Working
    BY <1>10 DEF IInv, TypeOK, TakeTask, CountResponse, Refuse, Works, Working
  <2>3. QED
    BY <1>4, <1>5, <2>1, <2>2, Zenon
<1>11. ASSUME NEW w \in Workers, StartWorker(w)
       PROVE  AnswerOfItsRequest'
  BY <1>4, <1>11, Zenon DEF StartWorker
<1>12. QED
  BY <1>1, <1>2, <1>3, <1>6, <1>7, <1>8, <1>9, <1>10, <1>11, Zenon DEF Next, Worker

\* The counters count, and a copy lags behind.
LEMMA ExportedStep ==
  ASSUME IInv, Next
  PROVE  Exported'
<1> USE DEF procVars, histVars
<1>1. stats \in [Counters -> Nat] /\ refused \in SUBSET Ids /\ export \in Seq(Nat)
  BY Zenon DEF IInv, TypeOK
<1>2. ASSUME NEW c \in Counters \ {"requests", "invalidFormat"}, NEW n \in Nat,
             stats' = [stats EXCEPT ![c] = n], UNCHANGED <<settings, refused, export>>
      PROVE  Exported'
  <2>1. received' = received
    BY <1>2, NumberedFrame, Zenon
  <2>2. stats'["requests"] = stats["requests"] /\ stats'["invalidFormat"] = stats["invalidFormat"]
    BY <1>1, <1>2, CounterNames, Zenon
  <2>3. QED
    BY <1>2, <2>1, <2>2, Zenon DEF IInv, Exported
<1>3. ASSUME UNCHANGED <<stats, settings, refused, export>>
      PROVE  Exported'
  BY <1>3, NumberedFrame, Zenon DEF IInv, Exported
<1>4. CASE AnnounceTimer
  BY <1>2, <1>4, CounterNames, Zenon DEF AnnounceTimer
<1>5. ASSUME NEW i \in IPs, CheckIP(i) \/ ReadError(i)
      PROVE  Exported'
  BY <1>1, <1>2, <1>5, CounterNames DEF CheckIP, ReadError, Inc
<1>6. ASSUME NEW w \in Workers, StartWorker(w) \/ CountResponse(w)
      PROVE  Exported'
  <2>1. PICK c \in {"workers", "responses"} :
          stats' = [stats EXCEPT ![c] = @ + 1] /\ UNCHANGED <<settings, refused, export>>
    BY <1>6, Zenon DEF StartWorker, CountResponse, Inc
  <2>2. stats[c] + 1 \in Nat /\ c \in Counters
    BY <1>1, CounterNames
  <2>3. QED
    BY <1>2, <2>1, <2>2, CounterNames, Zenon
<1>7. ASSUME NEW i \in IPs, NEW s \in Settings, ReadPacket(i, s)
      PROVE  Exported'
  <2>1. Cardinality(received') = Cardinality(received) + 1
    BY <1>7, ReadPacketRequests, Zenon
  <2>2. /\ stats' = [stats EXCEPT !["requests"] = @ + 1]
        /\ UNCHANGED <<refused, export>>
    BY <1>7, Zenon DEF ReadPacket, Inc
  <2>3. /\ stats'["requests"] = stats["requests"] + 1
        /\ stats'["invalidFormat"] = stats["invalidFormat"]
    BY <1>1, <2>2, CounterNames, Zenon
  <2>4. QED
    BY <2>1, <2>2, <2>3, Zenon DEF IInv, Exported
<1>8. ASSUME NEW w \in Workers, Refuse(w)
      PROVE  Exported'
  <2>1. /\ wpc[w] = "serve" /\ refused' = refused \cup {wreq[w]}
        /\ stats' = [stats EXCEPT !["invalidFormat"] = @ + 1]
        /\ UNCHANGED <<settings, export>>
    BY <1>8, Zenon DEF Refuse, Works, Inc
  <2>2. wreq[w] \notin refused
    BY <2>1, Zenon DEF IInv, Owned, RequestsAccounted, HeldByOne
  <2>3. Cardinality(refused') = Cardinality(refused) + 1
    BY <1>1, <2>1, <2>2, IdsFinite, FS_AddElement, Zenon
  <2>4. /\ stats'["requests"] = stats["requests"]
        /\ stats'["invalidFormat"] = stats["invalidFormat"] + 1
    BY <1>1, <2>1, CounterNames, Zenon
  <2>5. export # <<>> => export[1] \in Nat
    BY <1>1
  <2>6. stats["invalidFormat"] \in Nat
    BY <1>1, CounterNames, Zenon
  <2>7. received' = received
    BY <2>1, NumberedFrame, Zenon
  <2>8. QED
    BY <2>1, <2>3, <2>4, <2>5, <2>6, <2>7 DEF IInv, Exported
<1>9. CASE HandleRequest
  <2>1. export' = <<stats["invalidFormat"]>> /\ UNCHANGED <<stats, settings, refused>>
    BY <1>9, CounterNames, Zenon DEF HandleRequest
  <2>2. stats["invalidFormat"] \in Nat
    BY <1>1, CounterNames, Zenon
  <2>3. QED
    BY <2>1, <2>2, NumberedFrame DEF IInv, Exported
<1>10. CASE ToMap
  BY <1>10, NumberedFrame, Zenon DEF ToMap, IInv, Exported
<1>11. CASE \/ Launch \/ SeeCancelled \/ RunChecker \/ Stop(TRUE) \/ Stop(FALSE) \/ Exit
            \/ \E i \in IPs : DeleteIP(i)
  BY <1>3, <1>11, Zenon DEF Launch, SeeCancelled, RunChecker, Stop, Exit, DeleteIP
<1>12. ASSUME NEW i \in IPs, AddIP(i) \/ Bind(i) \/ SendTask(i) \/ BindFails(i)
       PROVE  Exported'
  BY <1>3, <1>12, Zenon DEF AddIP, Bind, SendTask, BindFails
<1>13. ASSUME NEW w \in Workers, TakeTask(w) \/ Respond(w)
       PROVE  Exported'
  BY <1>3, <1>13, Zenon DEF TakeTask, Respond
<1>14. QED
  BY <1>4, <1>5, <1>6, <1>7, <1>8, <1>9, <1>10, <1>11, <1>12, <1>13, Zenon
     DEF Next, Listener, Worker

\* The responses a worker makes are packets.
LEMMA ResponseType ==
  ASSUME IInv, NEW w \in Workers, wpc[w] = "serve"
  PROVE  /\ wreq[w] \in Ids
         /\ generateResponse(response[w], wreq[w]) \in Packets
<1>1. wreq[w] \in Ids
  BY DEF IInv, TypeOK, Owned
<1>2. ((settings[wreq[w]] \div 8) % 8) * 8 + 4 \in 0 .. 255
  BY <1>1, ResponseSettings, Zenon DEF IInv, TypeOK
<1>3. response[w] \in Packets
  BY Zenon DEF IInv, TypeOK
<1>4. QED
  BY <1>1, <1>2, <1>3, Zenon DEF generateResponse, Packets

\* Counters stay natural numbers when one of them is incremented.
LEMMA IncType ==
  ASSUME stats \in [Counters -> Nat], NEW c \in Counters, Inc(c)
  PROVE  stats' \in [Counters -> Nat]
<1>1. stats[c] + 1 \in Nat
  OBVIOUS
<1>2. QED
  BY <1>1, Zenon DEF Inc

\* The type invariant, given that the counters count.
LEMMA TypeStep ==
  ASSUME IInv, Next, Counted'
  PROVE  TypeOK'
<1> USE DEF procVars, histVars, checkVars, stopVars
<1>1. /\ realListeners' \in 0 .. Cardinality(IPs)
      /\ realWorkers' \in 0 .. Cardinality(Workers)
  <2>1. Listening' \in SUBSET IPs /\ Working' \in SUBSET Workers
    BY Zenon DEF Listening, Working
  <2>2. QED
    BY <2>1, CountRange, Zenon DEF Counted
<1>2. Cardinality(Workers) \in Nat
  BY FS_CardinalityType, ResponderAssumption, Zenon
<1>3. CASE Launch
  BY <1>1, <1>3, Zenon DEF Launch, IInv, TypeOK
<1>4. CASE AnnounceTimer
  <2>1. stats' \in [Counters -> Nat]
    BY <1>4, CounterNames DEF AnnounceTimer, IInv, TypeOK
  <2>2. late' \in BOOLEAN /\ advertised' \in BOOLEAN
    BY <1>4, Zenon DEF AnnounceTimer, IInv, TypeOK
  <2>3. QED
    BY <1>1, <1>4, <2>1, <2>2, Zenon DEF AnnounceTimer, AfterTimer, IInv, TypeOK
<1>5. CASE SeeCancelled
  BY <1>1, <1>5, Zenon DEF SeeCancelled, IInv, TypeOK
<1>6. ASSUME NEW i \in IPs, CheckIP(i)
      PROVE  TypeOK'
  <2>1. stats' \in [Counters -> Nat]
    BY <1>6, IncType, CounterNames, Zenon DEF CheckIP, IInv, TypeOK
  <2>2. QED
    BY <1>1, <1>6, <2>1, Zenon DEF CheckIP, Listens, IInv, TypeOK
<1>7. ASSUME NEW i \in IPs, AddIP(i)
      PROVE  TypeOK'
  BY <1>1, <1>7, Zenon DEF AddIP, addIfaceIP, Listens, IInv, TypeOK
<1>8. ASSUME NEW i \in IPs, Bind(i)
      PROVE  TypeOK'
  BY <1>1, <1>8, ZenonT(30) DEF Bind, Listens, IInv, TypeOK
<1>9. ASSUME NEW i \in IPs, SendTask(i)
      PROVE  TypeOK'
  BY <1>1, <1>2, <1>9 DEF SendTask, HasRoom, Listens, IInv, TypeOK, Owned
<1>10. ASSUME NEW i \in IPs, BindFails(i)
       PROVE  TypeOK'
  BY <1>1, <1>10, Zenon DEF BindFails, Listens, IInv, TypeOK
<1>11. ASSUME NEW i \in IPs, ReadError(i)
       PROVE  TypeOK'
  <2>1. stats' \in [Counters -> Nat]
    BY <1>11, IncType, CounterNames, Zenon DEF ReadError, IInv, TypeOK
  <2>2. QED
    BY <1>1, <1>11, <2>1, Zenon DEF ReadError, Listens, IInv, TypeOK
<1>12. ASSUME NEW i \in IPs, NEW s \in Settings, ReadPacket(i, s)
       PROVE  TypeOK'
  <2>1. stats' \in [Counters -> Nat]
    BY <1>12, IncType, CounterNames, Zenon DEF ReadPacket, IInv, TypeOK
  <2>2. Cardinality(received) \in Nat /\ stats["readError"] \in Nat /\ MaxRequests \in Nat
    BY CounterNames, ResponderAssumption DEF IInv, TypeOK, Numbered
  <2> DEFINE q == Cardinality(received) + 1
  <2>3. q \in Ids /\ s \in 0 .. 256
    BY <1>12, <2>2, ResponderAssumption DEF ReadPacket, Arrivals, Ids
  <2>4. /\ lreq' = [lreq EXCEPT ![i] = q] /\ settings' = [settings EXCEPT ![q] = s]
        /\ lpc' = [lpc EXCEPT ![i] = "send"]
        /\ UNCHANGED <<up, spc, wpc, wreq, response, tasks, checkVars, ctxDone, stopVars,
                       iface, advertised, export, answers, refused, late>>
    BY <1>12, Zenon DEF ReadPacket, Listens
  <2>5. lreq' \in [IPs -> Ids \cup {None}] /\ settings' \in [Ids -> 0 .. 256]
    BY <2>3, <2>4, Zenon DEF IInv, TypeOK
  <2> HIDE DEF q
  <2>6. QED
    BY <1>1, <2>1, <2>4, <2>5, ZenonT(30) DEF IInv, TypeOK
<1>13. ASSUME NEW w \in Workers, StartWorker(w)
       PROVE  TypeOK'
  <2>1. stats' \in [Counters -> Nat]
    BY <1>13, IncType, CounterNames, Zenon DEF StartWorker, IInv, TypeOK
  <2>2. [response[w] EXCEPT !.static = TRUE] \in Packets
    <3>1. response[w] \in Packets
      BY Zenon DEF IInv, TypeOK
    <3>2. QED
      BY <3>1, Zenon DEF Packets
  <2>3. response' \in [Workers -> Packets]
    BY <1>13, <2>2, Zenon DEF StartWorker, IInv, TypeOK
  <2>4. QED
    BY <1>1, <1>13, <2>1, <2>3, Zenon DEF StartWorker, Works, IInv, TypeOK
<1>14. ASSUME NEW w \in Workers, TakeTask(w)
       PROVE  TypeOK'
  <2>1. /\ Head(tasks) \in Ids /\ Tail(tasks) \in Seq(Ids)
        /\ Len(Tail(tasks)) <= Cardinality(Workers)
    BY <1>2, <1>14 DEF TakeTask, IInv, TypeOK
  <2>2. QED
    BY <1>1, <1>14, <2>1, Zenon DEF TakeTask, Works, IInv, TypeOK
<1>15. ASSUME NEW w \in Workers, Respond(w)
       PROVE  TypeOK'
  <2> DEFINE r == generateResponse(response[w], wreq[w])
  <2>1. wreq[w] \in Ids /\ r \in Packets
    BY <1>15, ResponseType, Zenon DEF Respond, Works
  <2>2. /\ response' = [response EXCEPT ![w] = r]
        /\ answers' = answers \cup {[to |-> wreq[w], packet |-> r]}
    BY <1>15, Zenon DEF Respond
  <2> HIDE DEF r
  <2>3. response' \in [Workers -> Packets] /\ answers' \in SUBSET [to : Ids, packet : Packets]
    BY <2>1, <2>2 DEF IInv, TypeOK
  <2>4. QED
    BY <1>1, <1>15, <2>3, Zenon DEF Respond, Works, IInv, TypeOK
<1>16. ASSUME NEW w \in Workers, CountResponse(w)
       PROVE  TypeOK'
  <2>1. stats' \in [Counters -> Nat]
    BY <1>16, IncType, CounterNames, Zenon DEF CountResponse, IInv, TypeOK
  <2>2. QED
    BY <1>1, <1>16, <2>1, Zenon DEF CountResponse, Works, IInv, TypeOK
<1>17. ASSUME NEW w \in Workers, Refuse(w)
       PROVE  TypeOK'
  <2>1. stats' \in [Counters -> Nat]
    BY <1>17, IncType, CounterNames, Zenon DEF Refuse, IInv, TypeOK
  <2>2. wreq[w] \in Ids
    BY <1>17, ZenonT(30) DEF Refuse, Works, IInv, TypeOK, Owned
  <2>3. QED
    BY <1>1, <1>17, <2>1, <2>2, ZenonT(30) DEF Refuse, Works, IInv, TypeOK
<1>18. CASE RunChecker \/ HandleRequest \/ ToMap
  <2>1. stats[Keys[1]] \in Nat
    BY CounterNames, Zenon DEF IInv, TypeOK
  <2>2. export' \in Seq(Nat)
    <3>1. <<stats[Keys[1]]>> \in Seq(Nat) /\ <<>> \in Seq(Nat)
      BY <2>1
    <3>2. \/ export' = <<stats[Keys[1]]>> \/ export' = <<>> \/ export' = export
      BY <1>18, Zenon DEF RunChecker, HandleRequest, ToMap
    <3>3. QED
      BY <3>1, <3>2, Zenon DEF IInv, TypeOK
  <2>3. ctxDone' \in BOOLEAN
    BY <1>18, Zenon DEF RunChecker, HandleRequest, ToMap, IInv, TypeOK
  <2>4. UNCHANGED <<up, spc, procVars, checkVars, stopVars, iface, advertised, stats,
                    histVars, late>>
    BY <1>18, Zenon DEF RunChecker, HandleRequest, ToMap
  <2>5. QED
    BY <1>1, <2>2, <2>3, <2>4, Zenon DEF IInv, TypeOK
<1>19. ASSUME NEW b \in BOOLEAN, Stop(b)
       PROVE  TypeOK'
  BY <1>1, <1>19, Zenon DEF Stop, IInv, TypeOK
<1>20. ASSUME NEW i \in IPs, DeleteIP(i)
       PROVE  TypeOK'
  BY <1>1, <1>20, Zenon DEF DeleteIP, deleteIfaceIP, IInv, TypeOK
<1>21. CASE Exit
  BY <1>1, <1>21, Zenon DEF Exit, IInv, TypeOK
<1>22. QED
  BY <1>3, <1>4, <1>5, <1>6, <1>7, <1>8, <1>9, <1>10, <1>11, <1>12, <1>13, <1>14, <1>15,
     <1>16, <1>17, <1>18, <1>19, <1>20, <1>21, ZenonT(30) DEF Next, Listener, Worker

\* The invariant is inductive.
LEMMA NextIInv == IInv /\ [Next]_vars => IInv'
<1> SUFFICES ASSUME IInv, [Next]_vars
             PROVE  IInv'
  BY Zenon
<1>1. CASE Next
  <2>1. Counted'
    BY <1>1, CountedStep, Zenon
  <2>2. QED
    BY <1>1, <2>1, TypeStep, RequestsStep, StartedStep, UndoneStep, AnswersStep,
       ExportedStep, Zenon DEF IInv, Requests
<1>2. CASE UNCHANGED vars
  <2>1. UNCHANGED <<up, spc, lpc, lreq, wpc, wreq, response, tasks, realListeners, realWorkers,
                    ctxDone, stoppc, toDelete, iface, advertised, stats, export, settings,
                    answers, refused, late>>
    BY <1>2, Zenon DEF vars, procVars, checkVars, stopVars, histVars
  <2>2. TypeOK' /\ Started' /\ Undone'
    BY <2>1 DEF IInv, TypeOK, Started, Undone
  <2>3. received' = received /\ answered' = answered /\ Elems(tasks)' = Elems(tasks)
    BY <2>1, Zenon DEF received, answered, Elems
  <2>4. Listening' = Listening /\ Working' = Working /\ Queued' = Queued
    BY <2>1, Zenon DEF Listening, Working, Queued
  <2>5. Counted' /\ Prepared' /\ Exported'
    BY <2>1, <2>3, <2>4, Zenon DEF IInv, Counted, Prepared, Exported
  <2>6. Requests'
    BY <2>1, RequestsFrame, Zenon
  <2>7. AnswerOfItsRequest'
    BY <2>1, Zenon DEF IInv, AnswerOfItsRequest, ValidSettingsFormat
  <2>8. QED
    BY <2>2, <2>5, <2>6, <2>7, Zenon DEF IInv, Requests
<1>3. QED
  BY <1>1, <1>2, Zenon

-----------------------------------------------------------------------------
(* The results                                                             *)
-----------------------------------------------------------------------------
\* The inductive invariant holds throughout, for any number of addresses,
\* workers and requests.
THEOREM Invariance == Spec => []IInv
  BY InitIInv, NextIInv, PTL DEF Spec

\* Every variable keeps its type; in particular the tasks channel never holds
\* more than Server.Workers requests.
THEOREM TypeCorrect == Spec => []TypeOK
  BY Invariance, PTL DEF IInv

\* No request that a listener has read is lost or served twice, for any number
\* of listeners and workers racing for the channel.
THEOREM NoRequestLost == Spec => []RequestsAccounted
  BY Invariance, PTL DEF IInv

\* Whatever requests a worker has served before with its one response packet,
\* each answer is made of the request it answers, and of nothing else.
THEOREM AnswersAreOwn == Spec => []AnswerOfItsRequest
  BY Invariance, PTL DEF IInv

\* After a Stop in which no undoing call failed or was overtaken, main returns
\* with no address on the interface and nothing advertised.
THEOREM GoneAfterStop == Spec => []GoneUnlessLate
<1>1. IInv => GoneUnlessLate
  BY Zenon DEF IInv, Undone, GoneUnlessLate, TypeOK
<1>2. QED
  BY <1>1, Invariance, PTL

\* The map that an HTTP request gets never shows more invalid packets than
\* packets, whatever the goroutines do between two copies of toMap.
THEOREM ExportOrdered == Spec => []ExportConsistent
<1>1. IInv => ExportConsistent
  <2> SUFFICES ASSUME IInv, export # <<>>
               PROVE  MapNow["invalidFormat"] <= MapNow["requests"]
    BY Zenon DEF ExportConsistent
  <2>1. MapNow["invalidFormat"] = export[1] /\ MapNow["requests"] = stats["requests"]
    BY CounterNames, Zenon DEF MapNow
  <2>2. Cardinality(refused) <= Cardinality(received)
    <3>1. refused \in SUBSET Ids /\ received \in SUBSET Ids /\ refused \subseteq received
      BY ReceivedIds, Zenon DEF IInv, TypeOK, Owned
    <3>2. QED
      BY <3>1, IdsFinite, Zenon
  <2>3. export[1] \in Nat /\ Cardinality(refused) \in Nat /\ Cardinality(received) \in Nat
    BY IdsFinite, ReceivedIds DEF IInv, TypeOK
  <2>4. QED
    BY <2>1, <2>2, <2>3 DEF IInv, Exported
<1>2. QED
  BY <1>1, Invariance, PTL

\* The checker cancels the context only while a listener has not bound its
\* socket or a worker has not started: once all are there, it never does.
THEOREM CancelsOnlyWhileStarting == Spec => CancelledOnlyWhileStarting
<1> DEFINE P == \/ \E i \in IPs : lpc[i] \notin {"read", "send"}
                \/ \E w \in Workers : wpc[w] = "start"
<1>1. IInv /\ [Next]_vars => [ctxDone' # ctxDone => P]_vars
  <2> SUFFICES ASSUME IInv, Next, ctxDone' # ctxDone, ~P
               PROVE  FALSE
    BY Zenon
  <2>1. RunChecker
    BY Zenon DEF Next, Launch, AnnounceTimer, SeeCancelled, Listener, CheckIP, AddIP, Bind,
       SendTask, BindFails, ReadError, ReadPacket, Worker, StartWorker, TakeTask, Respond,
       CountResponse, Refuse, HandleRequest, ToMap, Stop, DeleteIP, Exit
  <2>2. \A w \in Workers : wpc[w] # "none"
    BY <2>1, Zenon DEF RunChecker, IInv, Started
  <2>3. Listening = IPs /\ Working = Workers
    BY <2>2, Zenon DEF Listening, Working
  <2>4. Check
    BY <2>3, Zenon DEF Check, IInv, Counted
  <2>5. QED
    BY <2>1, <2>4, Zenon DEF RunChecker
<1>2. QED
  BY <1>1, Invariance, PTL DEF Spec, CancelledOnlyWhileStarting

=============================================================================
