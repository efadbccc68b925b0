---------------------------- MODULE EngineProofs ----------------------------
(***************************************************************************)
(* Theorems about Engine for every set of manifests and findings, every    *)
(* channel capacity and any number of events; and, at the end, about what  *)
(* the editor is told of it (Publishing).                                  *)
(***************************************************************************)
EXTENDS Publishing, TLAPS

\* The empty view is a view, and nothing in flight is an in-flight value.
LEMMA NothingTyped == Nothing \in View /\ NoScan \in InFlight
BY DEF Nothing, View, NoScan, InFlight

\* Appending a message to a channel with a free slot keeps it a channel.
LEMMA SendTyped ==
    ASSUME NEW q \in Seq(Message), NEW m \in Message, Len(q) <= Capacity,
           Len(q) # Capacity
    PROVE  Append(q, m) \in Seq(Message) /\ Len(Append(q, m)) <= Capacity
BY EngineAssumption

\* The messages of each kind are messages.
LEMMA MessagesTyped ==
    Request \in Message /\ \A f \in Files : Clear(f) \in Message /\ Query(f) \in Message
BY DEF Request, Clear, Query, Message

\* Taking the head off a non-empty channel keeps it a channel.
LEMMA ReceiveTyped ==
    ASSUME NEW q \in Seq(Message), Len(q) <= Capacity, q # <<>>
    PROVE  Tail(q) \in Seq(Message) /\ Len(Tail(q)) <= Capacity /\ Head(q) \in Message
BY EngineAssumption

\* Every variable of the engine keeps its type, so in particular the channel
\* never holds more than its capacity, whoever sends to it in whatever order.
THEOREM TypeCorrect == Spec => []TypeOK
<1>1. ASSUME Init PROVE TypeOK
  <2>1. queue \in Seq(Message) /\ Len(queue) <= Capacity
    BY <1>1, EngineAssumption DEF Init
  <2>2. asking \in [Files -> {"idle", "waiting", "queued"}]
    BY <1>1 DEF Init
  <2>3. tree \in View /\ report \in View /\ client \in View /\ in_flight \in InFlight
    BY <1>1, NothingTyped DEF Init
  <2>4. QED
    BY <1>1, <2>1, <2>2, <2>3 DEF Init, TypeOK
<1>2. ASSUME TypeOK, [Next]_vars PROVE TypeOK'
  <2> USE <1>2 DEF TypeOK
  <2>1. ASSUME NEW f \in Files, NEW v \in Findings \cup {NoFindings}, Edit(f, v)
        PROVE  TypeOK'
    BY <2>1 DEF Edit, View, actorVars, ghostVars
  <2>2. ASSUME NEW D \in SUBSET owed, DidChangeWatchedFiles(D) PROVE TypeOK'
    BY <2>2 DEF DidChangeWatchedFiles, actorVars, ghostVars
  <2>3. ASSUME NEW f \in Files, SendClear(f) PROVE TypeOK'
    BY <2>3, MessagesTyped, SendTyped DEF SendClear, Full, actorVars, ghostVars
  <2>4. ASSUME TryRequest PROVE queue' \in Seq(Message) /\ Len(queue') <= Capacity
                                /\ lost' \in BOOLEAN
    BY <2>4, MessagesTyped, SendTyped DEF TryRequest, Full
  <2>5. CASE SendRequest
    BY <2>4, <2>5 DEF SendRequest, actorVars, ghostVars
  <2>6. CASE Ask
    BY <2>4, <2>6 DEF Ask, lspVars, actorVars, ghostVars
  <2>7. ASSUME NEW f \in Files, Find(f) PROVE TypeOK'
    BY <2>7, MessagesTyped, SendTyped DEF Find, Full, lspVars, actorVars, ghostVars
  <2>8. ASSUME NEW f \in Files, SlotFreed(f) PROVE TypeOK'
    BY <2>8, MessagesTyped, SendTyped DEF SlotFreed, lspVars, actorVars, ghostVars
  <2>9. CASE DropHandle
    BY <2>9 DEF DropHandle, lspVars, actorVars, ghostVars
  <2>10. ASSUME NEW t, Received(t)
         PROVE  queue' \in Seq(Message) /\ Len(queue') <= Capacity
                /\ Head(queue) \in Message /\ Head(queue).type = t
    BY <2>10, ReceiveTyped DEF Received
  <2>11. Orphaned \subseteq Nat
    BY DEF Orphaned, InFlight
  <2>12. CASE HandleRequest
    BY <2>10, <2>11, <2>12, NothingTyped DEF HandleRequest, lspVars
  <2>13. CASE HandleClear
    <3>1. Head(queue).file \in Files
      BY <2>10, <2>13 DEF HandleClear, Message
    <3>2. QED
      BY <2>10, <2>13, <3>1 DEF HandleClear, View, lspVars, ghostVars
  <2>14. CASE HandleQuery
    <3>1. Head(queue).file \in Files
      BY <2>10, <2>14 DEF HandleQuery, Message
    <3>2. QED
      BY <2>10, <2>14, <3>1 DEF HandleQuery, lspVars, actorVars, ghostVars
  <2>15. CASE DebounceElapsed
    BY <2>15, NothingTyped DEF DebounceElapsed, InFlight, lspVars, ghostVars
  <2>16. ASSUME NEW o \in Outcome, ScanFinished(o) PROVE TypeOK'
    <3>1. in_flight' \in InFlight /\ settled' \in Nat
      BY <2>16, NothingTyped DEF ScanFinished, InFlight
    <3>2. CASE ScanSucceeded(o)
      <4>1. o.missing \subseteq Ecosystems
        BY DEF Outcome
      <4>2. client' \in View /\ report' \in View /\ published' \subseteq Files
        BY <3>2 DEF ScanSucceeded, Publish, InFlight, View
      <4>3. shown' \in Nat
        BY <3>2 DEF ScanSucceeded, InFlight
      <4>4. announced' \in BOOLEAN /\ announced_partial' \in BOOLEAN
            /\ pending' \in BOOLEAN
        BY <3>2 DEF ScanSucceeded
      <4>5. told' \subseteq Ecosystems /\ missing' \subseteq Ecosystems
        BY <3>2, <4>1 DEF ScanSucceeded
      <4>6. apiNotices' \in Nat /\ streakNotices' \in Nat /\ lastOutcome' = "ok"
        BY <3>2 DEF ScanSucceeded
      <4>7. QED
        BY <2>16, <3>1, <4>2, <4>3, <4>4, <4>5, <4>6 DEF ScanFinished, lspVars
    <3>3. CASE ScanFailed(o)
      BY <2>16, <3>1, <3>3 DEF ScanFinished, ScanFailed, lspVars
    <3>4. CASE ScanPanicked(o)
      BY <2>16, <3>1, <3>4 DEF ScanFinished, ScanPanicked, lspVars
    <3>5. QED
      BY <2>16, <3>2, <3>3, <3>4 DEF ScanFinished
  <2>17. CASE ActorStops
    BY <2>11, <2>17, NothingTyped DEF ActorStops, lspVars, ghostVars
  <2>18. CASE ScanStarts
    BY <2>18 DEF ScanStarts, InFlight, lspVars, ghostVars
  <2>19. ASSUME NEW f \in Files, ReadManifest(f) PROVE TypeOK'
    BY <2>19 DEF ReadManifest, InFlight, View, lspVars, ghostVars
  <2>20. ASSUME NEW id \in orphans, OrphanEnds(id) PROVE TypeOK'
    BY <2>20 DEF OrphanEnds, lspVars, ghostVars
  <2>21. CASE UNCHANGED vars
    BY <2>21 DEF vars, lspVars, actorVars, ghostVars
  <2>22. QED
    BY <2>1, <2>2, <2>3, <2>5, <2>6, <2>7, <2>8, <2>9, <2>12, <2>13, <2>14,
       <2>15, <2>16, <2>17, <2>18, <2>19, <2>20, <2>21 DEF Next, Silent
<1>3. QED
  BY <1>1, <1>2, PTL DEF Spec

-----------------------------------------------------------------------------
\* How far the scan that reported last, the one that ended last and the
\* requests are apart: a scan that can still report was asked for by a request
\* no earlier scan answered.
Order == /\ shown <= settled
         /\ settled <= taken
         /\ deadline \/ in_flight # NoScan => settled < taken

\* What superseding needs to be inductive: Order, and the absence of a scan
\* being one value only.
SupersedeInv == /\ Superseded
                /\ Order
                /\ in_flight.state = "none" <=> in_flight = NoScan

LEMMA SupersedeInit == Init => SupersedeInv
BY DEF Init, SupersedeInv, Superseded, Order, NoScan

LEMMA SupersedeStep == TypeOK /\ SupersedeInv /\ [Next]_vars => SupersedeInv'
<1> SUFFICES ASSUME TypeOK, SupersedeInv, [Next]_vars PROVE SupersedeInv'
  OBVIOUS
<1> USE DEF SupersedeInv, Superseded, Order, TypeOK
<1>1. ASSUME UNCHANGED <<deadline, in_flight, taken, settled, shown>>
      PROVE  SupersedeInv'
  BY <1>1
<1>2. CASE HandleRequest
  BY <1>2 DEF HandleRequest, NoScan
<1>3. CASE DebounceElapsed
  BY <1>3 DEF DebounceElapsed, NoScan, ghostVars
<1>4. ASSUME NEW o \in Outcome, ScanFinished(o) PROVE SupersedeInv'
  <2>1. in_flight # NoScan /\ ~deadline /\ in_flight.id = taken /\ settled < taken
    BY <1>4 DEF ScanFinished, NoScan
  <2>2. shown' \in {shown, in_flight.id}
    BY <1>4 DEF ScanFinished, ScanSucceeded, ScanFailed, ScanPanicked
  <2>3. QED
    BY <1>4, <2>1, <2>2 DEF ScanFinished, NoScan
<1>5. CASE ActorStops
  BY <1>5 DEF ActorStops, NoScan, ghostVars
<1>6. CASE ScanStarts
  BY <1>6 DEF ScanStarts, NoScan, InFlight, ghostVars
<1>7. ASSUME NEW f \in Files, ReadManifest(f) PROVE SupersedeInv'
  BY <1>7 DEF ReadManifest, NoScan, InFlight, ghostVars
<1>8. QED
  BY <1>1, <1>2, <1>3, <1>4, <1>5, <1>6, <1>7
  DEF Next, Silent, Edit, DidChangeWatchedFiles, SendClear, SendRequest, Ask, Find,
      SlotFreed, DropHandle, HandleClear, HandleQuery, OrphanEnds, vars,
      actorVars, ghostVars

\* While the debounce is armed nothing is in flight, and a scan in flight is
\* the one the last request asked for.
THEOREM SupersededHolds == Spec => []Superseded
<1>1. SupersedeInv => Superseded
  BY DEF SupersedeInv
<1>2. QED
  BY <1>1, SupersedeInit, SupersedeStep, TypeCorrect, PTL DEF Spec

-----------------------------------------------------------------------------
LEMMA ClientAgreesStep == TypeOK /\ ClientAgrees /\ [Next]_vars => ClientAgrees'
<1> SUFFICES ASSUME TypeOK, ClientAgrees, [Next]_vars PROVE ClientAgrees'
  OBVIOUS
<1> USE DEF ClientAgrees, TypeOK
<1>1. ASSUME UNCHANGED <<client, report, published>> PROVE ClientAgrees'
  BY <1>1
<1>2. CASE HandleClear
  <2>1. Head(queue).file \in Files
    BY <1>2, ReceiveTyped DEF HandleClear, Received, Message
  <2>2. client' = report'
    BY <1>2, <2>1 DEF HandleClear, View
  <2>3. published' = {f \in Files : client'[f] # NoFindings}
    BY <1>2, <2>1, <2>2 DEF HandleClear, View
  <2>4. QED
    BY <2>2, <2>3
<1>3. ASSUME NEW o \in Outcome, ScanFinished(o) PROVE ClientAgrees'
  <2>1. CASE ScanSucceeded(o)
    <3>1. Publish(in_flight.found) /\ in_flight.found \in View
      BY <2>1 DEF ScanSucceeded, InFlight
    <3>2. published' = {f \in Files : in_flight.found[f] # NoFindings}
          /\ report' = in_flight.found
      BY <3>1 DEF Publish
    <3>3. client' = [f \in Files |-> in_flight.found[f]]
      BY <3>1 DEF Publish, View
    <3>4. client' = in_flight.found
      BY <3>1, <3>3 DEF View
    <3>5. QED
      BY <3>2, <3>4
  <2>2. CASE ScanFailed(o) \/ ScanPanicked(o)
    BY <2>2, <1>1 DEF ScanFailed, ScanPanicked
  <2>3. QED
    BY <1>3, <2>1, <2>2 DEF ScanFinished
<1>4. QED
  BY <1>1, <1>2, <1>3
  DEF Next, Silent, Edit, DidChangeWatchedFiles, SendClear, SendRequest, Ask, Find,
      SlotFreed, DropHandle, HandleRequest, HandleQuery, DebounceElapsed,
      ActorStops, ScanStarts, ReadManifest, OrphanEnds, vars, actorVars, ghostVars

\* The publisher was told exactly what the actor knows, and the actor knows
\* exactly which files it has to clear later.
THEOREM ClientAgreesHolds == Spec => []ClientAgrees
<1>1. Init => ClientAgrees
  BY DEF Init, ClientAgrees, Nothing
<1>2. QED
  BY <1>1, ClientAgreesStep, TypeCorrect, PTL DEF Spec

-----------------------------------------------------------------------------
LEMMA BoardStep ==
    TypeOK /\ SupersedeInv /\ ClientAgrees /\ [Next]_vars => [B!Next]_(B!vars)
<1> SUFFICES ASSUME TypeOK, SupersedeInv, ClientAgrees, [Next]_vars
             PROVE  [B!Next]_(B!vars)
  OBVIOUS
<1> USE DEF TypeOK, SupersedeInv, B!vars
<1>1. ASSUME UNCHANGED <<client, shown>> PROVE [B!Next]_(B!vars)
  BY <1>1
<1>2. CASE HandleClear
  <2>1. PICK f \in Files : f = Head(queue).file
    BY <1>2, ReceiveTyped DEF HandleClear, Received, Message
  <2>2. CASE f \in published
    <3>1. B!Withdraw(f)
      BY <1>2, <2>1, <2>2 DEF HandleClear, B!Withdraw, ghostVars
    <3>2. QED
      BY <3>1 DEF B!Next
  <2>3. CASE f \notin published
    BY <1>1, <1>2, <2>1, <2>3 DEF HandleClear, ghostVars
  <2>4. QED
    BY <2>2, <2>3
<1>3. ASSUME NEW o \in Outcome, ScanFinished(o) PROVE [B!Next]_(B!vars)
  <2>1. CASE ScanSucceeded(o)
    <3>1. in_flight # NoScan
      BY <1>3 DEF ScanFinished, NoScan
    <3>2. shown' = taken /\ shown < taken
      BY <2>1, <3>1 DEF ScanSucceeded, Superseded, Order
    <3>3. client' \in [Files -> Findings \cup {NoFindings}]
      BY <2>1 DEF ScanSucceeded, Publish, InFlight, View
    <3>4. B!Replace
      BY <3>2, <3>3 DEF B!Replace
    <3>5. QED
      BY <3>4 DEF B!Next
  <2>2. CASE ScanFailed(o) \/ ScanPanicked(o)
    BY <2>2, <1>1 DEF ScanFailed, ScanPanicked
  <2>3. QED
    BY <1>3, <2>1, <2>2 DEF ScanFinished
<1>4. QED
  BY <1>1, <1>2, <1>3
  DEF Next, Silent, Edit, DidChangeWatchedFiles, SendClear, SendRequest, Ask, Find,
      SlotFreed, DropHandle, HandleRequest, HandleQuery, DebounceElapsed,
      ActorStops, ScanStarts, ReadManifest, OrphanEnds, vars, actorVars, ghostVars

\* The engine implements Board: results are never applied out of order.
THEOREM EngineImplementsBoard == Spec => ImplementsBoard
<1>1. Init => B!Init
  BY DEF Init, B!Init, Nothing
<1>2. Spec => [](TypeOK /\ SupersedeInv /\ ClientAgrees)
  BY SupersedeInit, SupersedeStep, TypeCorrect, ClientAgreesHolds, PTL DEF Spec
<1>3. QED
  BY <1>1, <1>2, BoardStep, PTL DEF Spec, ImplementsBoard, B!Spec

-----------------------------------------------------------------------------
\* A Clear is still queued.
HasClear(q) == \E i \in 1..Len(q) : q[i].type = "clear"

\* What sending and receiving do to Covered and HasClear.
LEMMA CoveredAppend ==
    ASSUME NEW q \in Seq(Message), NEW m \in Message
    PROVE  /\ m = Request => Covered(Append(q, m))
           /\ m.type # "clear" /\ Covered(q) => Covered(Append(q, m))
           /\ m.type # "clear" /\ ~HasClear(q) => ~HasClear(Append(q, m))
<1> DEFINE p == Append(q, m)
<1>1. /\ Len(p) = Len(q) + 1 /\ Len(q) \in Nat
      /\ \A i \in 1..Len(q) : p[i] = q[i]
      /\ p[Len(q) + 1] = m
  OBVIOUS
<1>2. m = Request => Covered(p)
  <2>1. m = Request => m.type # "clear"
    BY DEF Request
  <2>2. QED
    BY <1>1, <2>1 DEF Covered
<1>3. ASSUME m.type # "clear", Covered(q) PROVE Covered(p)
  <2>1. PICK i \in 1..Len(q) : q[i] = Request /\ \A j \in i..Len(q) : q[j].type # "clear"
    BY <1>3 DEF Covered
  <2>2. i \in 1..Len(p) /\ p[i] = Request
    BY <1>1, <2>1
  <2>3. \A j \in i..Len(p) : p[j].type # "clear"
    BY <1>1, <1>3, <2>1
  <2>4. QED
    BY <2>2, <2>3 DEF Covered
<1>4. ASSUME m.type # "clear", ~HasClear(q) PROVE ~HasClear(p)
  BY <1>1, <1>4 DEF HasClear
<1>5. QED
  BY <1>2, <1>3, <1>4

LEMMA CoveredTail ==
    ASSUME NEW q \in Seq(Message), q # <<>>
    PROVE  /\ Head(q).type # "request" /\ Covered(q) => Covered(Tail(q))
           /\ HasClear(q) /\ Head(q).type # "clear" => HasClear(Tail(q))
           /\ HasClear(Tail(q)) => HasClear(q)
           /\ HasClear(Tail(q)) /\ Covered(q) => Covered(Tail(q))
           /\ Head(q).type = "clear" => HasClear(q)
<1> DEFINE p == Tail(q)
<1>1. /\ Len(q) \in Nat /\ Len(q) > 0 /\ Len(p) = Len(q) - 1 /\ Head(q) = q[1]
      /\ \A i \in 1..Len(p) : p[i] = q[i + 1]
  OBVIOUS
<1>2. ASSUME NEW i \in 1..Len(q), i # 1, q[i] = Request,
             \A j \in i..Len(q) : q[j].type # "clear"
      PROVE  Covered(p)
  <2>1. i - 1 \in 1..Len(p) /\ p[i - 1] = Request
    BY <1>1, <1>2
  <2>2. \A j \in (i - 1)..Len(p) : p[j].type # "clear"
    BY <1>1, <1>2
  <2>3. QED
    BY <2>1, <2>2 DEF Covered
<1>3. ASSUME Head(q).type # "request", Covered(q) PROVE Covered(p)
  <2>1. PICK i \in 1..Len(q) : q[i] = Request /\ \A j \in i..Len(q) : q[j].type # "clear"
    BY <1>3 DEF Covered
  <2>2. i # 1
    BY <1>1, <1>3, <2>1 DEF Request
  <2>3. QED
    BY <1>2, <2>1, <2>2
<1>4. ASSUME HasClear(p) PROVE \E j \in 1..Len(q) : j # 1 /\ q[j].type = "clear"
  BY <1>1, <1>4 DEF HasClear
<1>5. ASSUME HasClear(p), Covered(q) PROVE Covered(p)
  <2>1. PICK i \in 1..Len(q) : q[i] = Request /\ \A j \in i..Len(q) : q[j].type # "clear"
    BY <1>5 DEF Covered
  <2>2. PICK j \in 1..Len(q) : q[j].type = "clear"
    BY <1>4, <1>5
  <2>3. i # 1
    BY <1>1, <2>1, <2>2
  <2>4. QED
    BY <1>2, <2>1, <2>3
<1>6. ASSUME HasClear(q), Head(q).type # "clear" PROVE HasClear(p)
  <2>1. PICK j \in 1..Len(q) : q[j].type = "clear"
    BY <1>6 DEF HasClear
  <2>2. j # 1 /\ j - 1 \in 1..Len(p) /\ p[j - 1].type = "clear"
    BY <1>1, <1>6, <2>1
  <2>3. QED
    BY <2>2 DEF HasClear
<1>7. Head(q).type = "clear" => HasClear(q)
  BY <1>1 DEF HasClear
<1>8. QED
  BY <1>3, <1>4, <1>5, <1>6, <1>7 DEF HasClear

\* Somebody still owes f a scan, or a full queue swallowed the request for it.
Owing(f) == f \in owed \/ requestDue \/ Covered(queue) \/ deadline \/ lost

\* Why the diagnostics end up current: whatever differs from the workspace is
\* owed a scan, or is what the scan in flight has yet to read.
CurrentInv ==
    /\ deleting # {} => requestDue
    /\ HasClear(queue) => requestDue \/ Covered(queue) \/ lost
    /\ in_flight # NoScan =>
          \A f \in Files : \/ Owing(f)
                          \/ f \in in_flight.unread
                          \/ in_flight.found[f] = tree[f]
    /\ in_flight = NoScan /\ actor = "running" /\ lastOutcome = "ok" =>
          \A f \in Files : Owing(f) \/ client[f] = tree[f]

LEMMA CurrentInit == Init => CurrentInv
BY DEF Init, CurrentInv, HasClear

LEMMA CurrentStep ==
    TypeOK /\ SupersedeInv /\ ClientAgrees /\ CurrentInv /\ [Next]_vars
        => CurrentInv'
<1> SUFFICES ASSUME TypeOK, SupersedeInv, ClientAgrees, CurrentInv, [Next]_vars
             PROVE  CurrentInv'
  OBVIOUS
<1> USE DEF TypeOK, CurrentInv, Owing
<1>1. ASSUME NEW f \in Files, NEW v \in Findings \cup {NoFindings}, Edit(f, v)
      PROVE  CurrentInv'
  BY <1>1 DEF Edit, View, actorVars, ghostVars
<1>2. ASSUME NEW D \in SUBSET owed, DidChangeWatchedFiles(D) PROVE CurrentInv'
  BY <1>2 DEF DidChangeWatchedFiles, actorVars, ghostVars
<1>3. ASSUME NEW f \in Files, SendClear(f) PROVE CurrentInv'
  BY <1>3 DEF SendClear, actorVars, ghostVars
<1>4. ASSUME TryRequest
      PROVE  /\ Covered(queue') \/ lost'
             /\ lost => lost'
  BY <1>4, CoveredAppend, MessagesTyped DEF TryRequest
<1>5. CASE SendRequest
  BY <1>4, <1>5 DEF SendRequest, actorVars, ghostVars
<1>6. CASE Ask
  BY <1>4, <1>6 DEF Ask, lspVars, actorVars, ghostVars
<1>7. ASSUME NEW f \in Files, queue' = Append(queue, Query(f))
      PROVE  /\ Covered(queue) => Covered(queue')
             /\ HasClear(queue') => HasClear(queue)
  <2>1. Query(f) \in Message /\ Query(f).type # "clear"
    BY MessagesTyped DEF Query
  <2>2. QED
    BY <1>7, <2>1, CoveredAppend
<1>8. ASSUME NEW f \in Files, Find(f) PROVE CurrentInv'
  BY <1>7, <1>8 DEF Find, lspVars, actorVars, ghostVars
<1>9. ASSUME NEW f \in Files, SlotFreed(f) PROVE CurrentInv'
  BY <1>7, <1>9 DEF SlotFreed, lspVars, actorVars, ghostVars
<1>10. CASE DropHandle
  BY <1>10 DEF DropHandle, lspVars, actorVars, ghostVars
<1>11. CASE HandleRequest
  <2>1. HasClear(queue') => requestDue \/ Covered(queue') \/ lost
    BY <1>11, CoveredTail DEF HandleRequest, Received
  <2>2. deadline' /\ deleting' = deleting /\ requestDue' = requestDue /\ lost' = lost
    BY <1>11 DEF HandleRequest, lspVars
  <2>3. QED
    BY <2>1, <2>2
<1>12. CASE HandleClear
  <2>1. /\ HasClear(queue)
        /\ Covered(queue) => Covered(queue')
    BY <1>12, CoveredTail DEF HandleClear, Received
  <2>2. UNCHANGED <<deleting, requestDue, lost>>
    BY <1>12 DEF HandleClear, lspVars
  <2>3. requestDue' \/ Covered(queue') \/ lost'
    BY <2>1, <2>2
  <2>4. QED
    BY <2>2, <2>3
<1>13. CASE HandleQuery
  <2>1. /\ HasClear(queue') => HasClear(queue)
        /\ Covered(queue) => Covered(queue')
    BY <1>13, CoveredTail DEF HandleQuery, Received
  <2>2. QED
    BY <1>13, <2>1 DEF HandleQuery, lspVars, actorVars, ghostVars
<1>14. CASE DebounceElapsed
  BY <1>14 DEF DebounceElapsed, NoScan, lspVars, ghostVars
<1>15. ASSUME NEW o \in Outcome, ScanFinished(o) PROVE CurrentInv'
  <2>1. UNCHANGED <<tree, owed, deleting, requestDue, queue, deadline, lost>>
        /\ in_flight # NoScan /\ in_flight' = NoScan
    BY <1>15 DEF ScanFinished, lspVars, NoScan
  <2>2. CASE ScanSucceeded(o)
    <3>1. client' = [f \in Files |->
                       IF in_flight.found[f] # NoFindings THEN in_flight.found[f]
                       ELSE IF f \in published THEN NoFindings ELSE client[f]]
          /\ in_flight.unread = {}
      BY <2>2 DEF ScanSucceeded, Publish
    <3>2. \A f \in Files : client'[f] = in_flight.found[f]
      BY <3>1 DEF ClientAgrees
    <3>3. QED
      BY <2>1, <3>1, <3>2
  <2>3. CASE ScanFailed(o) \/ ScanPanicked(o)
    BY <2>1, <2>3 DEF ScanFailed, ScanPanicked
  <2>4. QED
    BY <1>15, <2>2, <2>3 DEF ScanFinished
<1>16. CASE ActorStops
  BY <1>16 DEF ActorStops, lspVars, ghostVars
<1>17. CASE ScanStarts
  BY <1>17 DEF ScanStarts, InFlight, NoScan, lspVars, ghostVars
<1>18. ASSUME NEW f \in Files, ReadManifest(f) PROVE CurrentInv'
  <2>1. in_flight # NoScan /\ in_flight' # NoScan
    <3>1. in_flight.state = "running" /\ in_flight'.state = "running"
      BY <1>18 DEF ReadManifest, InFlight
    <3>2. QED
      BY <3>1 DEF NoScan
  <2>2. ASSUME NEW g \in Files
        PROVE  g = f => in_flight'.found[g] = tree[g]
    BY <1>18 DEF ReadManifest, InFlight, View
  <2>3. ASSUME NEW g \in Files, g # f
        PROVE  /\ in_flight'.found[g] = in_flight.found[g]
               /\ g \in in_flight.unread => g \in in_flight'.unread
    BY <1>18, <2>3 DEF ReadManifest, InFlight, View
  <2>4. QED
    BY <1>18, <2>1, <2>2, <2>3 DEF ReadManifest, lspVars, ghostVars
<1>19. ASSUME NEW id \in orphans, OrphanEnds(id) PROVE CurrentInv'
  BY <1>19 DEF OrphanEnds, lspVars, ghostVars
<1>20. CASE UNCHANGED vars
  BY <1>20 DEF vars, lspVars, actorVars, ghostVars
<1>21. QED
  BY <1>1, <1>2, <1>3, <1>5, <1>6, <1>8, <1>9, <1>10, <1>11, <1>12, <1>13, <1>14,
     <1>15, <1>16, <1>17, <1>18, <1>19, <1>20 DEF Next, Silent

\* Once everything is quiet after a successful scan, the diagnostics shown are
\* those of the workspace, unless a request was lost to a full queue.
THEOREM QuietMeansCurrentHolds == Spec => []QuietMeansCurrent
<1>1. TypeOK /\ CurrentInv => QuietMeansCurrent
  <2> SUFFICES ASSUME TypeOK, CurrentInv, Quiet, ~lost, lastOutcome = "ok"
               PROVE  client = tree
    BY DEF QuietMeansCurrent
  <2>1. ~Covered(queue)
    <3>1. ASSUME NEW i \in 1..Len(queue) PROVE queue[i] # Request
      BY <3>1 DEF Quiet, Request
    <3>2. QED
      BY <3>1 DEF Covered
  <2>2. \A f \in Files : client[f] = tree[f]
    BY <2>1 DEF CurrentInv, Owing, Quiet
  <2>3. QED
    BY <2>2 DEF TypeOK, View
<1>2. Spec => [](TypeOK /\ SupersedeInv /\ ClientAgrees /\ CurrentInv)
  BY SupersedeInit, SupersedeStep, TypeCorrect, ClientAgreesHolds, CurrentInit,
     CurrentStep, PTL DEF Spec
<1>3. QED
  BY <1>1, <1>2, PTL
-----------------------------------------------------------------------------
\* The two latches of run() count the notices exactly.
LatchInv ==
    /\ apiNotices = IF announced THEN 1 ELSE 0
    /\ streakNotices = IF pending THEN 1 ELSE 0
    /\ lastOutcome = "failed" => pending
    /\ lastOutcome = "ok" => ~pending

\* One "not checked yet" notice per streak of failed scans and one osv.dev
\* notice per session.
THEOREM NoticesOnceHolds == Spec => []NoticesOnce
<1>1. Init => LatchInv
  BY DEF Init, LatchInv
<1>2. TypeOK /\ LatchInv /\ [Next]_vars => LatchInv'
  <2> SUFFICES ASSUME TypeOK, LatchInv, [Next]_vars PROVE LatchInv'
    OBVIOUS
  <2>1. ASSUME UNCHANGED <<announced, pending, apiNotices, streakNotices, lastOutcome>>
        PROVE  LatchInv'
    BY <2>1 DEF LatchInv
  <2>2. ASSUME NEW o \in Outcome, ScanFinished(o) PROVE LatchInv'
    <3>1. CASE ScanSucceeded(o)
      <4>1. /\ announced' = (announced \/ o.source = "api")
            /\ apiNotices' = IF o.source = "api" /\ ~announced
                             THEN apiNotices + 1 ELSE apiNotices
            /\ pending' = FALSE /\ streakNotices' = 0 /\ lastOutcome' = "ok"
        BY <3>1 DEF ScanSucceeded
      <4>2. apiNotices' = IF announced' THEN 1 ELSE 0
        <5>1. CASE announced
          <6>1. announced' = TRUE
            BY <4>1, <5>1
          <6>2. apiNotices' = 1
            BY <4>1, <5>1 DEF LatchInv
          <6>3. QED
            BY <6>1, <6>2
        <5>2. CASE ~announced /\ o.source = "api"
          <6>1. announced' = TRUE
            BY <4>1, <5>2
          <6>2. apiNotices' = 1
            BY <4>1, <5>2 DEF LatchInv
          <6>3. QED
            BY <6>1, <6>2
        <5>3. CASE ~announced /\ o.source # "api"
          <6>1. announced' = FALSE
            BY <4>1, <5>3
          <6>2. apiNotices' = 0
            BY <4>1, <5>3 DEF LatchInv
          <6>3. QED
            BY <6>1, <6>2
        <5>4. QED
          BY <5>1, <5>2, <5>3
      <4>3. QED
        BY <4>1, <4>2 DEF LatchInv
    <3>2. CASE ScanFailed(o)
      BY <3>2 DEF ScanFailed, LatchInv, TypeOK
    <3>3. CASE ScanPanicked(o)
      BY <3>3 DEF ScanPanicked, LatchInv
    <3>4. QED
      BY <2>2, <3>1, <3>2, <3>3 DEF ScanFinished
  <2>3. QED
    BY <2>1, <2>2
    DEF Next, Silent, Edit, DidChangeWatchedFiles, SendClear, SendRequest, Ask, Find,
        SlotFreed, DropHandle, HandleRequest, HandleClear, HandleQuery,
        DebounceElapsed, ActorStops, ScanStarts, ReadManifest, OrphanEnds, vars,
        actorVars, ghostVars
<1>3. LatchInv => NoticesOnce
  BY DEF LatchInv, NoticesOnce
<1>4. QED
  BY <1>1, <1>2, <1>3, TypeCorrect, PTL DEF Spec

-----------------------------------------------------------------------------
(* Publishing: what is on its way to the editor.                            *)

\* Every step of the engine under its publisher is a step of the engine, so
\* the engine's invariants hold there too.
LEMMA PublishingIsEngine ==
    /\ PubInit => Init
    /\ [PubNext]_allVars => [Next]_vars
<1>1. PubInit => Init
  BY DEF PubInit
<1>2. PublishesScan => \E o \in Outcome : ScanFinished(o)
  BY DEF PublishesScan
<1>3. PublishesClear => HandleClear
  BY DEF PublishesClear
<1>4. Replies => HandleQuery
  BY DEF Replies
<1>5. (\E f \in Files : \E i \in 1..Len(renders[f]) : Deliver(f, i)) => UNCHANGED vars
  BY DEF Deliver
<1>6. UNCHANGED allVars => UNCHANGED vars
  BY DEF allVars
<1>7. QED
  BY <1>1, <1>2, <1>3, <1>4, <1>5, <1>6 DEF PubNext, Next

\* The engine's invariants, under its publisher.
LEMMA EngineUnderPublishing == PubSpec => [](TypeOK /\ ClientAgrees)
<1>1. PubSpec => Spec
  BY PublishingIsEngine, PTL DEF PubSpec, Spec
<1>2. QED
  BY <1>1, TypeCorrect, ClientAgreesHolds, PTL

RendersTyped == /\ renders \in [Files -> Seq(Findings \cup {NoFindings})]
                /\ screen \in View

\* What the editor shows for f once all that is on its way has come in order.
Eventual(f) == IF renders[f] = <<>> THEN screen[f] ELSE Last(renders[f])

\* A spawned render is the last thing the editor will be told of its file, and
\* changes nothing for the others.
LEMMA SpawnDecides ==
    ASSUME RendersTyped, NEW S \in SUBSET Files, NEW shows \in View,
           Spawn(S, shows), UNCHANGED screen
    PROVE  /\ RendersTyped'
           /\ \A f \in Files : Eventual(f)' = IF f \in S THEN shows[f] ELSE Eventual(f)
<1> USE DEF RendersTyped
<1>1. \A f \in Files : renders'[f] = IF f \in S THEN Append(renders[f], shows[f])
                                   ELSE renders[f]
  BY DEF Spawn
<1>2. RendersTyped'
  BY DEF Spawn, View
<1>3. ASSUME NEW f \in S PROVE Eventual(f)' = shows[f]
  <2>1. renders[f] \in Seq(Findings \cup {NoFindings}) /\ shows[f] \in Findings \cup {NoFindings}
    BY DEF View
  <2>2. ASSUME NEW q \in Seq(Findings \cup {NoFindings}),
               NEW v \in Findings \cup {NoFindings}
        PROVE  Append(q, v) # <<>> /\ Append(q, v)[Len(Append(q, v))] = v
    <3>1. Len(Append(q, v)) = Len(q) + 1 /\ Len(q) \in Nat
      OBVIOUS
    <3>2. Append(q, v)[Len(q) + 1] = v
      OBVIOUS
    <3>3. Append(q, v) # <<>>
      BY <3>1
    <3>4. QED
      BY <3>1, <3>2, <3>3
  <2>3. renders'[f] = Append(renders[f], shows[f])
    BY <1>1
  <2>4. QED
    BY <2>1, <2>2, <2>3 DEF Eventual, Last
<1>4. ASSUME NEW f \in Files \ S PROVE Eventual(f)' = Eventual(f)
  BY <1>1, <1>4 DEF Eventual
<1>5. QED
  BY <1>2, <1>3, <1>4

\* What is left when the oldest element of a sequence is removed.
LEMMA OldestRemoved ==
    ASSUME NEW T, NEW q \in Seq(T), Len(q) >= 1
    PROVE  /\ Len(RemoveAt(q, 1)) = Len(q) - 1
           /\ \A j \in 1..(Len(q) - 1) : RemoveAt(q, 1)[j] = q[j + 1]
<1>1. SubSeq(q, 1, 0) \in Seq(T) /\ Len(SubSeq(q, 1, 0)) = 0
  OBVIOUS
<1>2. SubSeq(q, 2, Len(q)) \in Seq(T)
  OBVIOUS
<1>3. ASSUME NEW n \in Nat, n = Len(q) PROVE Len(SubSeq(q, 2, n)) = n - 1
  BY <1>3
<1>4. ASSUME NEW j \in 1..(Len(q) - 1) PROVE SubSeq(q, 2, Len(q))[j] = q[j + 1]
  OBVIOUS
<1>5. RemoveAt(q, 1) = SubSeq(q, 1, 0) \o SubSeq(q, 2, Len(q))
  BY DEF RemoveAt
<1>6. QED
  BY <1>1, <1>2, <1>3, <1>4, <1>5

\* Delivering the oldest render of a file changes nothing about its last word.
LEMMA DeliveredInOrder ==
    ASSUME RendersTyped, NEW f \in Files, NEW i \in 1..Len(renders[f]), Deliver(f, i)
    PROVE  /\ RendersTyped'
           /\ i = 1 => \A g \in Files : Eventual(g)' = Eventual(g)
<1> USE DEF RendersTyped
<1> DEFINE q == renders[f]
<1>1. q \in Seq(Findings \cup {NoFindings}) /\ Len(q) \in Nat
  OBVIOUS
<1>2. q[i] \in Findings \cup {NoFindings}
  BY <1>1
<1>3. RemoveAt(q, i) \in Seq(Findings \cup {NoFindings})
  BY <1>1 DEF RemoveAt
<1>4. RendersTyped'
  BY <1>2, <1>3 DEF Deliver, View
<1>5. ASSUME i = 1, NEW g \in Files PROVE Eventual(g)' = Eventual(g)
  <2>1. CASE g # f
    BY <2>1 DEF Deliver, Eventual, View
  <2>2. CASE g = f
    <3>1. renders'[f] = RemoveAt(q, 1) /\ screen'[f] = q[1]
      BY <1>5 DEF Deliver, View
    <3>2. /\ Len(RemoveAt(q, 1)) = Len(q) - 1
          /\ \A j \in 1..(Len(q) - 1) : RemoveAt(q, 1)[j] = q[j + 1]
      BY <1>1, <1>5, OldestRemoved
    <3>3. CASE Len(q) = 1
      <4>1. RemoveAt(q, 1) = <<>>
        <5>1. RemoveAt(q, 1) \in Seq(Findings \cup {NoFindings})
          BY <1>3, <1>5
        <5>2. Len(RemoveAt(q, 1)) = 0
          BY <3>2, <3>3
        <5>3. QED
          BY <5>1, <5>2
      <4>2. q # <<>> /\ Last(q) = q[1]
        <5>1. Len(q) # Len(<<>>)
          BY <3>3
        <5>2. Last(q) = q[1]
          BY <3>3 DEF Last
        <5>3. QED
          BY <5>1, <5>2
      <4>3. Eventual(f)' = screen'[f]
        BY <3>1, <4>1 DEF Eventual
      <4>4. QED
        BY <2>2, <3>1, <4>2, <4>3 DEF Eventual
    <3>4. CASE Len(q) # 1
      <4>1. Len(RemoveAt(q, 1)) > 0 /\ RemoveAt(q, 1) # <<>>
        BY <1>1, <1>3, <1>5, <3>2, <3>4
      <4>2. Last(RemoveAt(q, 1)) = Last(q)
        BY <1>1, <3>2, <4>1 DEF Last
      <4>3. QED
        BY <1>1, <2>2, <3>1, <4>1, <4>2 DEF Eventual
    <3>5. QED
      BY <3>3, <3>4
  <2>3. QED
    BY <2>1, <2>2
<1>6. QED
  BY <1>4, <1>5

\* Unless a publish overtook another, the last word on its way to every file
\* is what the engine last said.
DriftInv == RendersTyped /\ (~overtaken => \A f \in Files : client[f] = Eventual(f))

\* Only a delivery out of order can set the last word and the engine apart.
LEMMA DriftStep ==
    TypeOK /\ ClientAgrees /\ DriftInv /\ [PubNext]_allVars => DriftInv'
<1> SUFFICES ASSUME TypeOK, ClientAgrees, DriftInv, [PubNext]_allVars PROVE DriftInv'
  OBVIOUS
<1> USE DEF DriftInv, TypeOK
<1>1. ASSUME UNCHANGED <<client, renders, screen, overtaken>> PROVE DriftInv'
  BY <1>1 DEF RendersTyped, Eventual
<1>2. CASE Silent /\ UNCHANGED pubVars
  <2>1. UNCHANGED client
    BY <1>2 DEF Silent, Edit, DidChangeWatchedFiles, SendClear, SendRequest, Ask, Find,
       SlotFreed, DropHandle, HandleRequest, DebounceElapsed, ActorStops, ScanStarts,
       ReadManifest, OrphanEnds, actorVars
  <2>2. QED
    BY <1>1, <1>2, <2>1 DEF pubVars
<1>3. CASE PublishesClear
  <2> DEFINE c == Head(queue).file
  <2>1. c \in Files
    BY <1>3, ReceiveTyped DEF PublishesClear, HandleClear, Received, Message
  <2>2. /\ RendersTyped'
        /\ \A f \in Files : Eventual(f)' = IF f \in {c} \cap published THEN NoFindings
                                           ELSE Eventual(f)
    BY <1>3, NothingTyped, SpawnDecides DEF PublishesClear, Nothing
  <2>3. \A f \in Files : client'[f] = IF f \in {c} \cap published THEN NoFindings
                                     ELSE client[f]
    BY <1>3, <2>1 DEF PublishesClear, HandleClear, View
  <2>4. QED
    BY <1>3, <2>2, <2>3 DEF PublishesClear
<1>4. ASSUME NEW o \in Outcome, ScanFinished(o), UNCHANGED <<screen, overtaken>>,
             Spawn(IF o.kind = "ok" THEN Published ELSE {}, in_flight.found)
      PROVE  DriftInv'
  <2>1. in_flight.found \in View /\ Published \subseteq Files
    BY DEF InFlight, Published
  <2>2. CASE ScanSucceeded(o)
    <3>1. /\ RendersTyped'
          /\ \A f \in Files : Eventual(f)' = IF f \in Published THEN in_flight.found[f]
                                             ELSE Eventual(f)
      BY <1>4, <2>1, <2>2, SpawnDecides DEF ScanSucceeded
    <3>2. \A f \in Files : client'[f] = IF f \in Published THEN in_flight.found[f]
                                       ELSE client[f]
      BY <2>2 DEF ScanSucceeded, Publish, Published
    <3>3. QED
      BY <1>4, <3>1, <3>2
  <2>3. CASE ScanFailed(o) \/ ScanPanicked(o)
    <3>1. UNCHANGED client /\ o.kind # "ok"
      BY <2>3 DEF ScanFailed, ScanPanicked
    <3>2. RendersTyped' /\ \A f \in Files : Eventual(f)' = Eventual(f)
      <4>1. renders' = [f \in Files |-> renders[f]]
        BY <1>4, <3>1 DEF Spawn
      <4>2. UNCHANGED renders
        BY <4>1 DEF RendersTyped
      <4>3. QED
        BY <1>4, <4>2 DEF RendersTyped, Eventual
    <3>3. QED
      BY <1>4, <3>1, <3>2
  <2>4. QED
    BY <1>4, <2>2, <2>3 DEF ScanFinished
<1>5. CASE Replies
  <2> DEFINE q == Head(queue).file
             S == {q} \ {g \in Files : report[g] = NoFindings}
  <2>1. q \in Files
    BY <1>5, ReceiveTyped DEF Replies, HandleQuery, Received, Message
  <2>2. UNCHANGED <<client, screen, overtaken>>
    BY <1>5 DEF Replies, HandleQuery, actorVars
  <2>3. CASE UNCHANGED renders
    BY <1>1, <2>2, <2>3
  <2>4. CASE Spawn(S, report)
    <3>1. /\ RendersTyped'
          /\ \A f \in Files : Eventual(f)' = IF f \in S THEN report[f] ELSE Eventual(f)
      <4>1. S \in SUBSET Files /\ report \in View
        BY <2>1
      <4>2. QED
        BY <2>2, <2>4, <4>1, SpawnDecides
    <3>2. QED
      BY <2>2, <3>1 DEF ClientAgrees
  <2>5. QED
    BY <1>5, <2>3, <2>4 DEF Replies
<1>6. ASSUME NEW f \in Files, NEW i \in 1..Len(renders[f]), Deliver(f, i)
      PROVE  DriftInv'
  <2>1. RendersTyped' /\ (i = 1 => \A g \in Files : Eventual(g)' = Eventual(g))
    BY <1>6, DeliveredInOrder
  <2>2. UNCHANGED client /\ (~overtaken' => ~overtaken /\ i = 1)
    BY <1>6 DEF Deliver, vars, actorVars
  <2>3. QED
    BY <2>1, <2>2
<1>7. CASE UNCHANGED allVars
  BY <1>1, <1>7 DEF allVars, pubVars, vars, actorVars
<1>8. QED
  BY <1>2, <1>3, <1>4, <1>5, <1>6, <1>7 DEF PubNext, PublishesScan

\* The editor and the engine can only disagree because one publish overtook an
\* older one for the same file: didOpen's replay of the stored findings, clears
\* and superseded scans never do it, for any number of renders on their way.
THEOREM OnlyReorderingDriftsHolds == PubSpec => []OnlyReorderingDrifts
<1>1. PubInit => DriftInv
  BY NothingTyped DEF PubInit, Init, DriftInv, RendersTyped, Eventual
<1>2. DriftInv => OnlyReorderingDrifts
  BY DEF DriftInv, Eventual, OnlyReorderingDrifts
<1>3. QED
  BY <1>1, <1>2, DriftStep, EngineUnderPublishing, PTL DEF PubSpec

=============================================================================
