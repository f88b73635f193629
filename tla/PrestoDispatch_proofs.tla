------------------------ MODULE PrestoDispatch_proofs ------------------------
(***************************************************************************)
(* Proofs about PrestoDispatch, for any number of Prestos and any size of  *)
(* the channel: types, that no request is lost, and that a Presto once     *)
(* forgotten stays so.                                                     *)
(***************************************************************************)
EXTENDS PrestoDispatch, TLAPS

-----------------------------------------------------------------------------
(***************************************************************************)
(* Sequences.                                                              *)
(***************************************************************************)
LEMMA AppendHas ==
  ASSUME NEW S, NEW s \in Seq(S), NEW x \in S
  PROVE  /\ Append(s, x) \in Seq(S) /\ In(Append(s, x), x)
         /\ \A y : In(Append(s, x), y) <=> y = x \/ In(s, y)
<1>1. /\ Append(s, x) \in Seq(S) /\ Len(Append(s, x)) = Len(s) + 1
      /\ Append(s, x)[Len(s) + 1] = x /\ Len(s) \in Nat
      /\ \A i \in 1..Len(s) : Append(s, x)[i] = s[i]
  OBVIOUS
<1>2. DOMAIN s = 1..Len(s) /\ DOMAIN Append(s, x) = 1..(Len(s) + 1)
  BY <1>1
<1>3. In(Append(s, x), x)
  BY <1>1, <1>2 DEF In
<1>4. \A y : In(s, y) => In(Append(s, x), y)
  BY <1>1, <1>2 DEF In
<1>5. \A y : In(Append(s, x), y) => y = x \/ In(s, y)
  BY <1>1, <1>2 DEF In
<1> QED BY <1>1, <1>3, <1>4, <1>5

LEMMA TailHas ==
  ASSUME NEW S, NEW s \in Seq(S), s # <<>>
  PROVE  /\ Head(s) \in S /\ Tail(s) \in Seq(S) /\ Len(Tail(s)) = Len(s) - 1
         /\ \A y : In(s, y) /\ y # Head(s) => In(Tail(s), y)
         /\ In(s, Head(s)) /\ \A y : In(Tail(s), y) => In(s, y)
<1>1. /\ Tail(s) \in Seq(S) /\ Len(Tail(s)) = Len(s) - 1 /\ Head(s) \in S
      /\ Len(s) \in Nat /\ Len(s) # 0 /\ Head(s) = s[1]
      /\ \A i \in 1..(Len(s) - 1) : Tail(s)[i] = s[i + 1]
  OBVIOUS
<1>2. DOMAIN s = 1..Len(s) /\ DOMAIN Tail(s) = 1..(Len(s) - 1)
  BY <1>1
<1>3. ASSUME NEW y, In(s, y), y # Head(s) PROVE In(Tail(s), y)
  <2>1. PICK i \in 1..Len(s) : s[i] = y
    BY <1>2, <1>3 DEF In
  <2>2. i # 1 /\ i - 1 \in 1..(Len(s) - 1) /\ (i - 1) + 1 = i
    BY <1>1, <1>3, <2>1
  <2>3. Tail(s)[i - 1] = y
    BY <1>1, <2>1, <2>2
  <2> QED BY Zenon, <1>2, <2>2, <2>3 DEF In
<1>4. In(s, Head(s))
  BY <1>1, <1>2 DEF In
<1>5. \A y : In(Tail(s), y) => In(s, y)
  BY <1>1, <1>2 DEF In
<1> QED BY <1>1, <1>3, <1>4, <1>5

-----------------------------------------------------------------------------
(***************************************************************************)
(* Types.                                                                  *)
(***************************************************************************)

LEMMA AddType ==
  ASSUME TypeOK, NEW p \in Prestos, Add(p)
  PROVE  queue' \in Seq(Prestos) /\ dirty' \subseteq Prestos
<1>1. queue' = queue \/ queue' = Append(queue, p)
  BY DEF Add
<1> QED BY <1>1, AppendHas DEF Add, TypeOK

LEMMA BudgetTypes ==
  ASSUME TypeOK
  PROVE  /\ budget.changes > 0 =>
              [budget EXCEPT !.changes = @ - 1] \in [changes : Nat, faults : Nat]
         /\ budget.faults > 0 =>
              [budget EXCEPT !.faults = @ - 1] \in [changes : Nat, faults : Nat]
<1>1. budget \in [changes : Nat, faults : Nat]
  BY DEF TypeOK
<1> QED BY <1>1

LEMMA NextType == ASSUME TypeOK, [Next]_vars PROVE TypeOK'
<1> USE DEF watch, ticker, source, work
<1>1. ASSUME NEW p \in Prestos, Change(p) PROVE TypeOK'
  BY <1>1, BudgetTypes DEF Change, TypeOK
<1>2. ASSUME NEW p \in Prestos, DeliverPresto(p) \/ AddDelayed(p) PROVE TypeOK'
  <2>1. Add(p)
    BY <1>2 DEF DeliverPresto, AddDelayed
  <2> QED BY <1>2, <2>1, AddType DEF DeliverPresto, AddDelayed, TypeOK
<1>3. CASE Tick \/ StartRange \/ (\E p \in Prestos : Visit(p)) \/ Receive
  BY Zenon, <1>3 DEF Tick, StartRange, Visit, Receive, TypeOK
<1>4. ASSUME NEW p \in Prestos, Distribute(p) PROVE TypeOK'
  <2>1. /\ buffer \in Seq(Prestos) /\ Len(buffer) \in Nat /\ BufferSize \in Nat
        /\ Len(buffer) < BufferSize /\ buffer' = Append(buffer, p)
    BY <1>4, DispatchAssumption DEF Distribute, TypeOK
  <2>2. buffer' \in Seq(Prestos) /\ Len(buffer') <= BufferSize
    <3>1. Len(Append(buffer, p)) = Len(buffer) + 1
      BY <2>1
    <3> QED BY <2>1, <3>1, AppendHas
  <2> QED BY <1>4, <2>2 DEF Distribute, TypeOK
<1>5. CASE HandleGeneric
  <2>1. /\ buffer \in Seq(Prestos) /\ Len(buffer) \in Nat /\ BufferSize \in Nat
        /\ Len(buffer) <= BufferSize /\ buffer # <<>> /\ buffer' = Tail(buffer)
        /\ Add(Head(buffer))
    BY <1>5, DispatchAssumption DEF HandleGeneric, TypeOK
  <2>2. /\ Head(buffer) \in Prestos /\ buffer' \in Seq(Prestos)
        /\ Len(buffer') = Len(buffer) - 1
    BY <2>1, TailHas
  <2>3. Len(buffer') <= BufferSize
    BY <2>1, <2>2
  <2>4. queue' \in Seq(Prestos) /\ dirty' \subseteq Prestos
    BY <2>1, <2>2, AddType
  <2> QED BY <1>5, <2>2, <2>3, <2>4 DEF HandleGeneric, TypeOK
<1>6. CASE Take
  <2>1. Head(queue) \in Prestos /\ Tail(queue) \in Seq(Prestos)
    BY <1>6, TailHas DEF Take, TypeOK
  <2> QED BY <1>6, <2>1 DEF Take, TypeOK
<1>7. ASSUME NEW p \in Prestos, Get(p) \/ Unregister(p) \/ Register(p) PROVE TypeOK'
  BY <1>7 DEF Get, Unregister, Register, TypeOK
<1>8. ASSUME NEW p \in Prestos, ReconcileEnds(p) \/ ReconcileFails(p) PROVE TypeOK'
  <2>1. queue' = queue \/ queue' = Append(queue, p)
    BY <1>8 DEF ReconcileEnds, ReconcileFails, Done
  <2>2. queue \in Seq(Prestos) /\ Append(queue, p) \in Seq(Prestos)
    BY AppendHas DEF TypeOK
  <2>3. queue' \in Seq(Prestos)
    BY <2>1, <2>2
  <2> QED BY <1>8, <2>3, BudgetTypes DEF ReconcileEnds, ReconcileFails, Done, TypeOK
<1>9. CASE Crash
  <2>1. <<>> \in Seq(Prestos) /\ Len(<<>>) <= BufferSize
    BY DispatchAssumption
  <2> QED BY Zenon, <1>9, <2>1, BudgetTypes DEF Crash, TypeOK
<1>10. CASE UNCHANGED vars
  BY <1>10 DEF vars, TypeOK
<1> QED BY <1>1, <1>2, <1>3, <1>4, <1>5, <1>6, <1>7, <1>8, <1>9, <1>10
        DEF Next, Reconcile

LEMMA InitType == Init => TypeOK
<1>1. <<>> \in Seq(Prestos) /\ Len(<<>>) <= BufferSize
  BY DispatchAssumption
<1>2. [changes |-> MaxChanges, faults |-> MaxFaults] \in [changes : Nat, faults : Nat]
  BY DispatchAssumption
<1> QED BY Zenon, <1>1, <1>2 DEF Init, TypeOK

\* At most one reconcile runs, and the controller's channel never overflows, for
\* any number of Prestos and any size of the channel.
THEOREM DispatchTypes == Spec => []TypeOK
<1>1. Init => TypeOK
  BY InitType
<1>2. TypeOK /\ [Next]_vars => TypeOK'
  BY NextType
<1> QED BY <1>1, <1>2, PTL DEF Spec

-----------------------------------------------------------------------------
(***************************************************************************)
(* No request is lost.  The queue holds every dirty Presto that is not     *)
(* being processed, and a Presto whose entry of the cache has changed      *)
(* since Get read it is announced again.                                   *)
(***************************************************************************)
Coming(p)   == p \in events \cup delayed \cup dirty \/ In(queue, p)
Stale(p)    == (pc = "found" /\ p \notin cached) \/ (pc = "missing" /\ p \in cached)
Reading(p)  == pc \in {"get", "found", "missing"} /\ ~Stale(p)
Differs(p)  == (p \in cached) # (p \in registered)

DirtyQueued == \A p \in dirty : p \in processing \/ In(queue, p)
StaleComes  == \A p \in processing : Stale(p) => Coming(p)
Corrected   == \A p \in Prestos : Differs(p) => Coming(p) \/ (p \in processing /\ Reading(p))
DispatchInv == TypeOK /\ DirtyQueued /\ StaleComes /\ Corrected

LEMMA InvImplies == ASSUME DispatchInv PROVE NoLostRequest
BY DEF DispatchInv, DirtyQueued, StaleComes, Corrected, NoLostRequest, Differs, Coming,
       Reading, Stale, OnItsWay, InQueue, In

\* What is on its way stays so when p is added.
LEMMA AddKeeps ==
  ASSUME TypeOK, DirtyQueued, NEW p \in Prestos, Add(p), UNCHANGED processing
  PROVE  /\ DirtyQueued' /\ p \in dirty'
         /\ dirty \subseteq dirty' /\ \A q : In(queue, q) => In(queue', q)
<1>1. /\ In(Append(queue, p), p)
      /\ \A q : In(queue, q) => In(Append(queue, p), q)
  BY AppendHas DEF TypeOK
<1>2. \A q : In(queue, q) => In(queue', q)
  <2>1. CASE queue' = queue
    BY <2>1
  <2>2. CASE queue' = Append(queue, p)
    BY <1>1, <2>2
  <2> QED BY <2>1, <2>2 DEF Add
<1>3. p \in processing \/ In(queue', p)
  <2>1. CASE p \in dirty \cup processing
    BY <1>2, <2>1 DEF DirtyQueued
  <2>2. CASE p \notin dirty \cup processing
    BY <1>1, <2>2 DEF Add
  <2> QED BY <2>1, <2>2
<1>4. DirtyQueued'
  BY <1>2, <1>3 DEF Add, DirtyQueued
<1> QED BY <1>2, <1>4 DEF Add

\* So does it when the reconcile of p is done.
LEMMA DoneKeeps ==
  ASSUME TypeOK, DirtyQueued, NEW p \in processing, Done(p), UNCHANGED dirty
  PROVE  DirtyQueued' /\ \A q : In(queue, q) => In(queue', q)
<1>1. /\ In(Append(queue, p), p)
      /\ \A q : In(queue, q) => In(Append(queue, p), q)
  BY AppendHas DEF TypeOK
<1>2. \A q : In(queue, q) => In(queue', q)
  <2>1. CASE queue' = queue
    BY <2>1
  <2>2. CASE queue' = Append(queue, p)
    BY <1>1, <2>2
  <2> QED BY <2>1, <2>2 DEF Done
<1>3. p \in dirty => In(queue', p)
  BY <1>1 DEF Done
<1>4. \A q \in dirty : q = p \/ In(queue, q)
  BY DEF DirtyQueued, TypeOK
<1> QED BY <1>2, <1>3, <1>4 DEF DirtyQueued

LEMMA NextInv == ASSUME DispatchInv, [Next]_vars PROVE DispatchInv'
<1> USE DEF watch, ticker, source, work
<1>0. TypeOK /\ DirtyQueued /\ StaleComes /\ Corrected
  BY DEF DispatchInv
<1>t. TypeOK'
  BY <1>0, NextType
<1> SUFFICES DirtyQueued' /\ StaleComes' /\ Corrected'
  BY <1>t DEF DispatchInv
<1> DEFINE Preserved == DirtyQueued' /\ StaleComes' /\ Corrected'
<1>1. ASSUME NEW p \in Prestos, Change(p) PROVE Preserved
  <2>1. DirtyQueued'
    BY <1>0, <1>1 DEF Change, DirtyQueued
  <2>2. /\ \A q : Coming(q) => Coming(q)'
        /\ Coming(p)'
    BY <1>1 DEF Change, Coming
  <2>3. \A q : q # p => /\ Stale(q)' = Stale(q) /\ Reading(q)' = Reading(q)
                        /\ Differs(q)' = Differs(q)
    BY <1>0, <1>1 DEF Change, Stale, Reading, Differs
  <2>4. processing' = processing
    BY <1>1 DEF Change
  <2>5. StaleComes'
    BY <1>0, <2>2, <2>3, <2>4 DEF StaleComes
  <2>6. Corrected'
    BY <1>0, <2>2, <2>3, <2>4 DEF Corrected
  <2> QED BY <2>1, <2>5, <2>6
<1>2. ASSUME NEW p \in Prestos, Add(p), UNCHANGED <<cached, registered, processing, pc>>,
             events \subseteq events' \cup {p}, delayed \subseteq delayed' \cup {p}
      PROVE  Preserved
  <2>1. /\ DirtyQueued' /\ p \in dirty'
        /\ dirty \subseteq dirty' /\ \A q : In(queue, q) => In(queue', q)
    BY <1>0, <1>2, AddKeeps
  <2>2. \A q : Coming(q) => Coming(q)'
    BY <1>2, <2>1 DEF Coming
  <2>3. \A q : /\ Stale(q)' = Stale(q) /\ Reading(q)' = Reading(q)
               /\ Differs(q)' = Differs(q)
    BY <1>2 DEF Stale, Reading, Differs
  <2>4. StaleComes'
    BY <1>0, <1>2, <2>2, <2>3 DEF StaleComes
  <2>5. Corrected'
    BY <1>0, <1>2, <2>2, <2>3 DEF Corrected
  <2> QED BY <2>1, <2>4, <2>5
<1>3. ASSUME NEW p \in Prestos, DeliverPresto(p) \/ AddDelayed(p) PROVE Preserved
  BY <1>2, <1>3 DEF DeliverPresto, AddDelayed
<1>4. CASE HandleGeneric
  <2>1. Head(buffer) \in Prestos
    BY <1>0, <1>4, TailHas DEF HandleGeneric, TypeOK
  <2> QED BY <1>2, <1>4, <2>1 DEF HandleGeneric
<1>5. CASE UNCHANGED <<watch, registered, work, pc>>
  BY <1>0, <1>5 DEF DirtyQueued, StaleComes, Corrected, Stale, Reading, Differs, Coming
<1>6. CASE Take
  <2>0. PICK h : h = Head(queue)
    OBVIOUS
  <2>1. /\ h \in Prestos
        /\ \A q : In(queue, q) /\ q # h => In(queue', q)
    BY <1>0, <1>6, <2>0, TailHas DEF Take, TypeOK
  <2>2. processing = {} /\ processing' = {h} /\ pc' = "get"
        /\ dirty' = dirty \ {h} /\ UNCHANGED <<watch, registered, delayed>>
    BY <1>6, <2>0 DEF Take
  <2>3. DirtyQueued'
    BY <1>0, <2>1, <2>2 DEF DirtyQueued
  <2>4. StaleComes'
    BY <2>2 DEF StaleComes, Stale
  <2>5. Reading(h)'
    BY <2>2 DEF Reading, Stale
  <2>6. \A q : q # h /\ Coming(q) => Coming(q)'
    BY <2>1, <2>2 DEF Coming
  <2>7. \A q : Differs(q)' = Differs(q)
    BY <2>2 DEF Differs
  <2>8. \A q \in Prestos : Differs(q) => Coming(q)
    BY <1>0, <2>2 DEF Corrected
  <2>9. Corrected'
    BY <2>2, <2>5, <2>6, <2>7, <2>8 DEF Corrected
  <2> QED BY <2>3, <2>4, <2>9
<1>7. ASSUME NEW p \in Prestos, Get(p) PROVE Preserved
  <2>1. p \in processing /\ processing' = processing
        /\ UNCHANGED <<cached, events, registered, queue, dirty, delayed>>
        /\ pc' = IF p \in cached THEN "found" ELSE "missing"
    BY <1>7 DEF Get
  <2>2. \A q \in processing : q = p
    BY <1>0, <2>1 DEF TypeOK
  <2>3. DirtyQueued'
    BY <1>0, <2>1 DEF DirtyQueued
  <2>4. ~Stale(p)' /\ Reading(p)'
    BY <2>1 DEF Stale, Reading
  <2>5. \A q : Coming(q)' = Coming(q) /\ Differs(q)' = Differs(q)
    BY <2>1 DEF Coming, Differs
  <2> QED BY <1>0, <2>1, <2>2, <2>3, <2>4, <2>5 DEF StaleComes, Corrected
<1>8. ASSUME NEW p \in Prestos, Unregister(p) \/ Register(p) PROVE Preserved
  <2>1. p \in processing /\ processing' = processing /\ pc' = "end"
        /\ UNCHANGED <<cached, events, queue, dirty, delayed>>
    BY <1>8 DEF Unregister, Register
  <2>2. \A q \in processing : q = p
    BY <1>0, <2>1 DEF TypeOK
  <2>3. DirtyQueued' /\ StaleComes'
    BY <1>0, <2>1 DEF DirtyQueued, StaleComes, Stale
  <2>4. \A q : Coming(q)' = Coming(q)
    BY <2>1 DEF Coming
  <2>5. Differs(p)' => Coming(p)
    BY <1>0, <1>8 DEF Unregister, Register, StaleComes, Stale, Differs
  <2>6. \A q : q # p => Differs(q)' = Differs(q)
    BY <1>8, <2>1 DEF Unregister, Register, Differs
  <2> QED BY <1>0, <2>2, <2>3, <2>4, <2>5, <2>6 DEF Corrected
<1>9. ASSUME NEW p \in Prestos, ReconcileEnds(p) \/ ReconcileFails(p) PROVE Preserved
  <2>1. /\ p \in processing /\ Done(p) /\ UNCHANGED dirty /\ processing' = {}
        /\ UNCHANGED <<cached, events, registered>> /\ delayed \subseteq delayed'
        /\ pc = "end" \/ p \in delayed'
    BY <1>9 DEF ReconcileEnds, ReconcileFails, Done
  <2>2. DirtyQueued' /\ \A q : In(queue, q) => In(queue', q)
    BY <1>0, <2>1, DoneKeeps
  <2>3. StaleComes'
    BY <2>1 DEF StaleComes
  <2>4. \A q : Coming(q) => Coming(q)'
    BY <2>1, <2>2 DEF Coming
  <2>5. \A q \in processing : Reading(q) => Coming(q)'
    BY <1>0, <2>1 DEF TypeOK, Reading, Coming
  <2>6. \A q : Differs(q)' = Differs(q)
    BY <2>1 DEF Differs
  <2> QED BY <1>0, <2>2, <2>3, <2>4, <2>5, <2>6 DEF Corrected
<1>10. CASE Crash
  <2>1. dirty' = {} /\ processing' = {} /\ registered' = {}
        /\ events' = cached /\ cached' = cached
    BY <1>10 DEF Crash
  <2> QED BY <2>1 DEF DirtyQueued, StaleComes, Corrected, Differs, Coming
<1>11. CASE Tick \/ StartRange \/ (\E p \in Prestos : Visit(p)) \/ Receive
            \/ (\E p \in Prestos : Distribute(p)) \/ UNCHANGED vars
  BY <1>5, <1>11 DEF Tick, StartRange, Visit, Receive, Distribute, vars
<1> QED BY <1>1, <1>3, <1>4, <1>6, <1>7, <1>8, <1>9, <1>10, <1>11 DEF Next, Reconcile

\* Whenever the map of registered Prestos differs from the cache, a request that
\* will correct it is on its way, for any number of Prestos, of changes, of
\* failures and of crashes.
THEOREM NoRequestIsLost == Spec => []NoLostRequest
<1>1. Init => DirtyQueued /\ StaleComes /\ Corrected
  BY DEF Init, DirtyQueued, StaleComes, Corrected, Differs
<1>2. Init => TypeOK
  BY InitType
<1>3. DispatchInv /\ [Next]_vars => DispatchInv'
  BY NextInv
<1>4. DispatchInv => NoLostRequest
  BY InvImplies
<1> QED BY <1>1, <1>2, <1>3, <1>4, PTL DEF Spec, DispatchInv

-----------------------------------------------------------------------------
(***************************************************************************)
(* Forgotten Prestos.  Each place takes only what another place holds; the *)
(* keys Range has still to visit are checked against the map.              *)
(***************************************************************************)
LEMMA AddForgets ==
  ASSUME TypeOK, NEW q \in Prestos, Add(q), NEW p, p # q, p \notin dirty, ~InQueue(p)
  PROVE  p \notin dirty' /\ ~InQueue(p)'
<1>1. queue' = queue \/ queue' = Append(queue, q)
  BY DEF Add
<1> QED BY <1>1, AppendHas DEF Add, InQueue, TypeOK

LEMMA StaysForgotten ==
  ASSUME TypeOK, [Next]_vars, NEW p \in Prestos, Forgotten(p), p \notin cached'
  PROVE  Forgotten(p)'
<1> USE DEF watch, ticker, source, work
<1>0. /\ p \notin cached \cup registered \cup events \cup delayed
      /\ p \notin sending \cup held \cup dirty \cup processing
      /\ ~InQueue(p) /\ ~In(buffer, p)
  BY DEF Forgotten
<1>1. ASSUME NEW q \in Prestos, Change(q) PROVE Forgotten(p)'
  <2>1. q # p
    BY <1>0, <1>1 DEF Change
  <2> QED BY <1>0, <1>1, <2>1 DEF Change, Forgotten, InQueue
<1>2. ASSUME NEW q \in Prestos, DeliverPresto(q) \/ AddDelayed(q) PROVE Forgotten(p)'
  <2>1. q # p /\ Add(q)
    BY <1>0, <1>2 DEF DeliverPresto, AddDelayed
  <2>2. p \notin dirty' /\ ~InQueue(p)'
    BY <1>0, <2>1, AddForgets
  <2> QED BY <1>0, <1>2, <2>2 DEF DeliverPresto, AddDelayed, Forgotten
<1>3. CASE Tick \/ StartRange \/ (\E q \in Prestos : Visit(q)) \/ Receive
  BY Zenon, <1>0, <1>3 DEF Tick, StartRange, Visit, Receive, Forgotten, InQueue
<1>4. ASSUME NEW q \in Prestos, Distribute(q) PROVE Forgotten(p)'
  <2>1. q # p /\ buffer' = Append(buffer, q) /\ buffer \in Seq(Prestos)
    BY <1>0, <1>4 DEF Distribute, TypeOK
  <2>2. ~In(buffer', p)
    BY <1>0, <2>1, AppendHas
  <2> QED BY <1>0, <1>4, <2>2 DEF Distribute, Forgotten, InQueue
<1>5. CASE HandleGeneric
  <2>0. PICK h : h = Head(buffer)
    OBVIOUS
  <2>1. /\ h \in Prestos /\ In(buffer, h)
        /\ \A y : In(buffer', y) => In(buffer, y)
    BY <1>5, <2>0, TailHas DEF HandleGeneric, TypeOK
  <2>2. h # p /\ Add(h)
    BY <1>0, <1>5, <2>0, <2>1 DEF HandleGeneric
  <2>3. p \notin dirty' /\ ~InQueue(p)'
    BY <1>0, <2>1, <2>2, AddForgets
  <2> QED BY <1>0, <1>5, <2>1, <2>3 DEF HandleGeneric, Forgotten
<1>6. CASE Take
  <2>0. PICK h : h = Head(queue)
    OBVIOUS
  <2>1. In(queue, h) /\ \A y : In(queue', y) => In(queue, y)
    BY <1>6, <2>0, TailHas DEF Take, TypeOK
  <2>2. h # p /\ ~InQueue(p)'
    BY <1>0, <2>1 DEF InQueue
  <2> QED BY <1>0, <1>6, <2>0, <2>2 DEF Take, Forgotten
<1>7. ASSUME NEW q \in Prestos, Get(q) \/ Unregister(q) \/ Register(q)
      PROVE  Forgotten(p)'
  <2>1. q # p
    BY <1>0, <1>7 DEF Get, Unregister, Register
  <2> QED BY <1>0, <1>7, <2>1 DEF Get, Unregister, Register, Forgotten, InQueue
<1>8. ASSUME NEW q \in Prestos, ReconcileEnds(q) \/ ReconcileFails(q)
      PROVE  Forgotten(p)'
  <2>1. q # p /\ (queue' = queue \/ queue' = Append(queue, q))
    BY <1>0, <1>8 DEF ReconcileEnds, ReconcileFails, Done
  <2>2. ~InQueue(p)'
    <3>1. \A y : In(Append(queue, q), y) <=> y = q \/ In(queue, y)
      BY AppendHas DEF TypeOK
    <3> QED BY Zenon, <1>0, <2>1, <3>1 DEF InQueue
  <2> QED BY <1>0, <1>8, <2>1, <2>2 DEF ReconcileEnds, ReconcileFails, Done, Forgotten
<1>9. CASE Crash
  <2>1. ~In(<<>>, p)
    BY DEF In
  <2> QED BY Zenon, <1>0, <1>9, <2>1 DEF Crash, Forgotten, InQueue
<1>10. CASE UNCHANGED vars
  BY <1>0, <1>10 DEF vars, Forgotten, InQueue
<1> QED BY <1>1, <1>2, <1>3, <1>4, <1>5, <1>6, <1>7, <1>8, <1>9, <1>10
        DEF Next, Reconcile

\* A Presto that was deleted and forgotten gets no further event or request until
\* it is created again, for any number of Prestos and any size of the channel,
\* although newReconciler's Range goes through keys copied from the map earlier.
THEOREM ForgottenForGood == Spec => NoRevival
<1>1. TypeOK /\ [Next]_vars =>
        [ \A p \in Prestos : Forgotten(p) /\ p \notin cached' => Forgotten(p)' ]_vars
  BY StaysForgotten
<1> QED BY <1>1, DispatchTypes, PTL DEF Spec, NoRevival

=============================================================================
