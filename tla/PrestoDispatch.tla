--------------------------- MODULE PrestoDispatch ---------------------------
(***************************************************************************)
(* How requests for several Prestos come to the one thread that            *)
(* reconciles: the watch of Prestos, the map of registered Prestos, the    *)
(* goroutine that sends a periodic event for each of them over a channel,  *)
(* the controller's goroutines behind that channel, and the work queue.    *)
(* What a reconcile does beyond the map is in PrestoReconciler.            *)
(***************************************************************************)
EXTENDS Naturals, Sequences, FiniteSets

CONSTANTS
  Prestos,      \* names of Prestos
  BufferSize,   \* capacity of the controller's channel of generic events
  MaxChanges,   \* bound on creations and deletions
  MaxFaults     \* bound on reconciles that fail and on crashes

ASSUME DispatchAssumption ==
  /\ IsFiniteSet(Prestos)
  /\ BufferSize \in Nat \ {0}
  /\ MaxChanges \in Nat /\ MaxFaults \in Nat

VARIABLES
  cached,      \* the Prestos in the cache
  events,      \* Prestos with a change the handler has not been told of
  registered,  \* registeredPrestos
  tick,        \* the ticker's channel holds a tick
  range,       \* keys the running Range has still to visit
  sending,     \* the event the goroutine is sending, or no element
  held,        \* the event the controller has received and distributes
  buffer,      \* the controller's channel of generic events
  queue,       \* the work queue, in order
  dirty,       \* Prestos that need a reconcile
  processing,  \* Prestos being reconciled
  delayed,     \* requests to be added again after a failure
  pc,          \* the reconcile: "idle", "get", "found", "missing" or "end"
  budget       \* changes and faults left

watch  == <<cached, events>>
ticker == <<tick, range, sending>>
source == <<held, buffer>>
work   == <<queue, dirty, processing, delayed>>
vars   == <<watch, registered, ticker, source, work, pc, budget>>

Init ==
  /\ cached = {} /\ events = {}
  /\ registered = {}
  /\ tick = FALSE /\ range = {} /\ sending = {}
  /\ held = {} /\ buffer = <<>>
  /\ queue = <<>> /\ dirty = {} /\ processing = {} /\ delayed = {}
  /\ pc = "idle"
  /\ budget = [changes |-> MaxChanges, faults |-> MaxFaults]

---------------------------------------------------------------------------
(***************************************************************************)
(* External: the cache, and the work queue, which holds a request once and *)
(* not while the same request is processed.                                *)
(***************************************************************************)
Change(p) ==
  /\ budget.changes > 0
  /\ cached' = IF p \in cached THEN cached \ {p} ELSE cached \cup {p}
  /\ events' = events \cup {p}
  /\ budget' = [budget EXCEPT !.changes = @ - 1]
  /\ UNCHANGED <<registered, ticker, source, work, pc>>

Add(p) ==
  /\ dirty' = dirty \cup {p}
  /\ queue' = IF p \in dirty \cup processing THEN queue ELSE Append(queue, p)

\* The watch of Prestos passes creations and deletions.
DeliverPresto(p) ==
  /\ p \in events
  /\ events' = events \ {p}
  /\ Add(p)
  /\ UNCHANGED <<cached, registered, ticker, source, processing, delayed, pc, budget>>

AddDelayed(p) ==
  /\ p \in delayed
  /\ delayed' = delayed \ {p}
  /\ Add(p)
  /\ UNCHANGED <<watch, registered, ticker, source, processing, pc, budget>>

---------------------------------------------------------------------------
(***************************************************************************)
(* The goroutine of newReconciler.  Range goes through the keys the map    *)
(* had at its start, skips those deleted meanwhile, and holds no lock      *)
(* while the function sends on the unbuffered channel.                     *)
(***************************************************************************)
Tick ==
  /\ tick' = TRUE      \* a tick that is not taken in time is dropped
  /\ UNCHANGED <<watch, registered, range, sending, source, work, pc, budget>>

StartRange ==
  /\ tick /\ range = {} /\ sending = {}
  /\ tick' = FALSE
  /\ range' = registered
  /\ UNCHANGED <<watch, registered, sending, source, work, pc, budget>>

VisitOnce(p) ==                                                    \* mutant
  /\ p \in range /\ sending = {}
  /\ range' = {}
  /\ sending' = IF p \in registered THEN {p} ELSE {}
  /\ UNCHANGED <<watch, registered, tick, source, work, pc, budget>>

VisitUnchecked(p) ==                                               \* mutant
  /\ p \in range /\ sending = {}
  /\ range' = range \ {p}
  /\ sending' = {p}
  /\ UNCHANGED <<watch, registered, tick, source, work, pc, budget>>

Visit(p) ==
  /\ p \in range /\ sending = {}
  /\ range' = range \ {p}
  /\ sending' = IF p \in registered THEN {p} ELSE {}
  /\ UNCHANGED <<watch, registered, tick, source, work, pc, budget>>

---------------------------------------------------------------------------
(***************************************************************************)
(* The watch of the channel: one goroutine of the controller receives the  *)
(* events and puts them into a bounded channel, another takes them out and *)
(* adds the requests.                                                      *)
(***************************************************************************)
ReceiveNothing == FALSE /\ UNCHANGED vars                          \* mutant
Receive ==
  /\ sending # {} /\ held = {}
  /\ held' = sending /\ sending' = {}
  /\ UNCHANGED <<watch, registered, tick, range, buffer, work, pc, budget>>

Distribute(p) ==
  /\ p \in held
  /\ Len(buffer) < BufferSize
  /\ buffer' = Append(buffer, p) /\ held' = {}
  /\ UNCHANGED <<watch, registered, ticker, work, pc, budget>>

HandleGeneric ==
  /\ buffer # <<>>
  /\ Add(Head(buffer)) /\ buffer' = Tail(buffer)
  /\ UNCHANGED <<watch, registered, ticker, held, processing, delayed, pc, budget>>

---------------------------------------------------------------------------
(***************************************************************************)
(* The one thread that reconciles.                                         *)
(***************************************************************************)
TakeConcurrently ==                                                \* mutant
  /\ queue # <<>>
  /\ processing' = processing \cup {Head(queue)}
  /\ dirty' = dirty \ {Head(queue)} /\ queue' = Tail(queue)
  /\ pc' = "get"
  /\ UNCHANGED <<watch, registered, ticker, source, delayed, budget>>

Take ==
  /\ queue # <<>> /\ processing = {}
  /\ processing' = {Head(queue)}
  /\ dirty' = dirty \ {Head(queue)} /\ queue' = Tail(queue)
  /\ pc' = "get"
  /\ UNCHANGED <<watch, registered, ticker, source, delayed, budget>>

Get(p) ==
  /\ p \in processing /\ pc = "get"
  /\ pc' = IF p \in cached THEN "found" ELSE "missing"
  /\ UNCHANGED <<watch, registered, ticker, source, work, budget>>

IgnoreMissing(p) ==                                                \* mutant
  /\ p \in processing /\ pc = "missing"
  /\ pc' = "end"
  /\ UNCHANGED <<watch, registered, ticker, source, work, budget>>

Unregister(p) ==
  /\ p \in processing /\ pc = "missing"
  /\ registered' = registered \ {p}
  /\ pc' = "end"
  /\ UNCHANGED <<watch, ticker, source, work, budget>>

Register(p) ==
  /\ p \in processing /\ pc = "found"
  /\ registered' = registered \cup {p}
  /\ pc' = "end"
  /\ UNCHANGED <<watch, ticker, source, work, budget>>

\* The request is done; if it was added meanwhile, it is queued again.
Done(p) ==
  /\ processing' = {}
  /\ queue' = IF p \in dirty THEN Append(queue, p) ELSE queue
  /\ pc' = "idle"

RequeueMissing(p) ==                                               \* mutant
  /\ p \in processing /\ pc = "end"
  /\ Done(p)
  /\ delayed' = IF p \in registered THEN delayed ELSE delayed \cup {p}
  /\ UNCHANGED <<watch, registered, ticker, source, dirty, budget>>

ReconcileEnds(p) ==
  /\ p \in processing /\ pc = "end"
  /\ Done(p)
  /\ UNCHANGED <<watch, registered, ticker, source, dirty, delayed, budget>>

\* Get fails, or a stage does: the request is added again later.
ReconcileFails(p) ==
  /\ p \in processing
  /\ pc = "get" \/ (pc = "end" /\ p \in registered)
  /\ budget.faults > 0
  /\ budget' = [budget EXCEPT !.faults = @ - 1]
  /\ delayed' = delayed \cup {p}
  /\ Done(p)
  /\ UNCHANGED <<watch, registered, ticker, source, dirty>>

\* A crash loses the memory; the new process is told of every Presto.
Crash ==
  /\ budget.faults > 0
  /\ budget' = [budget EXCEPT !.faults = @ - 1]
  /\ registered' = {} /\ tick' = FALSE /\ range' = {} /\ sending' = {}
  /\ held' = {} /\ buffer' = <<>>
  /\ queue' = <<>> /\ dirty' = {} /\ processing' = {} /\ delayed' = {}
  /\ pc' = "idle"
  /\ events' = cached
  /\ UNCHANGED cached

Reconcile(p) == Get(p) \/ Unregister(p) \/ Register(p) \/ ReconcileEnds(p) \/ ReconcileFails(p)

Next ==
  \/ \E p \in Prestos : Change(p) \/ DeliverPresto(p) \/ AddDelayed(p)
  \/ Tick \/ StartRange \/ (\E p \in Prestos : Visit(p))
  \/ Receive \/ (\E p \in Prestos : Distribute(p)) \/ HandleGeneric
  \/ Take \/ (\E p \in Prestos : Reconcile(p))
  \/ Crash

Spec == Init /\ [][Next]_vars

(***************************************************************************)
(* Each goroutine takes its next step, the ticker ticks, and the informer  *)
(* tells of every change.                                                  *)
(***************************************************************************)
Fairness ==
  /\ WF_vars(\E p \in Prestos : DeliverPresto(p))
  /\ WF_vars(\E p \in Prestos : AddDelayed(p))
  /\ WF_vars(Tick)
  /\ WF_vars(StartRange \/ \E p \in Prestos : Visit(p))
  /\ WF_vars(Receive \/ \E p \in Prestos : Distribute(p))
  /\ WF_vars(HandleGeneric)
  /\ WF_vars(Take \/ \E p \in Prestos : Reconcile(p))

FairSpec == Spec /\ Fairness

---------------------------------------------------------------------------
(***************************************************************************)
(* Properties.                                                             *)
(***************************************************************************)
In(s, p)   == \E i \in DOMAIN s : s[i] = p
InQueue(p) == In(queue, p)

\* At most one reconcile runs (MaxConcurrentReconciles in add).
TypeOK ==
  /\ cached \subseteq Prestos /\ events \subseteq Prestos
  /\ registered \subseteq Prestos
  /\ tick \in BOOLEAN /\ range \subseteq Prestos
  /\ sending \subseteq Prestos /\ held \subseteq Prestos
  /\ buffer \in Seq(Prestos) /\ Len(buffer) <= BufferSize
  /\ queue \in Seq(Prestos)
  /\ dirty \subseteq Prestos /\ delayed \subseteq Prestos
  /\ processing \subseteq Prestos
  /\ \A p, q \in processing : p = q
  /\ pc \in {"idle", "get", "found", "missing", "end"}
  /\ budget \in [changes : Nat, faults : Nat]

\* A request for p that will read the cache as it is now, or has.
OnItsWay(p) ==
  \/ p \in events \cup delayed
  \/ InQueue(p)
  \/ /\ p \in processing
     /\ \/ p \in dirty \/ pc = "get"
        \/ pc = "found" /\ p \in cached
        \/ pc = "missing" /\ p \notin cached

\* Whenever the map does not hold exactly the Prestos of the cache, a request
\* that will correct it is on its way: no creation or deletion is overlooked,
\* whatever the thread, the goroutines and the failures do in between
\* (Reconcile's Store and Delete).
NoLostRequest == \A p \in Prestos : (p \in cached) # (p \in registered) => OnItsWay(p)

\* Neither the map nor any event or request on its way is about p.
Forgotten(p) ==
  /\ p \notin cached \cup registered \cup events \cup delayed
  /\ p \notin sending \cup held \cup dirty \cup processing
  /\ ~InQueue(p) /\ ~In(buffer, p)

\* Once a deleted Presto is forgotten, nothing but its creation brings it back:
\* not the key that the running Range has copied from the map before the deletion
\* (the goroutine of newReconciler), and no restart.
NoRevival ==
  [][ \A p \in Prestos : Forgotten(p) /\ p \notin cached' => Forgotten(p)' ]_vars

\* Every Presto that stays is reconciled again and again, however many there
\* are and however full the channel is (the goroutine of newReconciler).
EveryPrestoReconciled ==
  \A p \in Prestos : <>[](p \in cached) => []<>(p \in processing)

\* A Presto that stays away is reconciled only finitely often: its periodic
\* events end.
DeletedPrestoForgotten ==
  \A p \in Prestos : <>[](p \notin cached) => <>[](p \notin processing)

\* The send on the unbuffered channel inside Range never blocks for ever.
SendsGetThrough == sending # {} ~> sending = {}

=============================================================================
