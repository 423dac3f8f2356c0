--------------------------- MODULE BusSubscriber ---------------------------
(***************************************************************************)
(* The way of an event through Redis (backend/eventbus_shadow.py,          *)
(* eventbus_subscriber.py, eventbus_elastic.py, eventbus_authoritative.py).*)
(* Every emit is copied to a stream. While the event's type is marked      *)
(* authoritative the emitting process leaves the handlers to whichever     *)
(* process reads the entry; else it queues them for its own workers (see   *)
(* EventBus) and the readers acknowledge the entry unread, as they do when *)
(* the type is marked as handled by the Go bus. Other entries go from the  *)
(* consume loop through a bounded queue to a pool of workers that grows    *)
(* with the queue and shrinks when it stays empty. One type of event and   *)
(* one stream are kept.                                                    *)
(***************************************************************************)
EXTENDS Integers, FiniteSets, Sequences, SequencesExt

CONSTANTS
  Procs,              \* backend processes, each with a subscriber
  NEvents,            \* bound: events emitted
  Batch,              \* DORIAN_EVENTBUS_BATCH
  QCap,               \* DORIAN_EVENTBUS_SUB_QCAP_PER_TYPE
  MinWorkers, MaxWorkers, ScaleUpAt,   \* sizing of the elastic pool
  MaxToggles,         \* bound: changes of the two marks
  MaxRetires,         \* bound: workers retired
  MaxFaults           \* bound: crashes, stops, drops and failed Redis commands

Events == 1..NEvents
None == 0

ASSUME ConstantsAssumption ==
  /\ NEvents \in Nat /\ Batch \in Nat \ {0} /\ QCap \in Nat \ {0} /\ IsFiniteSet(Procs)
  /\ MinWorkers \in Nat \ {0} /\ MaxWorkers \in Nat /\ MinWorkers <= MaxWorkers
  /\ ScaleUpAt \in Nat \ {0} /\ MaxToggles \in Nat /\ MaxRetires \in Nat /\ MaxFaults \in Nat

VARIABLES
  auth, go,   \* the Redis sets of authoritative and of Go-handled types hold the type
  snap, goSnap,     \* each process's snapshots of that
  emitted,    \* events emitted
  local,      \* events whose handlers the emitting process has queued or runs
  lost,       \* history: events whose handlers it discarded
  sending,    \* XADD tasks of each process
  stream, cursor,   \* entries, and how many of them the group has read
  pending,    \* events read and not acknowledged
  batch,      \* entries the consume loop of each process has yet to look at
  offered,    \* the entry it waits to put into the queue
  queue,
  pool,       \* the workers of each process, in the order of their start
  dying,      \* entries whose worker was cancelled and sends a last XACK
  up,
  runs,       \* how often the handlers of each event ran to their end
  emittedAs, readAs,   \* history: TRUE if left to the readers, and if taken by one
  cut,        \* history: events whose worker was cancelled while it handled them
  toggles, retires, faults

vars == <<auth, go, snap, goSnap, emitted, local, lost, sending, stream, cursor, pending, batch,
          offered, queue, pool, dying, up, runs, emittedAs, readAs, cut, toggles, retires, faults>>
marks == <<auth, go, snap, goSnap, toggles>>
sent == <<emitted, emittedAs>>
own == <<local, lost>>
memory == <<batch, offered, queue, pool, dying>>

IdleWorker == [at |-> "get", ev |-> None]
FreshPool == [k \in 1..MinWorkers |-> IdleWorker]

TypeOK ==
  /\ auth \in BOOLEAN /\ snap \in [Procs -> BOOLEAN] /\ up \in [Procs -> BOOLEAN]
  /\ go \in BOOLEAN /\ goSnap \in [Procs -> BOOLEAN]
  /\ local \in [Procs -> SUBSET Events] /\ lost \subseteq Events
  /\ emitted \in 0..NEvents /\ sending \in [Procs -> SUBSET Events]
  /\ stream \in Seq(Events) /\ cursor \in 0..Len(stream) /\ pending \subseteq Events
  /\ batch \in [Procs -> Seq(Events)] /\ offered \in [Procs -> Events \cup {None}]
  /\ queue \in [Procs -> Seq(Events)] /\ \A p \in Procs : Len(queue[p]) <= QCap
  /\ pool \in [Procs -> Seq([at : {"get", "run", "ack"}, ev : Events \cup {None}])]
  /\ \A p \in Procs : up[p] => Len(pool[p]) \in MinWorkers..MaxWorkers
  /\ dying \in [Procs -> SUBSET Events]
  /\ runs \in [Events -> Nat] /\ cut \subseteq Events
  /\ emittedAs \in [Events -> BOOLEAN] /\ readAs \in [Events -> BOOLEAN]
  /\ toggles \in 0..MaxToggles /\ retires \in 0..MaxRetires /\ faults \in 0..MaxFaults

Init ==
  /\ auth \in BOOLEAN /\ snap = [p \in Procs |-> auth]
  /\ go \in BOOLEAN /\ goSnap = [p \in Procs |-> go]
  /\ local = [p \in Procs |-> {}] /\ lost = {}
  /\ emitted = 0 /\ sending = [p \in Procs |-> {}]
  /\ stream = <<>> /\ cursor = 0 /\ pending = {}
  /\ batch = [p \in Procs |-> <<>>] /\ offered = [p \in Procs |-> None]
  /\ queue = [p \in Procs |-> <<>>] /\ pool = [p \in Procs |-> FreshPool]
  /\ dying = [p \in Procs |-> {}] /\ up = [p \in Procs |-> TRUE]
  /\ runs = [e \in Events |-> 0]
  /\ emittedAs = [e \in Events |-> FALSE] /\ readAs = [e \in Events |-> FALSE]
  /\ cut = {} /\ toggles = 0 /\ retires = 0 /\ faults = 0

-----------------------------------------------------------------------------
(* The marks and their snapshots *)

\* add() and remove() of eventbus_authoritative and of eventbus_go_handled.
Toggle ==
  /\ toggles < MaxToggles /\ toggles' = toggles + 1
  /\ (auth' = ~auth /\ go' = go) \/ (auth' = auth /\ go' = ~go)
  /\ UNCHANGED <<snap, goSnap, sent, own, sending, stream, cursor, pending, memory, up, runs,
                 readAs, cut, retires, faults>>

\* _refresh_once, by the admin call or by the loop; a failed read keeps the snapshot.
Refresh(p) ==
  /\ up[p] /\ snap[p] # auth /\ snap' = [snap EXCEPT ![p] = auth]
  /\ UNCHANGED <<auth, go, goSnap, toggles, sent, own, sending, stream, cursor, pending, memory,
                 up, runs, readAs, cut, retires, faults>>

RefreshGo(p) ==
  /\ up[p] /\ goSnap[p] # go /\ goSnap' = [goSnap EXCEPT ![p] = go]
  /\ UNCHANGED <<auth, go, snap, toggles, sent, own, sending, stream, cursor, pending, memory,
                 up, runs, readAs, cut, retires, faults>>

-----------------------------------------------------------------------------
(* Emitting *)

\* The emitting process copies the event and queues its handlers in every case (faulty).
EmitBoth(p) ==
  /\ up[p] /\ emitted < NEvents /\ emitted' = emitted + 1
  /\ sending' = [sending EXCEPT ![p] = @ \cup {emitted'}]
  /\ emittedAs' = [emittedAs EXCEPT ![emitted'] = snap[p]]
  /\ local' = [local EXCEPT ![p] = @ \cup {emitted'}]
  /\ UNCHANGED <<marks, lost, stream, cursor, pending, memory, up, runs, readAs, cut, retires,
                 faults>>

\* _shadow_one, then the handlers are queued, unless a snapshot has the type marked: aemit
\* asks for authoritative types only, aemit_bg also for those handled by Go.
Emit(p) ==
  /\ up[p] /\ emitted < NEvents /\ emitted' = emitted + 1
  /\ sending' = [sending EXCEPT ![p] = @ \cup {emitted'}]
  /\ \E left \in {snap[p], snap[p] \/ goSnap[p]} :
       /\ emittedAs' = [emittedAs EXCEPT ![emitted'] = left]
       /\ local' = IF left THEN local ELSE [local EXCEPT ![p] = @ \cup {emitted'}]
  /\ UNCHANGED <<marks, lost, stream, cursor, pending, memory, up, runs, readAs, cut, retires,
                 faults>>

\* The process's workers have run the handlers.
LocalHandle(p, e) ==
  /\ e \in local[p] /\ local' = [local EXCEPT ![p] = @ \ {e}]
  /\ runs' = [runs EXCEPT ![e] = @ + 1]
  /\ UNCHANGED <<marks, sent, lost, sending, stream, cursor, pending, memory, up, readAs, cut,
                 retires, faults>>

\* They are discarded: by a full background queue, or with the caller of aemit.
LocalDrop(p, e) ==
  /\ e \in local[p] /\ faults < MaxFaults /\ faults' = faults + 1
  /\ local' = [local EXCEPT ![p] = @ \ {e}] /\ lost' = lost \cup {e}
  /\ UNCHANGED <<marks, sent, sending, stream, cursor, pending, memory, up, runs, readAs, cut,
                 retires>>

\* The XADD task of an event ends; tasks may end in another order than they began.
Xadd(p, e) ==
  /\ e \in sending[p] /\ sending' = [sending EXCEPT ![p] = @ \ {e}]
  /\ stream' = Append(stream, e)
  /\ UNCHANGED <<marks, sent, own, cursor, pending, memory, up, runs, readAs, cut, retires,
                 faults>>

\* It fails or takes longer than its timeout: counted, and forgotten.
XaddFails(p, e) ==
  /\ e \in sending[p] /\ faults < MaxFaults /\ faults' = faults + 1
  /\ sending' = [sending EXCEPT ![p] = @ \ {e}]
  /\ UNCHANGED <<marks, sent, own, stream, cursor, pending, memory, up, runs, readAs, cut,
                 retires>>

-----------------------------------------------------------------------------
(* The consume loop *)

\* XREADGROUP of fresh entries, once the last batch is worked off.
Read(p) ==
  /\ up[p] /\ batch[p] = <<>> /\ offered[p] = None /\ cursor < Len(stream)
  /\ LET n == IF cursor + Batch <= Len(stream) THEN cursor + Batch ELSE Len(stream)
         fresh == SubSeq(stream, cursor + 1, n)
     IN /\ cursor' = n /\ batch' = [batch EXCEPT ![p] = fresh]
        /\ pending' = pending \cup ToSet(fresh)
  /\ UNCHANGED <<marks, sent, own, sending, stream, offered, queue, pool, dying, up, runs,
                 readAs, cut, retires, faults>>

\* _handle_entry takes an entry of an authoritative type that Go does not handle.
Taken(p) == snap[p] /\ ~goSnap[p]

\* Another is acknowledged, as its handlers are run where it was emitted, or by Go; if the
\* XACK fails, _safe_xack only logs it ...
SkipEntry(p) ==
  /\ batch[p] # <<>> /\ offered[p] = None /\ ~Taken(p)
  /\ batch' = [batch EXCEPT ![p] = Tail(@)]
  /\ readAs' = [readAs EXCEPT ![Head(batch[p])] = FALSE]
  /\ \/ pending' = pending \ {Head(batch[p])} /\ faults' = faults
     \/ pending' = pending /\ faults < MaxFaults /\ faults' = faults + 1
  /\ UNCHANGED <<marks, sent, own, sending, stream, cursor, offered, queue, pool, dying, up,
                 runs, cut, retires>>

\* An entry is acknowledged as soon as it is taken (faulty).
TakeEntryAndAck(p) ==
  /\ batch[p] # <<>> /\ offered[p] = None /\ Taken(p)
  /\ batch' = [batch EXCEPT ![p] = Tail(@)]
  /\ readAs' = [readAs EXCEPT ![Head(batch[p])] = TRUE]
  /\ offered' = [offered EXCEPT ![p] = Head(batch[p])]
  /\ pending' = pending \ {Head(batch[p])}
  /\ UNCHANGED <<marks, sent, own, sending, stream, cursor, queue, pool, dying, up, runs, cut,
                 retires, faults>>

\* ... the entry taken is offered to the pool ...
TakeEntry(p) ==
  /\ batch[p] # <<>> /\ offered[p] = None /\ Taken(p)
  /\ batch' = [batch EXCEPT ![p] = Tail(@)]
  /\ readAs' = [readAs EXCEPT ![Head(batch[p])] = TRUE]
  /\ offered' = [offered EXCEPT ![p] = Head(batch[p])]
  /\ UNCHANGED <<marks, sent, own, sending, stream, cursor, pending, queue, pool, dying, up,
                 runs, cut, retires, faults>>

\* An entry is dropped when the queue is full (faulty).
PutOrDrop(p) ==
  /\ offered[p] # None
  /\ queue' = IF Len(queue[p]) < QCap THEN [queue EXCEPT ![p] = Append(@, offered[p])] ELSE queue
  /\ offered' = [offered EXCEPT ![p] = None]
  /\ UNCHANGED <<marks, sent, own, sending, stream, cursor, pending, batch, pool, dying, up,
                 runs, readAs, cut, retires, faults>>

\* ... and the loop waits until the queue has room for it.
PutEntry(p) ==
  /\ offered[p] # None /\ Len(queue[p]) < QCap
  /\ queue' = [queue EXCEPT ![p] = Append(@, offered[p])]
  /\ offered' = [offered EXCEPT ![p] = None]
  /\ UNCHANGED <<marks, sent, own, sending, stream, cursor, pending, batch, pool, dying, up,
                 runs, readAs, cut, retires, faults>>

-----------------------------------------------------------------------------
(* The workers of a type *)

Become(p, k, at, e) == pool' = [pool EXCEPT ![p][k] = [at |-> at, ev |-> e]]

StartHandlers(p, k) ==
  /\ k \in DOMAIN pool[p] /\ pool[p][k].at = "get" /\ queue[p] # <<>>
  /\ queue' = [queue EXCEPT ![p] = Tail(@)] /\ Become(p, k, "run", Head(queue[p]))
  /\ UNCHANGED <<marks, sent, own, sending, stream, cursor, pending, batch, offered, dying, up,
                 runs, readAs, cut, retires, faults>>

\* The handlers return or raise.
EndHandlers(p, k) ==
  /\ k \in DOMAIN pool[p] /\ pool[p][k].at = "run"
  /\ runs' = [runs EXCEPT ![pool[p][k].ev] = @ + 1] /\ Become(p, k, "ack", pool[p][k].ev)
  /\ UNCHANGED <<marks, sent, own, sending, stream, cursor, pending, batch, offered, queue,
                 dying, up, readAs, cut, retires, faults>>

Ack(p, k) ==
  /\ k \in DOMAIN pool[p] /\ pool[p][k].at = "ack"
  /\ pending' = pending \ {pool[p][k].ev} /\ Become(p, k, "get", None)
  /\ UNCHANGED <<marks, sent, own, sending, stream, cursor, batch, offered, queue, dying, up,
                 runs, readAs, cut, retires, faults>>

\* _safe_xack only logs a failure.
AckFails(p, k) ==
  /\ k \in DOMAIN pool[p] /\ pool[p][k].at = "ack" /\ faults < MaxFaults
  /\ faults' = faults + 1 /\ Become(p, k, "get", None)
  /\ UNCHANGED <<marks, sent, own, sending, stream, cursor, pending, batch, offered, queue,
                 dying, up, runs, readAs, cut, retires>>

\* The pool grows past its limit (faulty).
ScaleUpUnbounded(p) ==
  /\ up[p] /\ Len(queue[p]) >= ScaleUpAt /\ Len(pool[p]) <= MaxWorkers
  /\ pool' = [pool EXCEPT ![p] = Append(@, IdleWorker)]
  /\ UNCHANGED <<marks, sent, own, sending, stream, cursor, pending, batch, offered, queue,
                 dying, up, runs, readAs, cut, retires, faults>>

\* The scaler saw the queue long for a while.
ScaleUp(p) ==
  /\ up[p] /\ Len(queue[p]) >= ScaleUpAt /\ Len(pool[p]) < MaxWorkers
  /\ pool' = [pool EXCEPT ![p] = Append(@, IdleWorker)]
  /\ UNCHANGED <<marks, sent, own, sending, stream, cursor, pending, batch, offered, queue,
                 dying, up, runs, readAs, cut, retires, faults>>

\* The scaler saw the queue empty for a while: the youngest worker is cancelled, whatever
\* it does. In its handlers, the finally clause acknowledges the entry; in XACK, nothing.
Retire(p) ==
  LET last == pool[p][Len(pool[p])]
  IN /\ up[p] /\ queue[p] = <<>> /\ Len(pool[p]) > MinWorkers /\ retires < MaxRetires
     /\ pool' = [pool EXCEPT ![p] = Front(@)] /\ retires' = retires + 1
     /\ dying' = [dying EXCEPT ![p] = @ \cup (IF last.at = "run" THEN {last.ev} ELSE {})]
     /\ cut' = cut \cup ({last.ev} \ {None})
     /\ UNCHANGED <<marks, sent, own, sending, stream, cursor, pending, batch, offered, queue,
                    up, runs, readAs, faults>>

LastAck(p, e) ==
  /\ e \in dying[p] /\ dying' = [dying EXCEPT ![p] = @ \ {e}] /\ pending' = pending \ {e}
  /\ UNCHANGED <<marks, sent, own, sending, stream, cursor, batch, offered, queue, pool, up,
                 runs, readAs, cut, retires, faults>>

-----------------------------------------------------------------------------
(* Stop, crash, start *)

InHandlers(p) == {pool[p][k].ev : k \in {k \in DOMAIN pool[p] : pool[p][k].at = "run"}}
Busy(p) == {pool[p][k].ev : k \in DOMAIN pool[p]} \ {None}

Forget(p) ==
  /\ batch' = [batch EXCEPT ![p] = <<>>] /\ offered' = [offered EXCEPT ![p] = None]
  /\ queue' = [queue EXCEPT ![p] = <<>>] /\ pool' = [pool EXCEPT ![p] = <<>>]
  /\ local' = [local EXCEPT ![p] = {}] /\ lost' = lost \cup local[p]
  /\ up' = [up EXCEPT ![p] = FALSE] /\ faults' = faults + 1

\* stop_workers: what the process's own workers have not run is discarded, the loops and the
\* pools of workers are cancelled, their queues cleared.
Stop(p) ==
  /\ up[p] /\ faults < MaxFaults /\ Forget(p)
  /\ dying' = [dying EXCEPT ![p] = @ \cup InHandlers(p)] /\ cut' = cut \cup Busy(p)
  /\ UNCHANGED <<marks, sent, sending, stream, cursor, pending, runs, readAs, retires>>

Crash(p) ==
  /\ up[p] /\ faults < MaxFaults /\ Forget(p)
  /\ dying' = [dying EXCEPT ![p] = {}] /\ sending' = [sending EXCEPT ![p] = {}]
  /\ UNCHANGED <<marks, sent, stream, cursor, pending, runs, readAs, cut, retires>>

\* The new process reads fresh entries, under a consumer name of its own.
Start(p) ==
  /\ ~up[p] /\ dying[p] = {} /\ up' = [up EXCEPT ![p] = TRUE]
  /\ pool' = [pool EXCEPT ![p] = FreshPool]
  /\ snap' = [snap EXCEPT ![p] = auth] /\ goSnap' = [goSnap EXCEPT ![p] = go]
  /\ UNCHANGED <<auth, go, toggles, sent, own, sending, stream, cursor, pending, batch, offered,
                 queue, dying, runs, readAs, cut, retires, faults>>

-----------------------------------------------------------------------------
Loop(p) == Read(p) \/ SkipEntry(p) \/ TakeEntry(p) \/ PutEntry(p)
Work(p, k) == StartHandlers(p, k) \/ EndHandlers(p, k) \/ Ack(p, k)
WorkerIds == 1..MaxWorkers

Next ==
  \/ Toggle
  \/ \E p \in Procs :
       \/ Refresh(p) \/ RefreshGo(p) \/ Emit(p) \/ Loop(p) \/ ScaleUp(p) \/ Retire(p)
       \/ \E e \in Events : \/ LocalHandle(p, e) \/ LocalDrop(p, e)
                            \/ Xadd(p, e) \/ XaddFails(p, e) \/ LastAck(p, e)
       \/ \E k \in WorkerIds : Work(p, k) \/ AckFails(p, k)
       \/ Stop(p) \/ Crash(p) \/ Start(p)

\* XADD tasks end, loops and workers go on, handlers return, and a stopped process is started
\* again.
Fairness ==
  \A p \in Procs :
    /\ \A e \in Events : /\ WF_vars(Xadd(p, e)) /\ WF_vars(LastAck(p, e))
                         /\ WF_vars(LocalHandle(p, e))
    /\ \A k \in WorkerIds : WF_vars(Work(p, k))
    /\ WF_vars(Loop(p)) /\ WF_vars(Start(p))

Spec == Init /\ [][Next]_vars
FairSpec == Spec /\ Fairness

-----------------------------------------------------------------------------
(* Properties *)

Acked == ToSet(SubSeq(stream, 1, cursor)) \ pending
\* Its emitter left the event to the readers, and its reader did not take it: the type's
\* mark changed in between, or Go handles the type.
Skipped(e) == emittedAs[e] /\ ~readAs[e]

\* An event's handlers run at most once on each of the two routes, through crashes and
\* restarts: nothing is redelivered, and only an event emitted unmarked and read marked
\* runs on both.
AtMostOncePerRoute ==
  \A e \in Events : runs[e] <= 1 + (IF ~emittedAs[e] /\ readAs[e] THEN 1 ELSE 0)

\* An acknowledged event that was left to the readers has been handled, through crashes and
\* failures too, unless it was skipped or its worker was cancelled by the scaler or a stop.
\* One that was not has been handled, or waits for the workers of its emitter, or was
\* discarded there: its entry may be acknowledged elsewhere before its handlers are run.
AckedIsHandled ==
  \A e \in Acked :
    \/ runs[e] >= 1
    \/ emittedAs[e] /\ (e \in cut \/ Skipped(e))
    \/ ~emittedAs[e] /\ (e \in lost \/ \E p \in Procs : e \in local[p])

\* Absent faults, a pending entry is in the memory of the process that read it: the group
\* never reads it again (XREADGROUP with ">" only).
PendingIsHeld ==
  faults = 0 => \A e \in pending : e \in cut \/ \E p \in Procs :
    e \in ToSet(batch[p]) \cup {offered[p]} \cup ToSet(queue[p]) \cup Busy(p) \cup dying[p]

\* With fair scheduling an emitted event is handled in the end, whatever the sizes of queue,
\* batch and pool, but for a fault, a changed mark, a cancelled worker or a type left to Go.
EventsAreHandled ==
  \A e \in Events :
    (emitted >= e) ~> (runs[e] >= 1 \/ faults > 0 \/ toggles > 0 \/ e \in cut \/ go)
=============================================================================
