------------------------------ MODULE EventBus ------------------------------
(***************************************************************************)
(* The in-process event bus (backend/events.py): a user queue and a        *)
(* background queue, a pool of asyncio workers some of which are reserved  *)
(* for the user queue, emitters that wait for the handlers (aemit) or do   *)
(* not (aemit_bg), and a stop that sends each worker a sentinel and then   *)
(* discards what is left. An item is one call of a handler. One action is  *)
(* what a task does between two awaits.                                    *)
(***************************************************************************)
EXTENDS Integers, FiniteSets, Sequences, SequencesExt

CONSTANTS
  Items,              \* handler calls that may be asked for
  Lane,               \* "user", or "bg" for the events of RL runs (_is_rl_event)
  Parent,             \* the item whose handler emits it, or Nobody
  Awaited,            \* items emitted by aemit; the others are emitted by aemit_bg
  Nobody, Sentinel,
  Workers, Reserved,  \* the pool and its reserved_user_workers
  UserCap, BgCap,     \* capacities of the queues
  MaxStarts           \* bound: starts of the pool

ASSUME ConstantsAssumption ==
  /\ Lane \in [Items -> {"user", "bg"}] /\ Parent \in [Items -> Items \cup {Nobody}]
  /\ Nobody \notin Items /\ Sentinel \notin Items /\ Nobody # Sentinel
  /\ Awaited \subseteq Items
  /\ Reserved \subseteq Workers /\ IsFiniteSet(Workers) /\ IsFiniteSet(Items)
  /\ UserCap \in Nat \ {0} /\ BgCap \in Nat \ {0} /\ MaxStarts \in Nat

VARIABLES
  pool,      \* "down" (the queues are None), "up", or "stopping"
  userQ, bgQ,
  call,      \* where each item is; "putting" waits for room in the user queue
  stranded,  \* items put into a queue of which the pool is gone
  at,        \* where each worker is
  gotUser, gotBg,  \* what the two get() tasks of a selecting worker have returned
  item,      \* the item a worker runs
  sentinels, \* sentinels stop_workers has yet to put
  starts

vars == <<pool, userQ, bgQ, call, stranded, at, gotUser, gotBg, item, sentinels, starts>>
workers == <<at, gotUser, gotBg, item>>

Settled == {"handled", "dropped"}
CallStates == {"new", "putting", "queued", "running", "direct"} \cup Settled

TypeOK ==
  /\ pool \in {"down", "up", "stopping"}
  /\ userQ \in Seq(Items \cup {Sentinel}) /\ Len(userQ) <= UserCap
  /\ bgQ \in Seq(Items) /\ Len(bgQ) <= BgCap
  /\ call \in [Items -> CallStates] /\ stranded \subseteq Items
  /\ at \in [Workers -> {"loop", "select", "run", "exited"}]
  /\ gotUser \in [Workers -> Items \cup {Nobody, Sentinel}]
  /\ gotBg \in [Workers -> Items \cup {Nobody}]
  /\ item \in [Workers -> Items \cup {Nobody}]
  /\ sentinels \in 0..Cardinality(Workers) /\ starts \in 0..MaxStarts

Init ==
  /\ pool = "down" /\ userQ = <<>> /\ bgQ = <<>>
  /\ call = [i \in Items |-> "new"] /\ stranded = {}
  /\ at = [w \in Workers |-> "exited"]
  /\ gotUser = [w \in Workers |-> Nobody] /\ gotBg = [w \in Workers |-> Nobody]
  /\ item = [w \in Workers |-> Nobody]
  /\ sentinels = 0 /\ starts = 0

ItemsOf(q) == ToSet(q) \ {Sentinel}

-----------------------------------------------------------------------------
(* Emitting *)

\* A task outside the pool may emit at any time, a handler while it runs.
MayEmit(i) ==
  /\ call[i] = "new"
  /\ Parent[i] # Nobody => \E w \in Workers : at[w] = "run" /\ item[w] = Parent[i]

\* No pool: the emitter calls the handler itself (aemit), or spawns a task (aemit_bg).
EmitDirect(i) ==
  /\ MayEmit(i) /\ pool = "down"
  /\ call' = [call EXCEPT ![i] = "direct"]
  /\ UNCHANGED <<pool, userQ, bgQ, stranded, workers, sentinels, starts>>

EmitUser(i) ==
  /\ MayEmit(i) /\ pool # "down" /\ Lane[i] = "user" /\ Len(userQ) < UserCap
  /\ userQ' = Append(userQ, i) /\ call' = [call EXCEPT ![i] = "queued"]
  /\ UNCHANGED <<pool, bgQ, stranded, workers, sentinels, starts>>

\* The user queue is full: the call is given up (faulty).
EmitUserFullDrops(i) ==
  /\ MayEmit(i) /\ pool # "down" /\ Lane[i] = "user" /\ Len(userQ) = UserCap
  /\ call' = [call EXCEPT ![i] = IF i \in Awaited THEN "putting" ELSE "dropped"]
  /\ UNCHANGED <<pool, userQ, bgQ, stranded, workers, sentinels, starts>>

\* The user queue is full: aemit waits for room, aemit_bg runs the handler in a task.
EmitUserFull(i) ==
  /\ MayEmit(i) /\ pool # "down" /\ Lane[i] = "user" /\ Len(userQ) = UserCap
  /\ call' = [call EXCEPT ![i] = IF i \in Awaited THEN "putting" ELSE "direct"]
  /\ UNCHANGED <<pool, userQ, bgQ, stranded, workers, sentinels, starts>>

\* A blocked put() finds room. Its queue is the one it was called on.
PutBlocked(i) ==
  /\ call[i] = "putting" /\ i \notin stranded /\ Len(userQ) < UserCap
  /\ userQ' = Append(userQ, i) /\ call' = [call EXCEPT ![i] = "queued"]
  /\ UNCHANGED <<pool, bgQ, stranded, workers, sentinels, starts>>

\* The caller of aemit is cancelled while put() waits for room: the item is given up. Nobody
\* cancels the workers, and a caller cancelled later leaves the item in its queue.
CancelPut(i) ==
  /\ call[i] = "putting" /\ Parent[i] = Nobody
  /\ call' = [call EXCEPT ![i] = "dropped"]
  /\ UNCHANGED <<pool, userQ, bgQ, stranded, workers, sentinels, starts>>

\* _bg_put_drop_oldest: on overflow the oldest item is dropped and its waiter released.
PutDropOldest(i) ==
  /\ bgQ' = Append(IF Len(bgQ) < BgCap THEN bgQ ELSE Tail(bgQ), i)
  /\ call' = IF Len(bgQ) < BgCap THEN [call EXCEPT ![i] = "queued"]
             ELSE [call EXCEPT ![Head(bgQ)] = "dropped", ![i] = "queued"]

EmitBg(i) ==
  /\ MayEmit(i) /\ pool # "down" /\ Lane[i] = "bg" /\ PutDropOldest(i)
  /\ UNCHANGED <<pool, userQ, stranded, workers, sentinels, starts>>

RunDirect(i) ==
  /\ call[i] = "direct" /\ call' = [call EXCEPT ![i] = "handled"]
  /\ UNCHANGED <<pool, userQ, bgQ, stranded, workers, sentinels, starts>>

-----------------------------------------------------------------------------
(* Workers *)

\* What a worker does with the item it got: run it, or leave on a sentinel.
Take(w, i) ==
  /\ at' = [at EXCEPT ![w] = IF i = Sentinel THEN "exited" ELSE "run"]
  /\ item' = [item EXCEPT ![w] = IF i = Sentinel THEN Nobody ELSE i]
Started(i, c) == IF i = Sentinel THEN c ELSE [c EXCEPT ![i] = "running"]

\* A reserved worker waits for the user queue; a general one looks there first.
GetUser(w) ==
  /\ at[w] = "loop" /\ userQ # <<>>
  /\ userQ' = Tail(userQ) /\ Take(w, Head(userQ)) /\ call' = Started(Head(userQ), call)
  /\ UNCHANGED <<pool, bgQ, stranded, gotUser, gotBg, sentinels, starts>>

\* Every worker takes part in the race for both queues (faulty).
SelectAny(w) ==
  /\ at[w] = "loop" /\ userQ = <<>>
  /\ at' = [at EXCEPT ![w] = "select"]
  /\ UNCHANGED <<pool, userQ, bgQ, call, stranded, gotUser, gotBg, item, sentinels, starts>>

\* A general worker that finds the user queue empty waits on both.
Select(w) ==
  /\ at[w] = "loop" /\ w \notin Reserved /\ userQ = <<>>
  /\ at' = [at EXCEPT ![w] = "select"]
  /\ UNCHANGED <<pool, userQ, bgQ, call, stranded, gotUser, gotBg, item, sentinels, starts>>

UserArrives(w) ==
  /\ at[w] = "select" /\ gotUser[w] = Nobody /\ userQ # <<>>
  /\ gotUser' = [gotUser EXCEPT ![w] = Head(userQ)] /\ userQ' = Tail(userQ)
  /\ UNCHANGED <<pool, bgQ, call, stranded, at, gotBg, item, sentinels, starts>>

BgArrives(w) ==
  /\ at[w] = "select" /\ gotBg[w] = Nobody /\ bgQ # <<>>
  /\ gotBg' = [gotBg EXCEPT ![w] = Head(bgQ)] /\ bgQ' = Tail(bgQ)
  /\ UNCHANGED <<pool, userQ, call, stranded, at, gotUser, item, sentinels, starts>>

\* The worker wakes after one get() has returned - by then perhaps both have.
WakeForBg(w) ==
  /\ at[w] = "select" /\ gotUser[w] = Nobody /\ gotBg[w] # Nobody
  /\ Take(w, gotBg[w]) /\ call' = Started(gotBg[w], call)
  /\ gotBg' = [gotBg EXCEPT ![w] = Nobody]
  /\ UNCHANGED <<pool, userQ, bgQ, stranded, gotUser, sentinels, starts>>

\* The background item is not put back (faulty).
PutBackNot(w) ==
  /\ bgQ' = bgQ /\ call' = Started(gotUser[w], call)

\* The background item goes back to the tail; if the queue has filled up, it is dropped.
PutBack(w) ==
  IF gotBg[w] = Nobody THEN bgQ' = bgQ /\ call' = Started(gotUser[w], call)
  ELSE IF Len(bgQ) < BgCap
  THEN bgQ' = Append(bgQ, gotBg[w]) /\ call' = Started(gotUser[w], call)
  ELSE bgQ' = bgQ /\ call' = Started(gotUser[w], [call EXCEPT ![gotBg[w]] = "dropped"])

WakeForUser(w) ==
  /\ at[w] = "select" /\ gotUser[w] # Nobody
  /\ Take(w, gotUser[w]) /\ PutBack(w)
  /\ gotUser' = [gotUser EXCEPT ![w] = Nobody] /\ gotBg' = [gotBg EXCEPT ![w] = Nobody]
  /\ UNCHANGED <<pool, userQ, stranded, sentinels, starts>>

\* The handler returns or raises, after it emitted its own events and, with aemit, waited
\* for their handlers.
Finish(w) ==
  /\ at[w] = "run"
  /\ \A c \in Items : Parent[c] = item[w] =>
       call[c] # "new" /\ (c \in Awaited => call[c] \in Settled)
  /\ call' = [call EXCEPT ![item[w]] = "handled"]
  /\ at' = [at EXCEPT ![w] = "loop"] /\ item' = [item EXCEPT ![w] = Nobody]
  /\ UNCHANGED <<pool, userQ, bgQ, stranded, gotUser, gotBg, sentinels, starts>>

-----------------------------------------------------------------------------
(* Start and stop *)

StartWorkers ==
  /\ pool = "down" /\ starts < MaxStarts
  /\ pool' = "up" /\ starts' = starts + 1
  /\ userQ' = <<>> /\ bgQ' = <<>>
  /\ at' = [w \in Workers |-> "loop"]
  /\ UNCHANGED <<call, stranded, gotUser, gotBg, item, sentinels>>

\* As many of n sentinels as there is room for without waiting.
PutSome(n) ==
  LET k == IF n <= UserCap - Len(userQ) THEN n ELSE UserCap - Len(userQ)
  IN userQ' = userQ \o [j \in 1..k |-> Sentinel] /\ sentinels' = n - k

\* One sentinel fewer than workers (faulty).
BeginStopOneShort ==
  /\ pool = "up" /\ pool' = "stopping" /\ PutSome(Cardinality(Workers) - 1)
  /\ UNCHANGED <<bgQ, call, stranded, workers, starts>>

\* stop_workers sends a sentinel per worker.
BeginStop ==
  /\ pool = "up" /\ pool' = "stopping" /\ PutSome(Cardinality(Workers))
  /\ UNCHANGED <<bgQ, call, stranded, workers, starts>>

\* It waited for room and goes on.
PutSentinels ==
  /\ sentinels > 0 /\ Len(userQ) < UserCap /\ PutSome(sentinels)
  /\ UNCHANGED <<pool, bgQ, call, stranded, workers, starts>>

\* The waiters of the items left are not released (faulty).
DrainSilently(left) == call' = call
\* They are: each item's done is set.
Drain(left) == call' = [i \in Items |-> IF i \in left THEN "dropped" ELSE call[i]]

\* All workers are gone: what the queues hold is drained. An emitter that waits for room
\* puts its item into a queue nobody reads any more.
EndStop ==
  /\ pool = "stopping" /\ sentinels = 0 /\ \A w \in Workers : at[w] = "exited"
  /\ Drain(ItemsOf(userQ) \cup ItemsOf(bgQ))
  /\ pool' = "down" /\ userQ' = <<>> /\ bgQ' = <<>>
  /\ stranded' = stranded \cup {i \in Items : call[i] = "putting"}
  /\ UNCHANGED <<workers, sentinels, starts>>

-----------------------------------------------------------------------------
Emit(i) == EmitDirect(i) \/ EmitUser(i) \/ EmitUserFull(i) \/ EmitBg(i)
Worker(w) == \/ GetUser(w) \/ Select(w) \/ UserArrives(w) \/ BgArrives(w)
             \/ WakeForBg(w) \/ WakeForUser(w)

Next == \/ \E i \in Items : Emit(i) \/ PutBlocked(i) \/ CancelPut(i) \/ RunDirect(i)
        \/ \E w \in Workers : Worker(w) \/ Finish(w)
        \/ StartWorkers \/ BeginStop \/ PutSentinels \/ EndStop

\* The event loop runs every task that can go on. Handlers of user events return; those
\* of background events need not. A handler emits what it has to.
Fairness ==
  /\ \A i \in Items : WF_vars(PutBlocked(i)) /\ WF_vars(RunDirect(i))
                      /\ (Parent[i] # Nobody => WF_vars(Emit(i)))
  /\ \A w \in Workers : WF_vars(Worker(w))
                        /\ WF_vars(Finish(w) /\ Lane[item[w]] = "user")
  /\ WF_vars(PutSentinels) /\ WF_vars(EndStop)

Spec == Init /\ [][Next]_vars
FairSpec == Spec /\ Fairness

-----------------------------------------------------------------------------
(* Properties *)

\* What EventDelivery calls the state of an item.
Delivered(state) ==
  CASE state = "new" -> "new"
    [] state = "putting" -> "offered"
    [] state = "queued" -> "accepted"
    [] state \in {"running", "direct"} -> "running"
    [] state = "handled" -> "handled"
    [] state = "dropped" -> "discarded"
Delivery == INSTANCE EventDelivery WITH
  call <- [i \in Items |-> Delivered(call[i])], stopping <- pool = "stopping"

\* The bus keeps the promise of EventDelivery: no handler call is run twice, and one for
\* a user event is given up only by a stop, or by its caller while it waits for room.
DeliveryKept == Delivery!Spec

\* What an item that is neither new nor settled is held by: a queue, a get() task, a
\* worker, or the emitter itself. An item held twice would run twice, one held by nobody
\* would keep its emitter waiting for ever (the race of the two get() tasks, _worker).
Holders(i) ==
  {<<"user", k>> : k \in {k \in DOMAIN userQ : userQ[k] = i}}
  \cup {<<"bg", k>> : k \in {k \in DOMAIN bgQ : bgQ[k] = i}}
  \cup {<<"get", w>> : w \in {w \in Workers : gotUser[w] = i \/ gotBg[w] = i}}
  \cup {<<"run", w>> : w \in {w \in Workers : item[w] = i}}
HeldOnce ==
  \A i \in Items :
    /\ call[i] \in {"queued", "running"} => Cardinality(Holders(i)) = 1
    /\ call[i] \notin {"queued", "running"} => Holders(i) = {}

\* The handler of a worker awaits a nested call that no worker runs yet; the handler of a
\* background event may never return.
Waiting(w) == at[w] = "run" /\ \E c \in Awaited : Parent[c] = item[w] /\ call[c] \in {"putting", "queued"}
Hung(w) == at[w] = "run" /\ Lane[item[w]] = "bg"
\* No worker in W takes another item.
Stuck(W) == /\ \A w \in W : at[w] = "exited" \/ Waiting(w) \/ Hung(w)
            /\ \E w \in Workers : at[w] # "exited"

\* "A runaway RL producer can never starve user traffic": a user item in the queue of a
\* running pool is run although every background handler may hang, unless a stop comes or
\* the handlers of all reserved workers wait for ever for nested calls that need a worker.
UserItemsRun ==
  \A i \in Items :
    (Lane[i] = "user" /\ call[i] = "queued")
      ~> (call[i] \in {"running"} \cup Settled \/ pool = "stopping" \/ [](\A w \in Reserved : Waiting(w)))

\* aemit returns: the item of a user event is settled, that of a background event at least
\* started. It is not if it was put into a queue after the pool was gone, or if for ever all
\* workers that may run it, or a nested call that a handler awaits, run handlers that wait
\* for nested calls themselves or hang.
Serving(i) == IF Lane[i] = "user" THEN Workers ELSE Workers \ Reserved
Needs(i) == {i} \cup {c \in Awaited : Parent[c] # Nobody}
AemitReturns ==
  \A i \in Items :
    (call[i] \in {"putting", "queued", "running"})
      ~> (\/ call[i] \in Settled \/ i \in stranded
          \/ Lane[i] = "bg" /\ call[i] = "running"
          \/ [](\E k \in Needs(i) : call[k] \in {"putting", "queued"} /\ Stuck(Serving(k))))

\* stop_workers returns, unless for ever some workers run handlers that hang, or that wait
\* for a nested call behind the sentinels the other workers have taken.
StopReturns == (pool = "stopping") ~> (pool = "down" \/ []Stuck(Workers))
=============================================================================
