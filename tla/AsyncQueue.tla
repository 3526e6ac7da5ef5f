----------------------------- MODULE AsyncQueue -----------------------------
(***************************************************************************)
(* The async facade (src/src/async_queue.rs): tasks that run the core's    *)
(* calls on blocking threads and wait on two tokio Notify objects, `room'  *)
(* and `items', instead of the core's condition variable.                  *)
(*                                                                         *)
(* A step is a step of Queue on a blocking thread, or what a task does     *)
(* between two of its awaits.  A caller may drop the future of a push or   *)
(* ack at any await: the blocking call it started runs on without it.      *)
(* Nothing here outlives the process, so crashes are left to Queue.        *)
(***************************************************************************)
EXTENDS QueueProperties, Sequences

CONSTANTS
  MaxOwed,   \* bound: nacks and drops whose signal is still to be sent
  MaxLeft    \* bound: abandoned pushes still under way

ASSUME AsyncAssumption == MaxOwed \in Nat /\ MaxLeft \in Nat

VARIABLES
  room, items,   \* struct Signals: the two Notify objects
  apc, aitem,    \* push tasks: where, and with which item
  left,          \* push tasks whose caller has dropped the future
  rpc,           \* the task in reserve
  owed,          \* signals that ack, nack and drop have still to send
  (* history *)
  roomMissed,    \* push tasks that have not tried since a slot last got free unsignalled
  itemsMissed,   \* something was given back or stored unsignalled since the last scan began
  ended          \* reserve has returned Ok(None)

asyncVars == <<room, items, apc, aitem, left, rpc, owed, roomMissed, itemsMissed, ended>>
aqVars == <<vars, asyncVars>>

-----------------------------------------------------------------------------
(* tokio::sync::Notify.  `tok' is each task's Notified future: none,       *)
(* registered in `line', chosen by notify_one, or complete.                *)

Quiescent(tasks) == [permit |-> FALSE, line |-> <<>>, tok |-> [t \in tasks |-> "none"]]

(* notified() and enable(): take the stored permit, or join the line.      *)
Enable(n, t) ==
  IF n.permit THEN [n EXCEPT !.permit = FALSE, !.tok[t] = "done"]
  ELSE [n EXCEPT !.line = Append(@, t), !.tok[t] = "wait"]

(* notify_one(): the first in line, or a permit if there is nobody.        *)
Notify(n) ==
  IF n.line = <<>> THEN [n EXCEPT !.permit = TRUE]
  ELSE [n EXCEPT !.tok[Head(n.line)] = "one", !.line = Tail(@)]

(* notify_waiters(): everybody in line, and no permit.                     *)
NotifyWaiters(n) ==
  [n EXCEPT !.line = <<>>,
            !.tok = [t \in DOMAIN @ |-> IF @[t] = "wait" THEN "done" ELSE @[t]]]

(* The line after t has left it; a future is in it once.                   *)
Without(line, t) ==
  LET k == CHOOSE j \in DOMAIN line : line[j] = t
  IN  IF \E j \in DOMAIN line : line[j] = t
      THEN SubSeq(line, 1, k - 1) \o SubSeq(line, k + 1, Len(line))
      ELSE line

(* A future that is dropped leaves the line, and passes on a notification  *)
(* that it alone received and did not use.                                 *)
Forget(n, t) ==
  LET gone == [n EXCEPT !.tok[t] = "none", !.line = Without(@, t)]
  IN  IF n.tok[t] = "one" THEN Notify(gone) ELSE gone

Fired(n, t) == n.tok[t] \in {"one", "done"}

-----------------------------------------------------------------------------

AsyncInit ==
  /\ room = Quiescent(Producers) /\ items = Quiescent({"rx"})
  /\ apc = [p \in Producers |-> "idle"] /\ aitem = [p \in Producers |-> NoItem]
  /\ left = {} /\ rpc = "idle" /\ owed = [room |-> 0, items |-> 0]
  /\ roomMissed = {} /\ itemsMissed = FALSE /\ ended = FALSE

(* open_async: the core's open on a blocking thread; the signals are new.  *)
OpenAsync ==
  /\ OpenStart \/ OpenErr \/ RecoverEntry \/ RecoverDone \/ RecoverErr
  /\ UNCHANGED asyncVars

(* push: register with room, then have try_push run.                       *)
AsyncPush(p) ==
  /\ Up /\ apc[p] = "idle"
  /\ \E i \in Fresh(p) : aitem' = [aitem EXCEPT ![p] = i]
  /\ room' = Enable(room, p)
  /\ apc' = [apc EXCEPT ![p] = "try"]
  /\ UNCHANGED <<vars, items, left, rpc, owed, roomMissed, itemsMissed, ended>>

(* try_push's critical section on the blocking thread: a claim, Full or    *)
(* Closed.                                                                 *)
Attempt(p) ==
  /\ apc[p] = "try"
  /\ roomMissed' = roomMissed \ {p}
  /\ \/ /\ closed
        /\ apc' = [apc EXCEPT ![p] = "closed"]
        /\ UNCHANGED vars
     \/ /\ ~closed /\ ~Admits(len, bytes, Size[aitem[p]])
        /\ apc' = [apc EXCEPT ![p] = "full"]
        /\ UNCHANGED vars
     \/ /\ ~closed /\ Admits(len, bytes, Size[aitem[p]])
        /\ Claim(p, aitem[p])
        /\ apc' = [apc EXCEPT ![p] = "write"]
        /\ UNCHANGED <<storeVars, consVars, guardVars, restarts>>
  /\ UNCHANGED <<room, items, aitem, left, rpc, owed, itemsMissed, ended>>

(* The asynchronous try_push does not wait; Full and Closed change nothing.*)
AsyncTryPush(p) ==
  /\ apc[p] = "idle"
  /\ TryPush(p)
  /\ apc' = [apc EXCEPT ![p] = "write"]
  /\ UNCHANGED <<room, items, aitem, left, rpc, owed, roomMissed, itemsMissed, ended>>

(* The rest of the core's try_push.  When it fails, the slot it gives back *)
(* is signalled on the core's condition variable only, and so is an entry  *)
(* that a failed flush has left in the store.                              *)
AsyncWrite(p) ==
  /\ apc[p] = "write"
  /\ \/ WriteApply(p) /\ UNCHANGED <<apc, roomMissed, itemsMissed>>
     \/ /\ WriteErr(p) /\ itemsMissed' = (itemsMissed \/ ppc[p] = "flush")
        /\ UNCHANGED <<apc, roomMissed>>
     \/ WriteOk(p) /\ apc' = [apc EXCEPT ![p] = "ok"] /\ UNCHANGED <<roomMissed, itemsMissed>>
     \/ GiveBack(p) /\ roomMissed' = Producers /\ itemsMissed' = TRUE /\ UNCHANGED apc
     \/ WriteNotify(p) /\ apc' = [apc EXCEPT ![p] = "err"] /\ UNCHANGED <<roomMissed, itemsMissed>>
  /\ UNCHANGED <<room, items, aitem, left, rpc, owed, ended>>

(* The task has the result: signal items after Ok, return, and with that   *)
(* drop the Notified.  If the caller is gone, so is the task.              *)
PushReturn(p) ==
  /\ apc[p] \in {"ok", "err", "closed"} \/ (apc[p] = "full" /\ p \in left)
  /\ items' = IF apc[p] = "ok" /\ p \notin left THEN Notify(items) ELSE items
  /\ itemsMissed' = (itemsMissed \/ (apc[p] = "ok" /\ p \in left))
  /\ room' = Forget(room, p)
  /\ apc' = [apc EXCEPT ![p] = "idle"]
  /\ aitem' = [aitem EXCEPT ![p] = NoItem]
  /\ left' = left \ {p}
  /\ UNCHANGED <<vars, rpc, owed, roomMissed, ended>>

(* Full: await the Notified, register a new one and try again.             *)
AwaitRoom(p) ==
  /\ apc[p] = "full" /\ Fired(room, p)
  /\ room' = Enable([room EXCEPT !.tok[p] = "none"], p)
  /\ apc' = [apc EXCEPT ![p] = "try"]
  /\ UNCHANGED <<vars, items, aitem, left, rpc, owed, roomMissed, itemsMissed, ended>>

(* The caller drops the future at an await, for instance at a timeout.     *)
AbandonPush(p) ==
  /\ apc[p] \in {"try", "write", "full"} /\ p \notin left
  /\ Cardinality(left) < MaxLeft
  /\ left' = left \cup {p}
  /\ room' = Forget(room, p)
  /\ UNCHANGED <<vars, items, apc, aitem, rpc, owed, roomMissed, itemsMissed, ended>>

(* close: the core's close, then every waiter on room, then on items.      *)
(* Bound: it is called once; a second call would repeat the signals.       *)
AsyncClose(p) ==
  /\ \/ /\ apc[p] = "idle" /\ ~closed /\ Close(p)
        /\ apc' = [apc EXCEPT ![p] = "close"] /\ UNCHANGED <<room, items>>
     \/ /\ apc[p] = "close" /\ CloseNotify(p)
        /\ apc' = [apc EXCEPT ![p] = "wakeroom"] /\ UNCHANGED <<room, items>>
     \/ /\ apc[p] = "wakeroom" /\ room' = NotifyWaiters(room)
        /\ apc' = [apc EXCEPT ![p] = "wakeitems"] /\ UNCHANGED <<vars, items>>
     \/ /\ apc[p] = "wakeitems" /\ items' = NotifyWaiters(items)
        /\ apc' = [apc EXCEPT ![p] = "idle"] /\ UNCHANGED <<vars, room>>
  /\ UNCHANGED <<aitem, left, rpc, owed, roomMissed, itemsMissed, ended>>

-----------------------------------------------------------------------------
(* reserve.                                                                *)

(* Register with items ...                                                 *)
AsyncReserve ==
  /\ Up /\ rpc = "idle"
  /\ items' = Enable(items, "rx")
  /\ rpc' = "try"
  /\ UNCHANGED <<vars, room, apc, aitem, left, owed, roomMissed, itemsMissed, ended>>

(* ... and have the core's reserve run, to an item, nothing or an error.   *)
AsyncScan ==
  /\ \/ rpc = "try" /\ ReserveStart /\ rpc' = "scan" /\ itemsMissed' = FALSE
     \/ /\ rpc = "scan" /\ UNCHANGED itemsMissed
        /\ \/ (ReserveSeek \/ ReserveSkip) /\ UNCHANGED rpc
           \/ ReserveTake /\ rpc' = "got"
           \/ Seek(cursor) = {} /\ ReserveNone /\ rpc' = "none"
           \/ CanFail /\ ReserveNone /\ rpc' = "err"
  /\ UNCHANGED <<room, items, apc, aitem, left, owed, roomMissed, ended>>

(* Return the guard or the error, dropping the Notified.                   *)
ReserveReturn ==
  /\ rpc \in {"got", "err"}
  /\ items' = Forget(items, "rx")
  /\ rpc' = "idle"
  /\ UNCHANGED <<vars, room, apc, aitem, left, owed, roomMissed, itemsMissed, ended>>

(* Mutant: a closed queue counts as drained.                               *)
IsClosed == closed

is_drained == closed /\ len = 0

(* Nothing found: under the lock once more, either the queue is drained    *)
(* for good, or wait.                                                      *)
CheckDrained ==
  /\ rpc = "none"
  /\ \/ is_drained /\ rpc' = "idle" /\ ended' = TRUE /\ items' = Forget(items, "rx")
     \/ ~is_drained /\ rpc' = "await" /\ UNCHANGED <<items, ended>>
  /\ UNCHANGED <<vars, room, apc, aitem, left, owed, roomMissed, itemsMissed>>

(* Await the Notified, register a new one and look again.                  *)
AwaitItems ==
  /\ rpc = "await" /\ Fired(items, "rx")
  /\ items' = Enable([items EXCEPT !.tok["rx"] = "none"], "rx")
  /\ rpc' = "try"
  /\ UNCHANGED <<vars, room, apc, aitem, left, owed, roomMissed, itemsMissed, ended>>

(* The caller drops the future of a reserve that waits.                    *)
AbandonReserve ==
  /\ rpc = "await"
  /\ items' = Forget(items, "rx")
  /\ rpc' = "idle"
  /\ UNCHANGED <<vars, room, apc, aitem, left, owed, roomMissed, itemsMissed, ended>>

-----------------------------------------------------------------------------
(* AsyncReserved.                                                          *)

(* ack on a blocking thread: after Ok the task owes room and then items a  *)
(* signal; a failed ack has released the item and signals nobody.  The     *)
(* caller may drop the future meanwhile: the call runs on, and at its end  *)
(* nobody is left to signal.                                               *)
AsyncAck(g) ==
  /\ \/ (AckApply(g) \/ AckOk(g) \/ AckSettle(g)) /\ UNCHANGED <<owed, roomMissed, itemsMissed>>
     \/ AckNotify(g) /\ owed' = [owed EXCEPT !.room = @ + 1] /\ UNCHANGED <<roomMissed, itemsMissed>>
     \/ AckNotify(g) /\ roomMissed' = Producers /\ itemsMissed' = TRUE /\ UNCHANGED owed
     \/ AckErr(g) /\ itemsMissed' = TRUE /\ UNCHANGED <<owed, roomMissed>>
  /\ UNCHANGED <<room, items, apc, aitem, left, rpc, ended>>

(* Mutant: the item is returned and nobody is told.                        *)
AsyncNackSilently(g) ==
  /\ gpc[g] = "held"
  /\ Release(g)
  /\ UNCHANGED <<storeVars, tail, head, acked_above, len, bytes, closed, capacity, prodVars,
                 consVars, restarts, histVars, asyncVars>>

(* nack and drop, on whichever task has the guard: release, then signal.   *)
AsyncNack(g) ==
  /\ gpc[g] = "held"
  /\ owed.items < MaxOwed
  /\ Release(g)
  /\ owed' = [owed EXCEPT !.items = @ + 1]
  /\ UNCHANGED <<storeVars, tail, head, acked_above, len, bytes, closed, capacity, prodVars,
                 consVars, restarts, histVars, room, items, apc, aitem, left, rpc,
                 roomMissed, itemsMissed, ended>>

(* Mutant: an ack does not tell the producers.                             *)
SignalItemsOnly ==
  /\ owed.room > 0
  /\ owed' = [owed EXCEPT !.room = @ - 1, !.items = @ + 1]
  /\ UNCHANGED <<vars, room, items, apc, aitem, left, rpc, roomMissed, itemsMissed, ended>>

SignalRoom ==
  /\ owed.room > 0
  /\ room' = Notify(room)
  /\ owed' = [owed EXCEPT !.room = @ - 1, !.items = @ + 1]
  /\ UNCHANGED <<vars, items, apc, aitem, left, rpc, roomMissed, itemsMissed, ended>>

SignalItems ==
  /\ owed.items > 0
  /\ items' = Notify(items)
  /\ owed' = [owed EXCEPT !.items = @ - 1]
  /\ UNCHANGED <<vars, room, apc, aitem, left, rpc, roomMissed, itemsMissed, ended>>

-----------------------------------------------------------------------------

PushTask(p) == Attempt(p) \/ AsyncWrite(p) \/ PushReturn(p) \/ AwaitRoom(p)

ReserveTask == AsyncScan \/ ReserveReturn \/ CheckDrained \/ AwaitItems

AsyncNext ==
  \/ OpenAsync
  \/ \E p \in Producers :
       AsyncPush(p) \/ AsyncTryPush(p) \/ PushTask(p) \/ AbandonPush(p) \/ AsyncClose(p)
  \/ AsyncReserve \/ ReserveTask \/ AbandonReserve
  \/ \E g \in Guards : AsyncAck(g) \/ AsyncNack(g)
  \/ SignalRoom \/ SignalItems

AsyncSpec == Init /\ AsyncInit /\ [][AsyncNext]_aqVars

-----------------------------------------------------------------------------
(* Properties.                                                             *)

(* A push task that waits, and that nobody has notified yet.               *)
Asleep == {p \in Producers : apc[p] = "full" /\ room.tok[p] = "wait"}

(* A signal on room is on its way: an ack is about to send it, another     *)
(* task holds a notification it will pass on or act on, or is about to     *)
(* try, or close has not woken the waiters yet.                            *)
RoomPending ==
  \/ owed.room > 0 \/ \E g \in Guards : gpc[g] = "notify"
  \/ \E q \in Producers : room.tok[q] = "one" \/ apc[q] \in {"try", "close", "wakeroom"}
  \/ \E q \in Producers : room.tok[q] = "done" /\ apc[q] = "full"

CouldGoOn(p) == closed \/ Admits(len, bytes, Size[aitem[p]])

(* What the comment on Signals says of room: a push waits only while the   *)
(* queue is full, or the signal is on its way.                             *)
RoomFires == \A p \in Asleep : CouldGoOn(p) => RoomPending

(* The same for a task that has tried since the last failed push and the   *)
(* last abandoned ack: acks, close, barging and abandoned pushes never     *)
(* leave it asleep.                                                        *)
RoomSignalled == \A p \in Asleep \ roomMissed : CouldGoOn(p) => RoomPending

(* A signal on items is on its way.                                        *)
ItemsPending ==
  \/ owed.room > 0 \/ owed.items > 0 \/ \E g \in Guards : gpc[g] = "notify"
  \/ \E p \in Producers : apc[p] \in {"ok", "close", "wakeroom", "wakeitems"} \/ ppc[p] = "flush"

(* reserve waits only while there is nothing to hand out and the queue is  *)
(* not drained, or the signal is on its way; unless, since its scan began, *)
(* a failed push or ack gave something back without a signal, or a push or *)
(* ack went through that its caller had abandoned.                         *)
ItemsSignalled ==
  rpc = "await" /\ items.tok["rx"] = "wait" /\ ~itemsMissed =>
    (Stored \subseteq reserved /\ ~is_drained) \/ ItemsPending

(* reserve returns None only once the queue is closed and fully drained:   *)
(* nothing is stored then, and no push under way will store anything.      *)
DrainedForGood ==
  ended => Stored = {} /\ \A p \in Producers : ppc[p] # "apply"

-----------------------------------------------------------------------------
(* Inductive strengthening.                                                *)

(* Where a push task is: outside a call, its try_push running, holding     *)
(* Full or Closed, its write running, holding Ok or an error, and the      *)
(* three parts of close.                                                   *)
TaskPC == {"idle", "try", "full", "closed", "write", "ok", "err", "close", "wakeroom", "wakeitems"}

(* A task is in a call of the core only while that call's blocking thread  *)
(* runs, and what it is about to push nobody has pushed.                   *)
TaskInv ==
  /\ apc \in [Producers -> TaskPC] /\ aitem \in [Producers -> Values]
  /\ \A p \in Producers :
       /\ apc[p] \notin {"write", "close"} => ppc[p] = "idle"
       /\ apc[p] \in {"try", "full"} => Up /\ aitem[p] \in Fresh(p)
  /\ rpc # "idle" => Up

(* A drained queue stays open, closed and empty.                           *)
EndInv == ended => Up /\ closed /\ len = 0

(* A Notify object for some tasks: in line are, once each, the tasks that  *)
(* wait, and a permit is stored only while there are none.                 *)
NotifyOK(n, tasks) ==
  /\ n \in [permit : BOOLEAN, line : Seq(tasks), tok : [tasks -> {"none", "wait", "one", "done"}]]
  /\ \A t \in tasks : n.tok[t] = "wait" <=> \E k \in DOMAIN n.line : n.line[k] = t
  /\ \A j, k \in DOMAIN n.line : n.line[j] = n.line[k] => j = k
  /\ n.permit => n.line = <<>>

SignalsOK ==
  /\ NotifyOK(room, Producers) /\ NotifyOK(items, {"rx"})
  /\ owed \in [room : Nat, items : Nat]
  /\ \A p \in Producers :
       apc[p] \in {"idle", "close", "wakeroom", "wakeitems"} => room.tok[p] = "none"
  /\ rpc = "idle" => items.tok["rx"] = "none"

(* While reserve waits for a signal that is not on its way, and nothing    *)
(* went unsignalled, its scan has seen a reserved entry wherever one is    *)
(* stored.                                                                 *)
Unheard == items.tok["rx"] = "wait" /\ ~itemsMissed /\ ~ItemsPending
Seen ==
  /\ cpc = "seek" => \A s \in Stored : s < cursor => s \in reserved
  /\ cpc = "check" => \A s \in Stored : s < found => s \in reserved
  /\ rpc \in {"none", "await"} => Stored \subseteq reserved
  /\ rpc = "await" => ~is_drained
ScanInv ==
  /\ rpc \in {"idle", "try", "scan", "got", "none", "err", "await"}
  /\ rpc = "scan" <=> cpc \in {"seek", "check"}
  /\ Unheard => Seen

(* Push tasks that hold a notification, and that are about to try.         *)
Notified == {p \in Producers : room.tok[p] = "one"}
Trying == {p \in Producers : apc[p] = "try"}

(* The slots taken, and the signals under way that stand for a free one.   *)
Cover == len + owed.room + Cardinality(Telling) + Cardinality(Notified) + Cardinality(Trying)

(* While a push task that has missed no signal since it tried sleeps,      *)
(* every free slot has a signal of its own on the way; and nobody sleeps   *)
(* once close has woken the waiters.                                       *)
RoomCovered == MaxBytes = UsizeMod - 1 /\ ~closed /\ Asleep \ roomMissed # {} => Cover >= capacity
CloseWakes == closed /\ Asleep # {} => \E p \in Producers : apc[p] \in {"close", "wakeroom"}
RoomInv == RoomCovered /\ CloseWakes

=============================================================================
