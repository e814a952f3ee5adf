--------------------------- MODULE SessionQueue ---------------------------
(***************************************************************************)
(* pyclopse/core/queue.py SessionMessageQueue, with the two callers that   *)
(* meet it in the gateway: Gateway.enqueue_message, which submits a        *)
(* message, registers the drain task and awaits the message's future, and  *)
(* the /stop command, which cancels the registered task.                   *)
(*                                                                         *)
(* One asyncio loop runs everything, so a step below is the code between   *)
(* two points where a coroutine really suspends.  The queue's lock is      *)
(* never held across such a point and is never waited for.                 *)
(***************************************************************************)
EXTENDS Naturals, Sequences, FiniteSets

CONSTANTS
    MaxMsgs,          \* bound: messages submitted in a behaviour
    Modes,            \* the queue modes /queue and the configuration choose from
    Caps,             \* the values of cap
    Drops,            \* the drop policies
    MaxConfigs,       \* bound: runtime reconfigurations
    MaxStops          \* bound: /stop commands that find a task

QueueMode == {"followup", "collect", "interrupt", "steer", "steer-backlog",
              "steer+backlog", "queue"}
DropPolicy == {"old", "new", "summarize"}

ASSUME SQAssumption ==
    /\ MaxMsgs \in Nat
    /\ Modes \subseteq QueueMode
    /\ Caps \subseteq Nat
    /\ Drops \subseteq DropPolicy
    /\ MaxConfigs \in Nat
    /\ MaxStops \in Nat

Cancelling == {"steer", "steer+backlog"}      \* an arrival cancels the current call
Steering == Cancelling \cup {"steer-backlog"} \* a cancelled call is put back

Msg == 1 .. MaxMsgs   \* messages, numbered in order of arrival

VARIABLES
    mode, cap, drop,  \* _mode, _cap, _drop
    queue,            \* _queue
    drain,            \* _drain_task: "idle" when None or done
    current,          \* _current_task
    inflight,         \* _steer_inflight_items
    batch,            \* the drain loop's local futures
    label,            \* _summarize_label_pending
    future,           \* future[m]: the Future returned to m's caller
    caller,           \* caller[m]: the coroutine inside enqueue_message for m
    active,           \* _active_tasks holds this session's drain task
    drainCancel,      \* a CancelledError will be raised in the drain task
    currentCancel,    \* a CancelledError will be raised in the current task
    arrived, configs, stops,  \* counters for the bounds
    sent              \* sent[m]: how many agent calls m has been given to

config == <<mode, cap, drop>>
loop == <<drain, current, inflight, batch>>
counters == <<arrived, configs, stops, sent>>
vars == <<config, queue, loop, label, future, caller, active,
          drainCancel, currentCancel, counters>>

FutureState == {"new", "pending", "result", "error", "cancelled", "raised"}
CallState == {"none", "running", "ok", "failed", "cancelled"}

Elems(s) == {s[i] : i \in 1 .. Len(s)}

\* Variants named Bug... are wrong on purpose: each shows which property notices a
\* plausible slip in the definition that follows it, and no behaviour uses them.
BugSettleTwice(fs, S, answer) == [m \in Msg |-> IF m \in S THEN answer ELSE fs[m]]

\* fut.done() guards every write to a future.
Settle(fs, S, answer) ==
    [m \in Msg |-> IF m \in S /\ fs[m] = "pending" THEN answer ELSE fs[m]]

TypeOK ==
    /\ mode \in QueueMode /\ cap \in Nat /\ drop \in DropPolicy
    /\ queue \in Seq(Msg) /\ inflight \in Seq(Msg) /\ batch \in Seq(Msg)
    /\ drain \in {"idle", "asleep", "awaiting"}
    /\ current \in CallState
    /\ label \in BOOLEAN /\ active \in BOOLEAN
    /\ drainCancel \in BOOLEAN /\ currentCancel \in BOOLEAN
    /\ future \in [Msg -> FutureState]
    /\ caller \in [Msg -> {"away", "waiting", "returned"}]
    /\ arrived \in 0 .. MaxMsgs /\ configs \in 0 .. MaxConfigs /\ stops \in 0 .. MaxStops
    /\ sent \in [Msg -> Nat]

Init ==
    /\ mode \in Modes /\ cap \in Caps /\ drop \in Drops
    /\ queue = <<>> /\ inflight = <<>> /\ batch = <<>>
    /\ drain = "idle" /\ current = "none"
    /\ label = FALSE /\ active = FALSE
    /\ drainCancel = FALSE /\ currentCancel = FALSE
    /\ future = [m \in Msg |-> "new"]
    /\ caller = [m \in Msg |-> "away"]
    /\ arrived = 0 /\ configs = 0 /\ stops = 0
    /\ sent = [m \in Msg |-> 0]

---------------------------------------------------------------------------
(* enqueue() and the part of enqueue_message() before its await.           *)

\* The caller registers the drain task, starting it if it is not running,
\* and waits for its future.
Admit(m) ==
    /\ drain' = IF drain = "idle" THEN "asleep" ELSE drain
    /\ active' = TRUE
    /\ caller' = [caller EXCEPT ![m] = "waiting"]

\* Task.cancel() on a current task that is not done.
CancelCurrent == currentCancel' = (currentCancel \/ current = "running")

EnqueueInterrupt(m) ==
    /\ mode = "interrupt"
    /\ CancelCurrent
    /\ queue' = <<m>>
    /\ inflight' = <<>>
    /\ future' = Settle([future EXCEPT ![m] = "pending"],
                        Elems(queue) \cup Elems(inflight), "cancelled")
    /\ Admit(m)
    /\ UNCHANGED label

EnqueueSteer(m) ==
    /\ mode \in Cancelling
    /\ CancelCurrent
    /\ queue' = Append(queue, m)
    /\ future' = [future EXCEPT ![m] = "pending"]
    /\ Admit(m)
    /\ UNCHANGED <<inflight, label>>

EnqueueBacklog(m) ==
    /\ mode = "steer-backlog"
    /\ queue' = Append(queue, m)
    /\ future' = [future EXCEPT ![m] = "pending"]
    /\ Admit(m)
    /\ UNCHANGED <<inflight, label, currentCancel>>

\* _apply_cap with room left.
EnqueueCapped(m) ==
    /\ mode \in {"followup", "collect", "queue"}
    /\ Len(queue) < cap
    /\ queue' = Append(queue, m)
    /\ future' = [future EXCEPT ![m] = "pending"]
    /\ Admit(m)
    /\ UNCHANGED <<inflight, label, currentCancel>>

\* _apply_cap at the cap, DropPolicy.NEW: the cancelled future makes the
\* caller's await raise at once, and its finally clause drops the registration.
RefuseNew(m) ==
    /\ mode \in {"followup", "collect", "queue"}
    /\ Len(queue) >= cap
    /\ drop = "new"
    /\ future' = [future EXCEPT ![m] = "cancelled"]
    /\ drain' = IF drain = "idle" THEN "asleep" ELSE drain
    /\ active' = FALSE
    /\ caller' = [caller EXCEPT ![m] = "returned"]
    /\ UNCHANGED <<queue, inflight, label, currentCancel>>

\* _apply_cap at the cap, OLD and SUMMARIZE: the oldest queued message goes.
EvictOldest(m) ==
    /\ mode \in {"followup", "collect", "queue"}
    /\ Len(queue) >= cap
    /\ drop # "new"
    /\ queue # <<>>
    /\ queue' = Append(Tail(queue), m)
    /\ future' = Settle([future EXCEPT ![m] = "pending"], {Head(queue)}, "cancelled")
    /\ label' = (label \/ drop = "summarize")
    /\ Admit(m)
    /\ UNCHANGED <<inflight, currentCancel>>

\* With a cap of 0 there is no oldest message: list.pop raises IndexError out
\* of enqueue(), before the drain task is looked at or anything is registered.
EnqueueRaises(m) ==
    /\ mode \in {"followup", "collect", "queue"}
    /\ Len(queue) >= cap
    /\ drop # "new"
    /\ queue = <<>>
    /\ future' = [future EXCEPT ![m] = "raised"]
    /\ caller' = [caller EXCEPT ![m] = "returned"]
    /\ UNCHANGED <<queue, inflight, label, currentCancel, drain, active>>

Enqueue(m) ==
    /\ m = arrived + 1
    /\ arrived' = m
    /\ \/ EnqueueInterrupt(m)
       \/ EnqueueSteer(m)
       \/ EnqueueBacklog(m)
       \/ EnqueueCapped(m)
       \/ RefuseNew(m)
       \/ EvictOldest(m)
       \/ EnqueueRaises(m)
    /\ UNCHANGED <<config, current, batch, drainCancel, configs, stops, sent>>

---------------------------------------------------------------------------
(* The drain loop.                                                         *)

\* How many queued messages one iteration takes.
TakeCount == IF mode \in Steering \cup {"collect"} THEN Len(queue) ELSE 1

\* The debounce sleep is over and there is something to do.
DrainTake ==
    /\ drain = "asleep" /\ ~drainCancel
    /\ queue # <<>>
    /\ LET n == TakeCount
       IN  /\ batch' = SubSeq(queue, 1, n)
           /\ inflight' = SubSeq(queue, 1, n)
           /\ queue' = SubSeq(queue, n + 1, Len(queue))
    /\ sent' = [m \in Msg |-> IF m \in Elems(batch') THEN sent[m] + 1 ELSE sent[m]]
    /\ label' = (label /\ mode # "collect")
    /\ current' = "running"
    /\ drain' = "awaiting"
    /\ UNCHANGED <<config, future, caller, active, drainCancel, currentCancel,
                   arrived, configs, stops>>

\* The debounce sleep is over and the queue is empty.
DrainBreak ==
    /\ drain = "asleep" /\ ~drainCancel
    /\ queue = <<>>
    /\ drain' = "idle"
    /\ UNCHANGED <<config, queue, current, inflight, batch, label, future,
                   caller, active, drainCancel, currentCancel, counters>>

\* A cancellation that arrives during the sleep ends the task: the sleep is
\* outside the try block.
DrainKilled ==
    /\ drain = "asleep" /\ drainCancel
    /\ drain' = "idle"
    /\ drainCancel' = FALSE
    /\ UNCHANGED <<config, queue, current, inflight, batch, label, future,
                   caller, active, currentCancel, counters>>

\* The dispatched agent call ends by itself, or by the cancellation it was sent.
DispatchEnds ==
    /\ current = "running"
    /\ current' \in IF currentCancel THEN {"cancelled"} ELSE {"ok", "failed"}
    /\ currentCancel' = FALSE
    /\ UNCHANGED <<config, queue, drain, inflight, batch, label, future,
                   caller, active, drainCancel, counters>>

\* The finally clause.
ClearCurrent == /\ current' = "none"
                /\ inflight' = <<>>
                /\ batch' = <<>>

BugResumeStops ==
    /\ drain = "awaiting" /\ ~drainCancel
    /\ current \in {"ok", "failed"}
    /\ future' = Settle(future, Elems(batch), IF current = "ok" THEN "result" ELSE "error")
    /\ drain' = "idle"
    /\ ClearCurrent
    /\ UNCHANGED <<config, queue, label, caller, active, drainCancel,
                   currentCancel, counters>>

BugResumeForgetsErrors ==
    /\ drain = "awaiting" /\ ~drainCancel
    /\ current \in {"ok", "failed"}
    /\ future' = IF current = "ok" THEN Settle(future, Elems(batch), "result") ELSE future
    /\ drain' = IF queue = <<>> THEN "idle" ELSE "asleep"
    /\ ClearCurrent
    /\ UNCHANGED <<config, queue, label, caller, active, drainCancel,
                   currentCancel, counters>>

\* await self._current_task returns a result or raises the call's exception.
DrainResume ==
    /\ drain = "awaiting" /\ ~drainCancel
    /\ current \in {"ok", "failed"}
    /\ future' = Settle(future, Elems(batch), IF current = "ok" THEN "result" ELSE "error")
    /\ drain' = IF queue = <<>> THEN "idle" ELSE "asleep"
    /\ ClearCurrent
    /\ UNCHANGED <<config, queue, label, caller, active, drainCancel,
                   currentCancel, counters>>

BugInterruptedAlways == drain = "awaiting" /\ current \in {"ok", "failed", "cancelled"}

\* CancelledError comes out of the await, from the call or from the drain task's
\* own cancellation once the call has ended.
Interrupted == /\ drain = "awaiting"
               /\ current \in {"ok", "failed", "cancelled"}
               /\ drainCancel \/ current = "cancelled"

BugReinsertAtBack ==
    /\ Interrupted
    /\ mode \in Steering
    /\ queue' = queue \o inflight
    /\ drain' = "asleep"
    /\ drainCancel' = FALSE
    /\ ClearCurrent
    /\ UNCHANGED <<config, label, future, caller, active, currentCancel, counters>>

BugReinsertNothing ==
    /\ Interrupted
    /\ mode \in Steering
    /\ drain' = "asleep"
    /\ drainCancel' = FALSE
    /\ ClearCurrent
    /\ UNCHANGED <<config, queue, label, future, caller, active, currentCancel, counters>>

\* In the steering modes the messages go back to the front of the queue...
DrainReinsert ==
    /\ Interrupted
    /\ mode \in Steering
    /\ queue' = inflight \o queue
    /\ drain' = "asleep"
    /\ drainCancel' = FALSE
    /\ ClearCurrent
    /\ UNCHANGED <<config, label, future, caller, active, currentCancel, counters>>

\* ...and in the others their callers are told of the cancellation.
DrainCancelBatch ==
    /\ Interrupted
    /\ mode \notin Steering
    /\ future' = Settle(future, Elems(batch), "cancelled")
    /\ drain' = "asleep"
    /\ drainCancel' = FALSE
    /\ ClearCurrent
    /\ UNCHANGED <<config, queue, label, caller, active, currentCancel, counters>>

---------------------------------------------------------------------------
(* The callers and the commands.                                           *)

\* The awaiting coroutine resumes; its finally clause pops the session's entry,
\* whoever registered it last.
CallerReturns(m) ==
    /\ caller[m] = "waiting" /\ future[m] # "pending"
    /\ caller' = [caller EXCEPT ![m] = "returned"]
    /\ active' = FALSE
    /\ UNCHANGED <<config, queue, loop, label, future, drainCancel, currentCancel, counters>>

\* The coroutine that awaits the future is cancelled, and so is the future.
CallerCancelled(m) ==
    /\ caller[m] = "waiting" /\ future[m] = "pending"
    /\ future' = [future EXCEPT ![m] = "cancelled"]
    /\ UNCHANGED <<config, queue, loop, label, caller, active, drainCancel,
                   currentCancel, counters>>

\* /stop: Task.cancel() on the drain task.  It cancels what the task waits for,
\* the sleep or the current call, or the task itself if that has already ended.
Stop ==
    /\ stops < MaxStops
    /\ active /\ drain # "idle"
    /\ stops' = stops + 1
    /\ IF current = "running"
       THEN currentCancel' = TRUE /\ UNCHANGED drainCancel
       ELSE drainCancel' = TRUE /\ UNCHANGED currentCancel
    /\ UNCHANGED <<config, queue, loop, label, future, caller, active, arrived, configs, sent>>

BugUpdateUnchecked ==
    /\ configs < MaxConfigs
    /\ configs' = configs + 1
    /\ mode' \in Modes \cup {"unknown"} /\ cap' \in Caps /\ drop' \in Drops
    /\ UNCHANGED <<queue, loop, label, future, caller, active, drainCancel,
                   currentCancel, arrived, stops, sent>>

\* /queue: the fields are replaced while the loop runs.
UpdateConfig ==
    /\ configs < MaxConfigs
    /\ configs' = configs + 1
    /\ mode' \in Modes /\ cap' \in Caps /\ drop' \in Drops
    /\ UNCHANGED <<queue, loop, label, future, caller, active, drainCancel,
                   currentCancel, arrived, stops, sent>>

Drain == DrainTake \/ DrainBreak \/ DrainKilled \/ DrainResume \/ DrainReinsert
            \/ DrainCancelBatch

Next == \/ \E m \in Msg : Enqueue(m) \/ CallerReturns(m) \/ CallerCancelled(m)
        \/ Drain
        \/ DispatchEnds
        \/ Stop
        \/ UpdateConfig

Spec == Init /\ [][Next]_vars

\* The event loop runs every ready task, and an agent call ends (it is bounded by
\* the provider's timeouts); nobody is obliged to send, stop or reconfigure.
Fairness == /\ WF_vars(Drain)
            /\ WF_vars(DispatchEnds)
            /\ WF_vars(\E m \in Msg : CallerReturns(m))

FairSpec == Spec /\ Fairness

---------------------------------------------------------------------------
(* What the queue guarantees.                                              *)

\* No message is lost: whoever still waits for an answer has its message in the
\* queue or in the call under way (queue.py 143-153 and 269, where futures and
\* items are dropped and put back separately).
PendingIsHeld ==
    \A m \in Msg : future[m] = "pending" => m \in Elems(queue) \cup Elems(inflight)

\* Messages are worked on in arrival order, none twice, across evictions,
\* re-insertions and mode changes: the messages in flight, then the queue, are
\* strictly increasing (queue.py 142, 182-187, 213-243, 269).
Increasing(s) == \A i, j \in 1 .. Len(s) : i < j => s[i] < s[j]

InArrivalOrder == Increasing(inflight \o queue)

\* InArrivalOrder made inductive: what is held was submitted, and what is in flight
\* is older than the queue and, as part of the batch, not in it.
OrderInv ==
    /\ Increasing(inflight) /\ Increasing(queue)
    /\ \A a \in Elems(inflight), b \in Elems(queue) : a < b
    /\ \A a \in Elems(queue) \cup Elems(batch) : a <= arrived
    /\ Elems(inflight) \subseteq Elems(batch)
    /\ Elems(batch) \cap Elems(queue) = {}

\* PendingIsHeld made inductive, given OrderInv.  Outside of a call there is nothing
\* in flight; what is held has been submitted and not been answered by a call.
HeldInv ==
    /\ drain # "awaiting" => inflight = <<>> /\ batch = <<>> /\ current = "none"
    /\ drain = "awaiting" => batch # <<>>
    /\ \A m \in Elems(queue) \cup Elems(batch) : future[m] \in {"pending", "cancelled"}
    /\ \A m \in Msg : m > arrived => future[m] = "new"
    /\ PendingIsHeld

\* A message is given to the agent again only for a reason, and once for each: an
\* arrival after it that steers the call, or a /stop.  A call repeated after its
\* result had come, or a cancellation acted on twice, would break it (queue.py
\* 133-147, 264-271 and 284-286; commands.py 446-460).
RepeatsHaveCauses ==
    \A m \in 1 .. arrived : sent[m] <= 1 + (arrived - m) + stops

\* RepeatsHaveCauses made inductive: a message that waits in the queue, or whose call
\* is about to be taken as cancelled, still has a cause left to be sent for.
CancelDue == currentCancel \/ drainCancel \/ current = "cancelled"
CauseLeft == Elems(queue) \cup (IF CancelDue THEN Elems(batch) ELSE {})

CauseInv ==
    /\ currentCancel => current = "running"
    /\ \A m \in Msg : m > arrived => sent[m] = 0
    /\ \A m \in CauseLeft : sent[m] <= (arrived - m) + stops
    /\ RepeatsHaveCauses

\* A drain task "runs until the queue is empty, then exits" (queue.py 192), and every
\* arrival that is queued sees to one: only a /stop leaves messages that nobody drains.
DrainRunsUntilEmpty == queue # <<>> /\ drain = "idle" => stops > 0

\* Every caller is eventually answered (queue.py 122-124), unless a /stop has ended
\* the drain task in its sleep (queue.py 200-203) and nothing has arrived since.
LeftBehind == drain = "idle" /\ queue # <<>> /\ stops > 0

EventuallyAnswered ==
    \A m \in Msg : future[m] = "pending" ~> future[m] # "pending" \/ LeftBehind

\* The queue keeps the promises of MessageService.
Service == INSTANCE MessageService
           WITH status <- future, serving <- IF drain = "awaiting" THEN Elems(batch) ELSE {}

ImplementsService == Service!MSSpec
=============================================================================
