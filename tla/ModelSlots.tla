----------------------------- MODULE ModelSlots -----------------------------
(***************************************************************************)
(* The turns of all agents and what they wait for: the run lock of their   *)
(* runner (agents/runner.py), the threshold of use of their provider       *)
(* (core/usage.py), a slot of their model (core/concurrency.py) and, from  *)
(* inside a turn, the answer of another session, which the tool            *)
(* sessions_send (tools/server.py) asks for over HTTP while the turn keeps *)
(* its lock and its slot.  A reload of the configuration replaces the      *)
(* manager of the slots; turns in progress stay with the one they found.   *)
(*                                                                         *)
(* A turn takes the cached runner of its session or makes one              *)
(* (core/agent.py), and a failed or cancelled turn evicts whichever runner *)
(* is cached by then: turns that wait for the lock of an evicted runner    *)
(* stay with it beside later turns with a new one.  A runner is named by   *)
(* the turn that made it.  A streamed call is a task of its own, which     *)
(* nobody cancels: it may go on when its turn has given its slot back.     *)
(*                                                                         *)
(* asyncio.Lock and asyncio.Semaphore serve their waiters in order of      *)
(* arrival and no newcomer overtakes one; a slot or lock given back goes   *)
(* to the first waiter in the same step.                                   *)
(***************************************************************************)
EXTENDS Naturals, Sequences, FiniteSets

CONSTANTS
    Session,
    Jobs,        \* the sessions of jobs: priority "normal", the others are "critical"
    Model,       \* model strings as agents spell them, with the provider or without
    ModelOf,     \* the model string of a session's runner
    Base,        \* the model string without its provider
    Configs,     \* what pyclopse.yaml may say: limits per model, 0 for none, and a default
    MaxTurns,    \* bound: turns
    MaxManagers, \* bound: managers, one more than the reloads that change a limit
    None

Turn == 1 .. MaxTurns
Manager == 1 .. MaxManagers

\* limit_for: the exact spelling, or the base name, or the default; a limit of
\* 0 counts as missing.
LimitFor(c, m) ==
    IF c.limits[m] # 0 THEN c.limits[m]
    ELSE IF c.limits[Base[m]] # 0 THEN c.limits[Base[m]]
    ELSE c.default

ASSUME ModelSlotsAssumption ==
    /\ Jobs \subseteq Session
    /\ ModelOf \in [Session -> Model] /\ Base \in [Model -> Model]
    /\ Configs \subseteq [limits : [Model -> Nat], default : Nat \ {0}]
    /\ Configs # {}
    /\ MaxTurns \in Nat /\ MaxManagers \in Nat \ {0}
    /\ None \notin Turn

VARIABLES
    started,   \* how many turns there were
    session,   \* the session of a turn
    phase,     \* where a turn is
    manager,   \* the manager whose slot a turn uses or waits for
    asked,     \* the turn that will answer the question a turn has asked
    runner,    \* the runner a turn found or made
    cache,     \* _session_runners
    line,      \* _run_lock of a runner: its holder, then its waiters
    stray,     \* turns that have ended and whose call (send_task) goes on
    config,    \* the configuration of each manager
    current,   \* _manager
    free,      \* the value of a semaphore
    queue,     \* its waiters
    high       \* use as last polled is at the threshold for jobs

turns == <<started, session, phase, manager, asked, runner>>
runners == <<cache, line>>
slots == <<free, queue>>
settings == <<config, current>>
vars == <<turns, runners, stray, slots, settings, high>>

Phase == {"none", "preparing", "lining", "waiting", "calling", "asking", "ended"}
Holding == {"calling", "asking"}     \* inside `async with sem`
PastLock == {"waiting"} \cup Holding

TypeOK ==
    /\ started \in 0 .. MaxTurns
    /\ session \in [Turn -> Session \cup {None}]
    /\ phase \in [Turn -> Phase]
    /\ manager \in [Turn -> Manager \cup {None}]
    /\ asked \in [Turn -> Turn \cup {None}]
    /\ runner \in [Turn -> Turn \cup {None}]
    /\ cache \in [Session -> Turn \cup {None}]
    /\ line \in [Turn -> Seq(Turn)]
    /\ stray \subseteq Turn
    /\ config \in [Manager -> Configs]
    /\ current \in Manager
    /\ free \in [Manager -> [Model -> Nat]]
    /\ queue \in [Manager -> [Model -> Seq(Turn)]]
    /\ high \in BOOLEAN

Limits(c) == [m \in Model |-> LimitFor(c, m)]

Init ==
    /\ started = 0
    /\ session = [t \in Turn |-> None]
    /\ phase = [t \in Turn |-> "none"]
    /\ manager = [t \in Turn |-> None]
    /\ asked = [t \in Turn |-> None]
    /\ runner = [t \in Turn |-> None]
    /\ cache = [s \in Session |-> None]
    /\ line = [r \in Turn |-> <<>>]
    /\ stray = {}
    /\ \E c \in Configs :
         /\ config = [g \in Manager |-> c]
         /\ free = [g \in Manager |-> Limits(c)]
    /\ current = 1
    /\ queue = [g \in Manager |-> [m \in Model |-> <<>>]]
    /\ high = FALSE

-----------------------------------------------------------------------------
(* Helpers                                                                  *)

ModelOfTurn(t) == ModelOf[session[t]]

\* A turn t of session s gets its runner, phases having been brought up to
\* date for the others.
Arrive(t, s, phases) ==
    LET r == IF cache[s] = None THEN t ELSE cache[s] IN
    /\ t = started + 1 /\ t \in Turn
    /\ started' = t
    /\ session' = [session EXCEPT ![t] = s]
    /\ phase' = [phases EXCEPT ![t] = "preparing"]
    /\ runner' = [runner EXCEPT ![t] = r]
    /\ cache' = [cache EXCEPT ![s] = r]

Uncache(s) == cache' = [cache EXCEPT ![s] = None]

\* A streamed call is not cancelled with its turn, and it may be over already;
\* a job's call is awaited in the turn itself.
LeaveCall(t) ==
    stray' \in IF session[t] \in Jobs THEN {stray} ELSE {stray, stray \cup {t}}

\* q without t, which is in it once.
Without(q, t) ==
    LET i == CHOOSE j \in 1 .. Len(q) : q[j] = t
    IN  SubSeq(q, 1, i - 1) \o SubSeq(q, i + 1, Len(q))

LeaveLine(t) == line' = [line EXCEPT ![runner[t]] = Without(@, t)]

BugReleaseForgetsWaiter(t) ==
    LET g == manager[t]  m == ModelOfTurn(t) IN
    /\ free' = [free EXCEPT ![g][m] = @ + 1]
    /\ phase' = [phase EXCEPT ![t] = "ended"]
    /\ UNCHANGED queue

\* The end of `async with sem`: the first waiter has the slot, or it is free.
Release(t) ==
    LET g == manager[t]  m == ModelOfTurn(t)  q == queue[g][m] IN
    IF q = <<>>
    THEN /\ free' = [free EXCEPT ![g][m] = @ + 1]
         /\ phase' = [phase EXCEPT ![t] = "ended"]
         /\ UNCHANGED queue
    ELSE /\ queue' = [queue EXCEPT ![g][m] = Tail(q)]
         /\ phase' = [phase EXCEPT ![t] = "ended", ![Head(q)] = "calling"]
         /\ UNCHANGED free

-----------------------------------------------------------------------------
(* Turns                                                                    *)

\* A message or a due job for session s.
Start(s) ==
    /\ Arrive(started + 1, s, phase)
    /\ UNCHANGED <<manager, asked, line, stray, slots, settings, high>>

\* The vault's context is there and the runner is initialized.
Prepared(t) ==
    /\ phase[t] = "preparing"
    /\ phase' = [phase EXCEPT ![t] = "lining"]
    /\ line' = [line EXCEPT ![runner[t]] = Append(@, t)]
    /\ UNCHANGED <<started, session, manager, asked, runner, cache, stray, slots, settings, high>>

\* initialize() raises.
PrepareFails(t) ==
    /\ phase[t] = "preparing"
    /\ phase' = [phase EXCEPT ![t] = "ended"]
    /\ Uncache(session[t])
    /\ UNCHANGED <<started, session, manager, asked, runner, line, stray, slots, settings, high>>

BugEnterUnlocked(t) ==
    LET m == ModelOfTurn(t) IN
    /\ phase[t] = "lining"
    /\ manager' = [manager EXCEPT ![t] = current]
    /\ IF free[current][m] > 0
       THEN /\ free' = [free EXCEPT ![current][m] = @ - 1]
            /\ phase' = [phase EXCEPT ![t] = "calling"]
            /\ UNCHANGED queue
       ELSE /\ queue' = [queue EXCEPT ![current][m] = Append(@, t)]
            /\ phase' = [phase EXCEPT ![t] = "waiting"]
            /\ UNCHANGED free
    /\ UNCHANGED <<started, session, asked, runner, runners, stray, settings, high>>

BugEnterNoWait(t) ==
    LET m == ModelOfTurn(t) IN
    /\ phase[t] = "lining" /\ Head(line[runner[t]]) = t
    /\ ~ (high /\ session[t] \in Jobs)
    /\ manager' = [manager EXCEPT ![t] = current]
    /\ free' = [free EXCEPT ![current][m] = @ - 1]
    /\ phase' = [phase EXCEPT ![t] = "calling"]
    /\ UNCHANGED <<started, session, asked, runner, runners, stray, queue, settings, high>>

\* With the lock: acquire of the manager as it is now, threshold first.
Enter(t) ==
    LET m == ModelOfTurn(t) IN
    /\ phase[t] = "lining" /\ Head(line[runner[t]]) = t
    /\ ~ (high /\ session[t] \in Jobs)
    /\ manager' = [manager EXCEPT ![t] = current]
    /\ IF free[current][m] > 0
       THEN /\ free' = [free EXCEPT ![current][m] = @ - 1]
            /\ phase' = [phase EXCEPT ![t] = "calling"]
            /\ UNCHANGED queue
       ELSE /\ queue' = [queue EXCEPT ![current][m] = Append(@, t)]
            /\ phase' = [phase EXCEPT ![t] = "waiting"]
            /\ UNCHANGED free
    /\ UNCHANGED <<started, session, asked, runner, runners, stray, settings, high>>

\* ThrottledError.
Throttled(t) ==
    /\ phase[t] = "lining" /\ Head(line[runner[t]]) = t
    /\ high /\ session[t] \in Jobs
    /\ phase' = [phase EXCEPT ![t] = "ended"]
    /\ LeaveLine(t)
    /\ Uncache(session[t])
    /\ UNCHANGED <<started, session, manager, asked, runner, stray, slots, settings, high>>

\* The model calls sessions_send: the target may be any session, this one too.
Ask(t, s) ==
    /\ phase[t] = "calling"
    /\ Arrive(started + 1, s, [phase EXCEPT ![t] = "asking"])
    /\ asked' = [asked EXCEPT ![t] = started + 1]
    /\ UNCHANGED <<manager, line, stray, slots, settings, high>>

\* The HTTP request is answered, with the response or the error of that turn.
Answered(t) ==
    /\ phase[t] = "asking" /\ phase[asked[t]] = "ended"
    /\ phase' = [phase EXCEPT ![t] = "calling"]
    /\ asked' = [asked EXCEPT ![t] = None]
    /\ UNCHANGED <<started, session, manager, runner, runners, stray, slots, settings, high>>

BugHttpTimeoutNever(t) == FALSE /\ UNCHANGED vars

\* 60 seconds without an answer; the turn that was asked goes on.
HttpTimeout(t) ==
    /\ phase[t] = "asking" /\ phase[asked[t]] # "ended"
    /\ phase' = [phase EXCEPT ![t] = "calling"]
    /\ asked' = [asked EXCEPT ![t] = None]
    /\ UNCHANGED <<started, session, manager, runner, runners, stray, slots, settings, high>>

\* The model has answered.
Return(t) ==
    /\ phase[t] = "calling"
    /\ Release(t)
    /\ LeaveLine(t)
    /\ UNCHANGED <<started, session, manager, asked, runner, cache, stray, settings, high>>

\* The call raises, or the channel does that a part of the answer is sent to.
CallRaises(t) ==
    /\ phase[t] = "calling"
    /\ Release(t)
    /\ LeaveLine(t)
    /\ LeaveCall(t)
    /\ Uncache(session[t])
    /\ UNCHANGED <<started, session, manager, asked, runner, settings, high>>

BugCancelKeepsSlot(t) ==
    /\ phase[t] \notin {"none", "ended"}
    /\ IF phase[t] = "preparing" THEN UNCHANGED line ELSE LeaveLine(t)
    /\ phase' = [phase EXCEPT ![t] = "ended"]
    /\ queue' = IF phase[t] # "waiting" THEN queue
                ELSE [queue EXCEPT ![manager[t]][ModelOfTurn(t)] = Without(@, t)]
    /\ Uncache(session[t])
    /\ asked' = [asked EXCEPT ![t] = None]
    /\ UNCHANGED <<started, session, manager, runner, settings, high, free, stray>>

\* /stop, the time-out of a job or of a subagent, a kill.  A turn asked by this
\* one runs in another task and goes on.
Cancel(t) ==
    /\ phase[t] \notin {"none", "ended"}
    /\ IF phase[t] = "preparing" THEN UNCHANGED line ELSE LeaveLine(t)
    /\ IF phase[t] \in Holding THEN Release(t) /\ LeaveCall(t)
       ELSE /\ phase' = [phase EXCEPT ![t] = "ended"]
            /\ queue' = IF phase[t] # "waiting" THEN queue
                        ELSE [queue EXCEPT ![manager[t]][ModelOfTurn(t)] = Without(@, t)]
            /\ UNCHANGED <<free, stray>>
    /\ Uncache(session[t])
    /\ asked' = [asked EXCEPT ![t] = None]
    /\ UNCHANGED <<started, session, manager, runner, settings, high>>

\* The provider is done with a call nobody waits for.
StrayEnds(t) ==
    /\ t \in stray
    /\ stray' = stray \ {t}
    /\ UNCHANGED <<turns, runners, slots, settings, high>>

\* /reset, the reaper, a reload that changes the agent: the runner goes, its
\* turns stay.
Evict(s) ==
    /\ cache[s] # None
    /\ Uncache(s)
    /\ UNCHANGED <<turns, line, stray, slots, settings, high>>

-----------------------------------------------------------------------------
(* The configuration and the provider                                       *)

\* reload_config, when a limit or the default has changed: init_manager.
Reload(c) ==
    /\ current < MaxManagers /\ c # config[current]
    /\ current' = current + 1
    /\ config' = [config EXCEPT ![current + 1] = c]
    /\ free' = [free EXCEPT ![current + 1] = Limits(c)]
    /\ UNCHANGED <<turns, runners, stray, queue, high>>

\* A poll of the provider's usage; a new registry has not polled yet.
Poll ==
    /\ high' = ~ high
    /\ UNCHANGED <<turns, runners, stray, slots, settings>>

Next ==
    \/ \E s \in Session : Start(s) \/ Evict(s)
    \/ \E t \in Turn, s \in Session : Ask(t, s)
    \/ \E t \in Turn : Prepared(t) \/ PrepareFails(t) \/ Enter(t) \/ Throttled(t)
    \/ \E t \in Turn : Answered(t) \/ HttpTimeout(t)
    \/ \E t \in Turn : Return(t) \/ CallRaises(t) \/ Cancel(t) \/ StrayEnds(t)
    \/ \E c \in Configs : Reload(c)
    \/ Poll

\* The event loop runs what is ready, the HTTP client's clock runs, and every
\* call of a model returns or raises.
Fairness ==
    \A t \in Turn :
        /\ WF_vars(Prepared(t) \/ PrepareFails(t)) /\ WF_vars(Enter(t) \/ Throttled(t))
        /\ WF_vars(Answered(t) \/ HttpTimeout(t)) /\ WF_vars(Return(t) \/ CallRaises(t))

Spec == Init /\ [][Next]_vars /\ Fairness

-----------------------------------------------------------------------------
(* Properties                                                               *)

Callers(g, m) ==
    {t \in Turn : phase[t] \in Holding /\ manager[t] = g /\ ModelOfTurn(t) = m}

\* No slot is lost or made: whatever ends a turn (an answer, an exception, a
\* cancellation, at any point) and however often the limits are replaced in
\* between, the turns in a call and the slots left are the limit under which
\* the manager in question began.
SlotsConserved ==
    \A g \in 1 .. current, m \in Model :
        Cardinality(Callers(g, m)) + free[g][m] = LimitFor(config[g], m)

\* Nobody waits beside a free slot, and who waits for a slot is a turn.
NoIdleSlot ==
    \A g \in Manager, m \in Model :
        queue[g][m] # <<>> => free[g][m] = 0

\* Two turns of a session are past the run lock at one time only if the runner of one
\* has been evicted: then the other has a later runner, and a lock of its own.  What a
\* runner's turns wait for (a slot, an answer) and how they end (cancelled at any point,
\* failed) never lets two of them past its lock.
OneTurnAtATime ==
    \A t, u \in Turn :
        t # u /\ session[t] = session[u] /\ phase[t] \in PastLock /\ phase[u] \in PastLock
        => /\ runner[t] # runner[u]
           /\ runner[t] < runner[u] => cache[session[t]] # runner[t]

\* Locks and slots form no circle.  A turn that has not ended prepares itself or stands
\* behind one that can go on: the first at its runner's lock or, when that one waits for a
\* slot, a turn that has a slot of the same model from the same manager.  A turn that has a
\* slot needs its model, or the answer to its question or the time-out of the tool.
NobodyStuck ==
    \A t \in Turn : phase[t] \in {"lining"} \cup PastLock =>
        LET u == Head(line[runner[t]]) IN
        \/ phase[u] \in {"lining"} \cup Holding
        \/ phase[u] = "waiting" /\ Callers(manager[u], ModelOfTurn(u)) # {}

\* Every turn comes to an end, though turns that hold a slot and a lock wait
\* for the answers of turns that need the same: of another session of the same
\* model, of each other, or of a later turn of their own session.
EveryTurnEnds == \A t \in Turn : phase[t] = "preparing" ~> phase[t] = "ended"

\* The calls of one model, however it is spelled, that are under way: of turns, and
\* those their turns have left behind.
CallsOf(m) ==
    {t \in Turn : (phase[t] \in Holding \/ t \in stray) /\ Base[ModelOfTurn(t)] = Base[m]}

\* "at most 3 of those 5 can be in the middle of an LLM call simultaneously".
CallsWithinLimit == \A m \in Model : Cardinality(CallsOf(m)) <= LimitFor(config[current], m)

\* The same of the calls that some turn still waits for.
AwaitedWithinLimit ==
    \A m \in Model : Cardinality(CallsOf(m) \ stray) <= LimitFor(config[current], m)
=============================================================================
