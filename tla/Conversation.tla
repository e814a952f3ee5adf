---------------------------- MODULE Conversation ----------------------------
(***************************************************************************)
(* The conversation one agent has with its users: which session a message  *)
(* belongs to (core/session.py SessionManager, Gateway._get_active_session), *)
(* which AgentRunner answers it (core/agent.py) and what is written to the *)
(* session's history.json (agents/runner.py).                              *)
(*                                                                         *)
(* Channels, commands and finished jobs run as coroutines of one event     *)
(* loop.  A step below is the code between two points where a coroutine    *)
(* can suspend, so everything between two awaits of the source happens at  *)
(* once, and everything else may happen in between.                        *)
(***************************************************************************)
EXTENDS Naturals, Sequences, FiniteSets

CONSTANTS
    Msg,            \* messages, commands and job results
    Kinds,          \* Kinds[m]: what m may turn out to be, a subset of Kind
    None,
    Reaper,         \* the reaper task
    MaxSessions,    \* bound: sessions created
    MaxDays,        \* bound: midnights
    MaxDowns,       \* bound: restarts and crashes
    MaxReloads      \* bound: configuration reloads that change the agent

Kind == {"chat", "new", "reset", "deliver"}
Session == 1 .. MaxSessions      \* session ids in order of creation
Proc == Msg \cup {Reaper}        \* the coroutines that evict runners

ASSUME ConvAssumption ==
    /\ Kinds \in [Msg -> SUBSET Kind]
    /\ None \notin Msg /\ None \notin Nat
    /\ Reaper \notin Msg
    /\ MaxSessions \in Nat /\ MaxDays \in Nat /\ MaxDowns \in Nat /\ MaxReloads \in Nat

VARIABLES
    daily,        \* configuration: sessions.daily_rollover
    pointer,      \* the file active_session
    created,      \* number of sessions ever created
    saved,        \* session.json: None, or the day of its updated_at
    index,        \* SessionManager.sessions: None, or the day of its updated_at
    hist,         \* history.json: the exchanges in it
    archived,     \* the files under archived/
    cache,        \* Agent._session_runners; a runner is named by who created it
    open,         \* runners whose _app is set
    loaded,       \* runners with _history_loaded
    log,          \* the message_history of a runner's _app
    line,         \* _run_lock: its holder, then those waiting for it
    phase,        \* where each coroutine is suspended
    kind,         \* what a message is
    session,      \* the Session a coroutine works on
    runner,       \* the runner a message was given
    closes,       \* the runner whose cleanup() a coroutine awaits
    orphan,       \* messages being sent on an _app that is no longer the runner's
    detached,     \* messages whose Session object has left the index
    doomed,       \* the reaper's list to_reap
    disturbed,    \* ghost: sessions whose runner was taken from somebody or
                  \* forgotten, opened twice at once, or killed between two renames
    days, downs, reloads   \* counters for the bounds

manager == <<daily, pointer, created, saved, index>>
files == <<hist, archived>>
runners == <<cache, open, loaded, log, line>>
messages == <<phase, kind, session, runner, orphan, detached>>
evictions == <<closes, doomed, disturbed>>
counters == <<days, downs, reloads>>
vars == <<manager, files, runners, messages, evictions, counters>>

Day == {"today", "before"}       \* updated_at against today's midnight
Phase == {"new",                 \* not arrived
          "rolling",             \* in _archive_and_rollover, awaiting on_rollover
          "handed",              \* has its session, in the hooks of handle_message
          "prompting",           \* has its runner, awaiting the vault's context
          "opening",             \* in AgentRunner.initialize
          "waiting",             \* for _run_lock
          "sending",             \* holds _run_lock, awaiting the model
          "replacing",           \* /new or /reset awaiting the eviction
          "evicting",            \* failed, or reaping, and awaiting the eviction
          "answered", "failed"}
Using == {"prompting", "opening", "waiting", "sending"}   \* has a runner
Working == Using \cup {"rolling", "handed", "replacing", "evicting"}

TypeOK ==
    /\ daily \in BOOLEAN
    /\ pointer \in Session \cup {None}
    /\ created \in 0 .. MaxSessions
    /\ saved \in [Session -> Day \cup {None}]
    /\ index \in [Session -> Day \cup {None}]
    /\ hist \in [Session -> SUBSET Msg]
    /\ archived \in [Session -> SUBSET Msg]
    /\ cache \in [Session -> Msg \cup {None}]
    /\ open \subseteq Msg /\ loaded \subseteq Msg
    /\ log \in [Msg -> SUBSET Msg]
    /\ line \in [Msg -> Seq(Msg)]
    /\ phase \in [Proc -> Phase]
    /\ kind \in [Msg -> Kind \cup {None}]
    /\ session \in [Proc -> Session \cup {None}]
    /\ runner \in [Msg -> Msg \cup {None}]
    /\ closes \in [Proc -> Msg \cup {None}]
    /\ orphan \subseteq Msg /\ detached \subseteq Msg
    /\ doomed \subseteq Session /\ disturbed \subseteq Session
    /\ days \in 0 .. MaxDays /\ downs \in 0 .. MaxDowns /\ reloads \in 0 .. MaxReloads

Init ==
    /\ daily \in BOOLEAN
    /\ pointer = None /\ created = 0
    /\ saved = [s \in Session |-> None]
    /\ index = [s \in Session |-> None]
    /\ hist = [s \in Session |-> {}]
    /\ archived = [s \in Session |-> {}]
    /\ cache = [s \in Session |-> None]
    /\ open = {} /\ loaded = {}
    /\ log = [m \in Msg |-> {}]
    /\ line = [m \in Msg |-> <<>>]
    /\ phase = [p \in Proc |-> "new"]
    /\ kind = [m \in Msg |-> None]
    /\ session = [p \in Proc |-> None]
    /\ runner = [m \in Msg |-> None]
    /\ closes = [p \in Proc |-> None]
    /\ orphan = {} /\ detached = {} /\ doomed = {} /\ disturbed = {}
    /\ days = 0 /\ downs = 0 /\ reloads = 0

---------------------------------------------------------------------------
(* Evicting a runner and replacing a session, the two halves of several     *)
(* operations.  cleanup() suspends only if the runner has been initialized. *)

\* The messages that were given runner r and are not done with it.
Users(r) == {m \in Msg : runner[m] = r /\ phase[m] \in Using}

Suspends(s) == cache[s] # None /\ cache[s] \in open

\* Agent.evict_session_runner up to its await: the runner leaves the cache.
Evict(p, s) ==
    /\ cache' = [cache EXCEPT ![s] = None]
    /\ closes' = [closes EXCEPT ![p] = IF Suspends(s) THEN cache[s] ELSE None]
    /\ disturbed' = disturbed \cup {t \in {s} : cache[s] # None /\ Users(cache[s]) \ {p} # {}}

\* The end of cleanup(): the runner has no _app until somebody initializes it.
Closed(p) ==
    /\ open' = open \ {closes[p]}
    /\ orphan' = orphan \cup {m \in Users(closes[p]) : phase[m] = "sending"}
    /\ log' = [m \in Msg |-> IF m = closes[p] THEN {} ELSE log[m]]
    /\ closes' = [closes EXCEPT ![p] = None]
    /\ UNCHANGED <<cache, loaded, line, doomed, disturbed>>

\* _remove_from_index: a Session object somebody will touch is no longer the indexed one.
BugUnindexed(idx, s) == [idx EXCEPT ![s] = "inactive"]  \* mutant: kept, marked inactive
Unindexed(idx, s) == [idx EXCEPT ![s] = None]
Detached(s) == detached \cup {m \in Msg : /\ session[m] = s /\ kind[m] = "chat"
                                        /\ phase[m] \in Using \cup {"handed"}}

\* The coroutine of m lets go of its runner and its Session object.
LetGo(m) ==
    /\ runner' = [runner EXCEPT ![m] = None]
    /\ orphan' = orphan \ {m}
    /\ detached' = detached \ {m}

\* create_session and set_active_session, for m: a new session is the active one.
\* idx is what is left of the index.
CreateSession(m, idx) ==
    LET s == created + 1
    IN  /\ created < MaxSessions
        /\ created' = s
        /\ index' = [idx EXCEPT ![s] = "today"]
        /\ saved' = [saved EXCEPT ![s] = "today"]
        /\ pointer' = s
        /\ session' = [session EXCEPT ![m] = s]

\* Mutant: the archived files of a session are replaced.
BugArchive(s) ==
    /\ archived' = [archived EXCEPT ![s] = hist[s]]
    /\ hist' = [hist EXCEPT ![s] = {}]

Archive(s) ==
    /\ archived' = [archived EXCEPT ![s] = @ \cup hist[s]]
    /\ hist' = [hist EXCEPT ![s] = {}]

---------------------------------------------------------------------------
(* Arrival: get_active_session, then the session is handed to handle_message, *)
(* to a command or to the delivery of a job's result.                         *)

\* The day of session s: from the indexed object, or from session.json.
DayOf(s) == IF index[s] # None THEN index[s] ELSE saved[s]

Arrived(m) ==
    /\ phase[m] = "new"
    /\ \E k \in Kinds[m] : kind' = [kind EXCEPT ![m] = k]

\* No pointer: a job's result is dropped, everybody else opens the first session.
ArriveFirst(m) ==
    /\ Arrived(m)
    /\ pointer = None
    /\ IF kind'[m] = "deliver"
       THEN /\ phase' = [phase EXCEPT ![m] = "failed"]
            /\ UNCHANGED <<manager, session>>
       ELSE /\ CreateSession(m, index)
            /\ phase' = [phase EXCEPT ![m] = "handed"]
            /\ UNCHANGED daily
    /\ UNCHANGED <<files, runners, runner, orphan, detached, evictions, counters>>

\* The active session is from today, or kept for ever: the message joins it.  If it
\* is not in the index it is loaded from disk, as a new object.  A message or command
\* then saves who wrote it in session.json, a job's result does not.
ArriveResume(m) ==
    /\ Arrived(m)
    /\ pointer # None
    /\ daily => DayOf(pointer) = "today"
    /\ index' = [index EXCEPT ![pointer] = DayOf(pointer)]
    /\ saved' = [saved EXCEPT ![pointer] = IF kind'[m] = "deliver" THEN @ ELSE DayOf(pointer)]
    /\ session' = [session EXCEPT ![m] = pointer]
    /\ phase' = [phase EXCEPT ![m] = "handed"]
    /\ UNCHANGED <<daily, pointer, created, files, runners, runner, orphan, detached,
                   evictions, counters>>

\* The rest of _archive_and_rollover and the new pointer: s is the session replaced.
\* The replacing message works on the new one.
RollOver(m, s) ==
    /\ CreateSession(m, Unindexed(index, s))
    /\ detached' = Detached(s)
    /\ phase' = [phase EXCEPT ![m] = "handed"]

\* The active session is from an earlier day: its files are archived, its runner
\* evicted and a new session takes its place.
ArriveStale(m) ==
    /\ Arrived(m)
    /\ pointer # None
    /\ daily /\ DayOf(pointer) = "before"
    /\ Archive(pointer)
    /\ Evict(m, pointer)
    /\ IF Suspends(pointer)
       THEN /\ phase' = [phase EXCEPT ![m] = "rolling"]
            /\ session' = [session EXCEPT ![m] = pointer]
            /\ index' = [index EXCEPT ![pointer] = DayOf(pointer)]
            /\ UNCHANGED <<pointer, created, saved, detached>>
       ELSE RollOver(m, pointer)
    /\ UNCHANGED <<daily, open, loaded, log, line, runner, orphan, doomed, counters>>

RolledOver(m) ==
    /\ phase[m] = "rolling"
    /\ Closed(m)
    /\ RollOver(m, session[m])
    /\ UNCHANGED <<daily, files, kind, runner, counters>>

---------------------------------------------------------------------------
(* A turn: the runner, its app, its lock, the history and the model.        *)

\* _load_history: what is on disk is read once in the runner's lifetime.
BugHistory(m, r, lg) == lg      \* mutant: never
History(m, r, lg) == IF r \in loaded THEN lg ELSE lg \cup hist[session[m]]

\* The queue of a lock without m, which holds it, waits for it or is not in it.
Without(queue, m) ==
    IF \E i \in 1 .. Len(queue) : queue[i] = m
    THEN LET i == CHOOSE i \in 1 .. Len(queue) : queue[i] = m
         IN  SubSeq(queue, 1, i - 1) \o SubSeq(queue, i + 1, Len(queue))
    ELSE queue

\* m has the lock of r, whose app's message_history is lg: the history is loaded, then
\* the model is called, or a job's result is appended and saved and the lock given back
\* without a suspension.
Work(m, r, lg, rest) ==
    LET history == History(m, r, lg)
    IN  /\ loaded' = loaded \cup {r}
        /\ IF kind[m] = "deliver"
           THEN /\ log' = [log EXCEPT ![r] = history \cup {m}]
                /\ hist' = [hist EXCEPT ![session[m]] = history \cup {m}]
                /\ line' = [line EXCEPT ![r] = rest]
                /\ phase' = [phase EXCEPT ![m] = "answered"]
           ELSE /\ log' = [log EXCEPT ![r] = history]
                /\ line' = [line EXCEPT ![r] = <<m>> \o rest]
                /\ phase' = [phase EXCEPT ![m] = "sending"]
                /\ UNCHANGED hist

\* async with _run_lock: no suspension if nobody holds it or waits for it.
Lock(m, r, lg) ==
    IF line[r] = <<>>
    THEN Work(m, r, lg, <<>>)
    ELSE /\ line' = [line EXCEPT ![r] = Append(@, m)]
         /\ log' = [log EXCEPT ![r] = lg]
         /\ phase' = [phase EXCEPT ![m] = "waiting"]
         /\ UNCHANGED <<loaded, hist>>

\* AgentRunner.run_stream and inject_turns up to the lock.  The check of _app is
\* outside the lock: two messages may both initialize the runner.
Enter(m, r) ==
    IF r \in open
    THEN /\ Lock(m, r, log[r])
         /\ UNCHANGED disturbed
    ELSE /\ phase' = [phase EXCEPT ![m] = "opening"]
         /\ disturbed' = disturbed \cup
                {t \in {session[m]} : \E o \in Users(r) : phase[o] = "opening"}
         /\ UNCHANGED <<loaded, hist, log, line>>

GiveRunner(m, r) ==
    /\ phase[m] = "handed" /\ kind[m] = "chat"
    /\ cache' = [cache EXCEPT ![session[m]] = r]
    /\ runner' = [runner EXCEPT ![m] = r]
    /\ phase' = [phase EXCEPT ![m] = "prompting"]
    /\ UNCHANGED <<manager, files, open, loaded, log, line, kind, session, orphan,
                   detached, evictions, counters>>

\* Mutants: a new runner for every message; one runner for all sessions.
BugTakeRunner(m) == GiveRunner(m, m)
BugTakeAnyRunner(m) ==
    IF \A s \in Session : cache[s] = None THEN GiveRunner(m, m)
    ELSE \E s \in Session : cache[s] # None /\ GiveRunner(m, cache[s])

\* Agent._get_session_runner: the cached runner or a new one.
TakeRunner(m) ==
    GiveRunner(m, IF cache[session[m]] = None THEN m ELSE cache[session[m]])

\* The vault's context has come.
StartRun(m) ==
    /\ phase[m] = "prompting"
    /\ Enter(m, runner[m])
    /\ UNCHANGED <<manager, archived, cache, open, kind, session, runner, orphan,
                   detached, closes, doomed, counters>>

\* _deliver_result: a job's result goes through the cached runner, or straight into
\* the history file if there is none.
Deliver(m) ==
    LET s == session[m]
    IN  /\ phase[m] = "handed" /\ kind[m] = "deliver"
        /\ IF cache[s] = None
           THEN /\ hist' = [hist EXCEPT ![s] = @ \cup {m}]
                /\ phase' = [phase EXCEPT ![m] = "answered"]
                /\ UNCHANGED <<runner, loaded, log, line, disturbed>>
           ELSE /\ runner' = [runner EXCEPT ![m] = cache[s]]
                /\ Enter(m, cache[s])
        /\ UNCHANGED <<manager, archived, cache, open, kind, session, orphan, detached,
                       closes, doomed, counters>>

\* initialize() returns: the runner has a new _app with an empty message_history,
\* whatever app it had before.
Opened(m) ==
    LET r == runner[m]
    IN  /\ phase[m] = "opening"
        /\ open' = open \cup {r}
        /\ orphan' = orphan \cup {o \in Users(r) : phase[o] = "sending"}
        /\ Lock(m, r, {})
        /\ UNCHANGED <<manager, archived, cache, kind, session, runner, detached,
                       evictions, counters>>

\* The lock comes to m and its runner has an app.
GetLock(m) ==
    LET r == runner[m]
    IN  /\ phase[m] = "waiting" /\ Head(line[r]) = m
        /\ r \in open
        /\ Work(m, r, log[r], Without(line[r], m))
        /\ UNCHANGED <<manager, archived, cache, open, kind, session, runner, orphan,
                       detached, evictions, counters>>

\* The answer is complete.  _save_history writes the message_history of the app the
\* runner has now, if it has one and the history is not empty; then Session.touch.
Answer(m) ==
    LET r == runner[m]  s == session[m]
        history == IF m \in orphan THEN log[r] ELSE log[r] \cup {m}
    IN  /\ phase[m] = "sending"
        /\ log' = [log EXCEPT ![r] = history]
        /\ hist' = IF r \in open /\ history # {}
                   THEN [hist EXCEPT ![s] = history] ELSE hist
        /\ line' = [line EXCEPT ![r] = Without(@, m)]
        /\ saved' = [saved EXCEPT ![s] = "today"]
        /\ index' = IF m \in detached THEN index ELSE [index EXCEPT ![s] = "today"]
        /\ phase' = [phase EXCEPT ![m] = "answered"]
        /\ LetGo(m)
        /\ UNCHANGED <<daily, pointer, created, archived, cache, open, loaded, kind,
                       session, evictions, counters>>

\* Mutant: the stream is not closed and its run lock stays taken.
BugFail(m) ==
    /\ phase[m] \in Using /\ kind[m] = "chat"
    /\ Evict(m, session[m])
    /\ phase' = [phase EXCEPT ![m] = IF Suspends(session[m]) THEN "evicting" ELSE "failed"]
    /\ LetGo(m)
    /\ UNCHANGED <<manager, files, open, loaded, log, line, kind, session, doomed, counters>>

\* An exception, or a cancellation: Agent.handle_message evicts whatever runner the
\* session has in the cache and answers with an error.  The lock is given back; the task
\* that makes the model's call is not cancelled, what it still does is not modelled.
Fail(m) ==
    LET r == runner[m]  s == session[m]
    IN  /\ phase[m] \in Using /\ kind[m] = "chat"
        /\ line' = [line EXCEPT ![r] = Without(@, m)]
        /\ Evict(m, s)
        /\ phase' = [phase EXCEPT ![m] = IF Suspends(s) THEN "evicting" ELSE "failed"]
        /\ LetGo(m)
        /\ UNCHANGED <<manager, files, open, loaded, log, kind, session, doomed, counters>>

\* The same for a job's result: the exception is logged and the result dropped, or the
\* time-out of its job cancels the delivery, in the line of the lock as anywhere else.
FailDeliver(m) ==
    LET r == runner[m]
    IN  /\ phase[m] \in Using /\ kind[m] = "deliver"
        /\ line' = [line EXCEPT ![r] = Without(@, m)]
        /\ phase' = [phase EXCEPT ![m] = "failed"]
        /\ LetGo(m)
        /\ UNCHANGED <<manager, files, cache, open, loaded, log, kind, session, evictions,
                       counters>>

Evicted(m) ==
    /\ phase[m] = "evicting"
    /\ Closed(m)
    /\ phase' = [phase EXCEPT ![m] = "failed"]
    /\ UNCHANGED <<manager, files, kind, session, runner, detached, counters>>

---------------------------------------------------------------------------
(* /new and /reset.                                                         *)

Replace(m) ==
    /\ CreateSession(m, index)
    /\ phase' = [phase EXCEPT ![m] = "answered"]

\* /reset archives the history first.
Command(m) ==
    LET s == session[m]
    IN  /\ phase[m] = "handed" /\ kind[m] \in {"new", "reset"}
        /\ IF kind[m] = "reset" THEN Archive(s) ELSE UNCHANGED files
        /\ Evict(m, s)
        /\ IF Suspends(s)
           THEN /\ phase' = [phase EXCEPT ![m] = "replacing"]
                /\ UNCHANGED <<pointer, created, saved, index, session>>
           ELSE Replace(m)
        /\ UNCHANGED <<daily, open, loaded, log, line, kind, runner, orphan, detached,
                       doomed, counters>>

Replaced(m) ==
    /\ phase[m] = "replacing"
    /\ Closed(m)
    /\ Replace(m)
    /\ UNCHANGED <<daily, files, kind, runner, detached, counters>>

---------------------------------------------------------------------------
(* The configuration, the reaper, midnight and restarts.                    *)

\* reload_config finds the agent's settings changed and clears its cache of runners.
\* It closes none of them: a message goes on with the one it has.
ForgetRunners ==
    /\ reloads < MaxReloads
    /\ reloads' = reloads + 1
    /\ \E s \in Session : cache[s] # None
    /\ cache' = [s \in Session |-> None]
    /\ disturbed' = disturbed \cup {s \in Session : cache[s] # None /\ Users(cache[s]) # {}}
    /\ UNCHANGED <<manager, files, open, loaded, log, line, messages, closes, doomed, days, downs>>

\* _reap_stale_sessions picks the sessions idle for ttl_hours, some of those whose
\* last activity is not of today.
Sweep ==
    /\ phase[Reaper] = "new" /\ doomed = {}
    /\ \E S \in SUBSET {s \in Session : index[s] = "before"} \ {{}} : doomed' = S
    /\ UNCHANGED <<manager, files, runners, messages, closes, disturbed, counters>>

\* on_expire evicts the session's runner, then the session leaves the index: nothing
\* looks again whether it is still idle.
Reap(s) ==
    /\ phase[Reaper] = "new" /\ s \in doomed
    /\ doomed' = doomed \ {s}
    /\ IF index[s] = None
       THEN UNCHANGED <<index, cache, closes, disturbed, phase, session, detached>>
       ELSE /\ Evict(Reaper, s)
            /\ IF Suspends(s)
               THEN /\ phase' = [phase EXCEPT ![Reaper] = "evicting"]
                    /\ session' = [session EXCEPT ![Reaper] = s]
                    /\ UNCHANGED <<index, detached>>
               ELSE /\ index' = Unindexed(index, s)
                    /\ detached' = Detached(s)
                    /\ UNCHANGED <<phase, session>>
    /\ UNCHANGED <<daily, pointer, created, saved, files, open, loaded, log, line, kind,
                   runner, orphan, counters>>

Reaped ==
    LET s == session[Reaper]
    IN  /\ phase[Reaper] = "evicting"
        /\ Closed(Reaper)
        /\ index' = Unindexed(index, s)
        /\ detached' = Detached(s)
        /\ phase' = [phase EXCEPT ![Reaper] = "new"]
        /\ session' = [session EXCEPT ![Reaper] = None]
        /\ UNCHANGED <<daily, pointer, created, saved, files, kind, runner, counters>>

Midnight ==
    LET Older(f) == [s \in Session |-> IF f[s] = None THEN None ELSE "before"]
    IN  /\ days < MaxDays
        /\ days' = days + 1
        /\ saved' = Older(saved) /\ index' = Older(index)
        /\ UNCHANGED <<daily, pointer, created, files, runners, messages, evictions, downs, reloads>>

\* The process ends, at any moment, and is started again: start() loads every
\* session of the disk into the index.
Down ==
    /\ downs < MaxDowns
    /\ downs' = downs + 1
    /\ index' = saved
    /\ cache' = [s \in Session |-> None]
    /\ open' = {} /\ loaded' = {}
    /\ log' = [m \in Msg |-> {}]
    /\ line' = [m \in Msg |-> <<>>]
    /\ phase' = [p \in Proc |-> IF phase[p] \notin Working THEN phase[p]
                                ELSE IF p = Reaper THEN "new" ELSE "failed"]
    /\ session' = [session EXCEPT ![Reaper] = None]
    /\ closes' = [p \in Proc |-> None]
    /\ runner' = [m \in Msg |-> None]
    /\ orphan' = {} /\ detached' = {} /\ doomed' = {}
    /\ UNCHANGED <<daily, pointer, created, saved, kind, days, reloads>>

Restart == Down /\ UNCHANGED <<files, disturbed>>

\* The process dies in _save_history or _inject_turns_to_disk, after history.json was
\* renamed to history_previous.json, which nothing reads, and before the new file took
\* its place.
CrashInSave(m) ==
    /\ \/ phase[m] = "sending" /\ runner[m] \in open
       \/ phase[m] = "handed" /\ kind[m] = "deliver" /\ cache[session[m]] = None
    /\ Down
    /\ hist' = [hist EXCEPT ![session[m]] = {}]
    /\ disturbed' = disturbed \cup {session[m]}
    /\ UNCHANGED archived

---------------------------------------------------------------------------

Refused(m) == phase[m] = "waiting" /\ Head(line[runner[m]]) = m /\ runner[m] \notin open
              /\ (Fail(m) \/ FailDeliver(m))

\* What a message does by itself once it has arrived.  That initialize(), cleanup()
\* and the model's stream come to an end is the providers' doing (they time out).
Proceed(m) ==
    \/ RolledOver(m) \/ TakeRunner(m) \/ StartRun(m) \/ Opened(m) \/ GetLock(m)
    \/ Answer(m) \/ Refused(m) \/ Evicted(m)
    \/ Deliver(m) \/ Command(m) \/ Replaced(m)

Next ==
    \/ \E m \in Msg : \/ ArriveFirst(m) \/ ArriveResume(m) \/ ArriveStale(m)
                      \/ Proceed(m) \/ Fail(m) \/ FailDeliver(m) \/ CrashInSave(m)
    \/ Sweep \/ (\E s \in Session : Reap(s)) \/ Reaped
    \/ ForgetRunners \/ Midnight \/ Restart

Fairness == WF_vars(\E m \in Msg : Proceed(m))

Spec == Init /\ [][Next]_vars /\ Fairness

---------------------------------------------------------------------------
(* Properties.                                                              *)

Exchanges == {m \in Msg : phase[m] = "answered" /\ kind[m] \in {"chat", "deliver"}}

\* A session whose runner nobody took away, opened twice or died with keeps every
\* exchange it answered and every result delivered to it, in history.json or under
\* archived/: through rollovers, commands, sweeps and restarts.
AnsweredIsKept ==
    \A m \in Exchanges : session[m] \notin disturbed
                         => m \in hist[session[m]] \cup archived[session[m]]

\* In such a session all the messages being answered share the one cached runner, so
\* its run lock makes them take turns.
OneRunnerPerSession ==
    \A m \in Msg : phase[m] \in Using /\ session[m] \notin disturbed
                   => runner[m] = cache[session[m]]

\* The run lock of a runner is held or free: its queue holds exactly the messages that
\* want it, the first alone is in its turn, and nobody waits for a lock whose holder
\* failed, was cancelled or died.
InLine == {"waiting", "sending"}
RunLock ==
    /\ \A r \in Msg : \A i \in 1 .. Len(line[r]) :
          LET x == line[r][i]
          IN  runner[x] = r /\ phase[x] \in InLine /\ (phase[x] = "sending" => i = 1)
    /\ \A m \in Msg : phase[m] \in InLine =>
          \E i \in 1 .. Len(line[runner[m]]) : line[runner[m]][i] = m

\* "Fresh context, no history" (commands.py 444): what the model is shown for a message
\* are exchanges of the message's own session, whoever used the runner before.
FreshContext ==
    \A m \in Msg : phase[m] = "sending" /\ m \notin orphan
                   => \A x \in log[runner[m]] : session[x] = session[m]

\* A conversation that was replaced never becomes the active one again, whatever a
\* suspended rollover or command remembers, and over restarts.
PointerMovesForward ==
    [][pointer' # pointer => pointer' # None /\ (pointer # None => pointer' > pointer)]_vars

\* What of the files the promise is about: nothing of a disturbed session.
Kept == [s \in Session |-> IF s \in disturbed THEN {} ELSE hist[s] \cup archived[s]]

Log == INSTANCE ConversationLog WITH active <- pointer, kept <- Kept, broken <- disturbed

\* The sessions and their files implement ConversationLog: a session that becomes active
\* is a later one and empty, and in a session nobody disturbed the files only gain
\* exchanges, one at a time and each in one session, through turns, deliveries,
\* archiving, rollovers, reloads and restarts.
ImplementsLog == Log!Spec

\* Whoever sent a message is told something.
EventuallyAnswered ==
    \A m \in Msg : phase[m] # "new" ~> phase[m] \in {"answered", "failed"}

\* "saves history after a successful turn" (runner.py 1101).
AnsweredIsSaved ==
    \A m \in Exchanges : m \in hist[session[m]] \cup archived[session[m]]

\* "one per agent; all channels share it" (gateway.py 2367): a new session is opened
\* for the first message, for a day and for a command.
OneSessionPerDay ==
    created <= 1 + days + Cardinality({m \in Msg : kind[m] \in {"new", "reset"}})
=============================================================================
