----------------------------- MODULE Subagents -----------------------------
(***************************************************************************)
(* Subagents: one-shot jobs that an agent starts in the background and     *)
(* whose answers come back to the session that started them.               *)
(* jobs/scheduler.py keeps the registry, the running set, the task handles *)
(* and the queue of follow-up messages; the executor in core/gateway.py    *)
(* runs the turns and delivers the answers; api/routes/subagents.py        *)
(* spawns, kills, interrupts and sends.                                    *)
(*                                                                         *)
(* All of it runs in one event loop.  A step is the code between two       *)
(* points where a coroutine can suspend.  A task is one asyncio.Task of    *)
(* _run_job; a subagent normally has one, and another for each time it is  *)
(* run by hand.                                                            *)
(***************************************************************************)
EXTENDS Naturals, Sequences

CONSTANTS
    MaxSubs,     \* bound: subagents spawned
    MaxTasks,    \* bound: tasks of _run_job created
    Msg,         \* follow-up messages, each sent at most once
    Chat,        \* the chat session that spawns
    None

Sub == 1 .. MaxSubs       \* job ids, in order of creation
Task == 1 .. MaxTasks

ASSUME SubagentsAssumption ==
    /\ MaxSubs \in Nat /\ MaxTasks \in Nat
    /\ Chat \notin Task /\ None \notin Sub \cup Task \cup Msg \cup {Chat}
    /\ "task" \notin Msg

VARIABLES
    spawned, started,   \* how many subagents and tasks there were
    registered,   \* JobScheduler.jobs
    status,       \* Job.status
    running,      \* _running_jobs
    handle,       \* _running_tasks
    queue,        \* _subagent_message_queue
    results,      \* the keys of _subagent_results
    parent,       \* run.report_to_session: Chat, or the task whose session it is
    fallback,     \* run.report_to_agent is set
    job,          \* the subagent of a task
    phase,        \* where a task is suspended
    batch,        \* follow-up messages popped and not yet dealt with
    answer,       \* the response at hand, named by what it answers; None if empty
    chat,         \* the chat session is in the SessionManager's index
    sessions,     \* tasks whose job session is in that index
    told,         \* answers delivered, in order
    fate,         \* what became of a message
    killed,       \* subagents kill_subagent returned True for
    again,        \* subagents run_job_now was called for after the spawn
    raised        \* tasks a delivery of which raised an exception

registry == <<spawned, started, registered, status, running, handle, results>>
requests == <<parent, fallback, job>>
execution == <<phase, batch, answer>>
outside == <<chat, told>>
mail == <<queue, fate>>
past == <<killed, again, raised>>
vars == <<registry, requests, execution, outside, mail, sessions, past>>

Answer == Msg \cup {"task"}
Status == {"pending", "running", "failed", "completed"}
Phase == {"none", "created",
          "opening",      \* the executor awaits its session
          "turn",         \* awaiting the answer to the task
          "followup",     \* awaiting the answer to Head(batch)
          "delivering",   \* writing the answer to a history and sending it on
          "evicting",     \* done, in the executor's finally clause
          "failing",      \* an exception, in the executor's finally clause
          "timing",       \* cancelled by wait_for, unwinding
          "killing",      \* cancelled by kill_subagent, unwinding
          "aborting",     \* the same, in the middle of the finally clause
          "ended"}
Fate == {"unsent", "queued", "taken", "answered", "discarded"}

InTurn == {"turn", "followup"}
Suspended == InTurn \cup {"delivering"}
Cleaning == {"evicting", "failing"}
Body == {"opening", "timing"} \cup Suspended \cup Cleaning  \* between _running_jobs.add and discard
Unwinding == {"killing", "aborting"}

TypeOK ==
    /\ spawned \in 0 .. MaxSubs /\ started \in 0 .. MaxTasks
    /\ registered \subseteq Sub /\ running \subseteq Sub /\ results \subseteq Sub
    /\ status \in [Sub -> Status]
    /\ handle \in [Sub -> Task \cup {None}]
    /\ queue \in [Sub -> Seq(Msg)]
    /\ parent \in [Sub -> Task \cup {Chat, None}]
    /\ fallback \in [Sub -> BOOLEAN]
    /\ job \in [Task -> Sub \cup {None}]
    /\ phase \in [Task -> Phase]
    /\ batch \in [Task -> Seq(Msg)]
    /\ answer \in [Task -> Answer \cup {None}]
    /\ chat \in BOOLEAN
    /\ sessions \subseteq Task
    /\ told \in [Sub -> Seq(Answer)]
    /\ fate \in [Msg -> Fate]
    /\ killed \subseteq Sub /\ again \subseteq Sub /\ raised \subseteq Task

Init ==
    /\ spawned = 0 /\ started = 0
    /\ registered = {} /\ running = {} /\ results = {}
    /\ status = [s \in Sub |-> "pending"]
    /\ handle = [s \in Sub |-> None]
    /\ queue = [s \in Sub |-> <<>>]
    /\ parent = [s \in Sub |-> None]
    /\ fallback = [s \in Sub |-> FALSE]
    /\ job = [t \in Task |-> None]
    /\ phase = [t \in Task |-> "none"]
    /\ batch = [t \in Task |-> <<>>]
    /\ answer = [t \in Task |-> None]
    /\ chat = TRUE
    /\ sessions = {}
    /\ told = [s \in Sub |-> <<>>]
    /\ fate = [m \in Msg |-> "unsent"]
    /\ killed = {} /\ again = {} /\ raised = {}

-----------------------------------------------------------------------------
(* Starting and cancelling                                                  *)

Elements(q) == {q[i] : i \in 1 .. Len(q)}

\* The fates of the messages of a queue that is thrown away.
Drop(f, q) == [m \in Msg |-> IF m \in Elements(q) THEN "discarded" ELSE f[m]]

\* asyncio.create_task(_run_job(s)), its handle replacing an earlier one.
NewTask(s, handles, phases) ==
    LET t == started + 1 IN
    /\ started < MaxTasks
    /\ started' = t
    /\ handle' = [handles EXCEPT ![s] = t]
    /\ job' = [job EXCEPT ![t] = s]
    /\ phase' = [phases EXCEPT ![t] = "created"]

\* spawn_subagent: a new job, registered and run at once.
NewSub(p, f, handles, phases, kept) ==
    LET s == spawned + 1 IN
    /\ spawned < MaxSubs
    /\ spawned' = s
    /\ registered' = kept \cup {s}
    /\ parent' = [parent EXCEPT ![s] = p]
    /\ fallback' = [fallback EXCEPT ![s] = f]
    /\ NewTask(s, handles, phases)

\* A session is in a turn whose model calls the tool.  (The fallback is not
\* looked at for a chat session.)
Spawn ==
    /\ \E p \in {Chat} \cup Task, f \in BOOLEAN :
        /\ IF p = Chat THEN chat /\ f ELSE phase[p] \in InTurn
        /\ NewSub(p, f, handle, phase, registered)
    /\ UNCHANGED <<status, running, results, batch, answer, outside, mail, sessions, past>>

\* run_job_now by a user, a tool or the dashboard.
RunNow(s) ==
    /\ s \in registered
    /\ again' = again \cup {s}
    /\ NewTask(s, handle, phase)
    /\ UNCHANGED <<spawned, registered, status, running, results, parent, fallback, batch, answer,
                   outside, mail, sessions, killed, raised>>

\* The task kill_subagent would cancel.
Killable(s) == handle[s] # None /\ phase[handle[s]] # "ended"

\* What task.cancel() makes of a task: one that has not started never runs,
\* one in its finally clause abandons the clause, the others unwind through it.
Cancelled(p) ==
    CASE p = "created" -> {"ended"}
      [] p \in Cleaning -> {"aborting"}
      [] p = "timing" -> Unwinding
      [] OTHER -> {"killing"}

BugKillStepsKeepsMark(s) ==
    /\ killed' = killed \cup {s}
    /\ UNCHANGED running
    /\ fate' = Drop(fate, queue[s])
    /\ queue' = [queue EXCEPT ![s] = <<>>]

KillSteps(s) ==
    /\ killed' = killed \cup {s}
    /\ running' = running \ {s}
    /\ fate' = Drop(fate, queue[s])
    /\ queue' = [queue EXCEPT ![s] = <<>>]

BugKillNotCancelled(s) ==
    /\ Killable(s)
    /\ UNCHANGED phase
    /\ handle' = [handle EXCEPT ![s] = None]
    /\ registered' = registered \ {s}
    /\ KillSteps(s)
    /\ UNCHANGED <<spawned, started, status, results, requests, batch, answer, outside, sessions, again, raised>>

Kill(s) ==
    /\ Killable(s)
    /\ \E p \in Cancelled(phase[handle[s]]) : phase' = [phase EXCEPT ![handle[s]] = p]
    /\ handle' = [handle EXCEPT ![s] = None]
    /\ registered' = registered \ {s}
    /\ KillSteps(s)
    /\ UNCHANGED <<spawned, started, status, results, requests, batch, answer, outside, sessions, again, raised>>

\* Kill, if there is something to kill, and spawn again for the same session.
Interrupt(s) ==
    /\ s \in registered
    /\ IF Killable(s)
       THEN /\ KillSteps(s)
            /\ \E p \in Cancelled(phase[handle[s]]) :
                 NewSub(parent[s], FALSE, [handle EXCEPT ![s] = None],
                        [phase EXCEPT ![handle[s]] = p], registered \ {s})
       ELSE /\ NewSub(parent[s], FALSE, handle, phase, registered)
            /\ UNCHANGED <<killed, running, mail>>
    /\ UNCHANGED <<status, results, batch, answer, outside, sessions, again, raised>>

Send(s, m) ==
    /\ s \in registered /\ fate[m] = "unsent"
    /\ queue' = [queue EXCEPT ![s] = Append(@, m)]
    /\ fate' = [fate EXCEPT ![m] = "queued"]
    /\ UNCHANGED <<registry, requests, execution, outside, sessions, past>>

\* The chat session is reset, rolled over or reaped.
CloseChat ==
    /\ chat
    /\ chat' = FALSE
    /\ UNCHANGED <<registry, requests, execution, mail, told, sessions, past>>

-----------------------------------------------------------------------------
(* A run                                                                    *)

\* The finally clause of _run_job; with the queue goes what the executor had
\* popped, rest, and not dealt with.
Finally(t, rest) ==
    LET s == job[t] IN
    /\ phase' = [phase EXCEPT ![t] = "ended"]
    /\ running' = running \ {s}
    /\ handle' = [handle EXCEPT ![s] = None]
    /\ fate' = Drop(fate, queue[s] \o rest)
    /\ queue' = [queue EXCEPT ![s] = <<>>]
    /\ batch' = [batch EXCEPT ![t] = <<>>]
    /\ answer' = [answer EXCEPT ![t] = None]
    /\ UNCHANGED <<spawned, started, requests, outside, past>>

BugFailRunOther(t) ==
    /\ Finally(t, batch[t])
    /\ status' = [status EXCEPT ![job[t]] = "error"]
    /\ UNCHANGED <<registered, results>>

\* The executor returned or raised a failure: the job stays registered.
FailRun(t) ==
    /\ Finally(t, batch[t])
    /\ status' = [status EXCEPT ![job[t]] = "failed"]
    /\ UNCHANGED <<registered, results>>

\* The first step of _run_job.
Begin(t) ==
    LET s == job[t] IN
    /\ phase[t] = "created"
    /\ IF s \in running
       THEN /\ phase' = [phase EXCEPT ![t] = "ended"]
            /\ UNCHANGED <<running, status>>
       ELSE /\ phase' = [phase EXCEPT ![t] = "opening"]
            /\ running' = running \cup {s}
            /\ status' = [status EXCEPT ![s] = "running"]
    /\ UNCHANGED <<spawned, started, registered, handle, results, requests, batch, answer,
                   outside, mail, sessions, past>>

Open(t) ==
    /\ phase[t] = "opening"
    /\ phase' = [phase EXCEPT ![t] = "turn"]
    /\ sessions' = sessions \cup {t}
    /\ UNCHANGED <<registry, requests, batch, answer, outside, mail, past>>

OpenFails(t) ==
    /\ phase[t] = "opening"
    /\ FailRun(t)
    /\ UNCHANGED sessions

\* _deliver_to_spawning_session finds somebody: the chat session, or, when a
\* job session that still exists did the spawning, the agent's active session.
Deliverable(s) ==
    IF parent[s] = Chat THEN chat ELSE parent[s] \in sessions /\ fallback[s]

BugProceedActiveOnly(t, rest, a) ==
    /\ batch' = [batch EXCEPT ![t] = rest]
    /\ answer' = [answer EXCEPT ![t] = a]
    /\ phase' = [phase EXCEPT ![t] =
            IF rest # <<>> THEN "followup"
            ELSE IF a # None /\ Deliverable(job[t]) /\ fallback[job[t]] THEN "delivering"
            ELSE "evicting"]

\* The executor, with response a, before the next thing it awaits.
Proceed(t, rest, a) ==
    /\ batch' = [batch EXCEPT ![t] = rest]
    /\ answer' = [answer EXCEPT ![t] = a]
    /\ phase' = [phase EXCEPT ![t] =
            IF rest # <<>> THEN "followup"
            ELSE IF a # None /\ Deliverable(job[t]) THEN "delivering"
            ELSE "evicting"]

\* The answer to the task: the queue is emptied once, here.
TurnEnds(t) ==
    LET s == job[t] IN
    /\ phase[t] = "turn"
    /\ \E a \in {"task", None} : Proceed(t, queue[s], a)
    /\ fate' = [m \in Msg |-> IF m \in Elements(queue[s]) THEN "taken" ELSE fate[m]]
    /\ queue' = [queue EXCEPT ![s] = <<>>]
    /\ UNCHANGED <<registry, requests, outside, sessions, past>>

TurnRaises(t) ==
    /\ phase[t] = "turn"
    /\ phase' = [phase EXCEPT ![t] = "failing"]
    /\ UNCHANGED <<registry, requests, batch, answer, outside, mail, sessions, past>>

\* The answer to a follow-up is delivered before the next follow-up's turn.
FollowUpEnds(t) ==
    LET m == Head(batch[t]) IN
    /\ phase[t] = "followup"
    /\ \E a \in {m, None} :
        IF a # None /\ Deliverable(job[t])
        THEN /\ phase' = [phase EXCEPT ![t] = "delivering"]
             /\ answer' = [answer EXCEPT ![t] = a]
             /\ UNCHANGED batch
        ELSE Proceed(t, Tail(batch[t]), a)
    /\ fate' = [fate EXCEPT ![m] = "answered"]
    /\ UNCHANGED <<registry, requests, outside, queue, sessions, past>>

\* Its exception is logged, and the response of the turn before stays.
FollowUpRaises(t) ==
    /\ phase[t] = "followup"
    /\ fate' = [fate EXCEPT ![Head(batch[t])] = "discarded"]
    /\ Proceed(t, Tail(batch[t]), answer[t])
    /\ UNCHANGED <<registry, requests, outside, queue, sessions, past>>

BugDeliveredOnce(t) ==
    /\ phase' = [phase EXCEPT ![t] = "evicting"]
    /\ UNCHANGED <<batch, answer>>

\* After a delivery: the loop over the follow-ups, or the end of the executor.
Delivered(t) ==
    IF batch[t] = <<>>
    THEN /\ phase' = [phase EXCEPT ![t] = "evicting"]
         /\ UNCHANGED <<batch, answer>>
    ELSE Proceed(t, Tail(batch[t]), answer[t])

\* _deliver_result: into the history and, unless it is NO_REPLY, to the user.
Deliver(t) ==
    LET s == job[t] IN
    /\ phase[t] = "delivering"
    /\ told' = [told EXCEPT ![s] = Append(@, answer[t])]
    /\ Delivered(t)
    /\ UNCHANGED <<registry, requests, chat, mail, sessions, past>>

\* An exception in a delivery is logged.
DeliveryRaises(t) ==
    /\ phase[t] = "delivering"
    /\ raised' = raised \cup {t}
    /\ Delivered(t)
    /\ UNCHANGED <<registry, requests, outside, mail, sessions, killed, again>>

\* The runner is closed and the job session leaves the index; the answer is
\* cached and the job forgotten.
Complete(t) ==
    LET s == job[t] IN
    /\ phase[t] = "evicting"
    /\ sessions' = sessions \ {t}
    /\ Finally(t, <<>>)
    /\ status' = [status EXCEPT ![s] = "completed"]
    /\ results' = results \cup {s}
    /\ registered' = registered \ {s}

Fail(t) ==
    /\ phase[t] = "failing"
    /\ sessions' = sessions \ {t}
    /\ FailRun(t)

BugTimeoutInTurns(t) ==
    /\ phase[t] \in InTurn
    /\ phase' = [phase EXCEPT ![t] = "timing"]
    /\ UNCHANGED <<registry, requests, batch, answer, outside, mail, sessions, past>>

\* wait_for cancels the executor when the job's time is up.
Timeout(t) ==
    \/ /\ phase[t] \in Suspended
       /\ phase' = [phase EXCEPT ![t] = "timing"]
       /\ UNCHANGED <<registry, requests, batch, answer, outside, mail, sessions, past>>
    \/ /\ phase[t] \in Cleaning \cup {"opening"}
       /\ FailRun(t)
       /\ UNCHANGED sessions

TimedOut(t) ==
    /\ phase[t] = "timing"
    /\ sessions' = sessions \ {t}
    /\ FailRun(t)

\* The rest of a run that was killed.
Unwind(t) ==
    /\ phase[t] \in Unwinding
    /\ sessions' = IF phase[t] = "aborting" THEN sessions ELSE sessions \ {t}
    /\ Finally(t, batch[t])
    /\ UNCHANGED <<registered, status, results>>

Run(t) ==
    \/ Begin(t) \/ Open(t) \/ OpenFails(t)
    \/ TurnEnds(t) \/ TurnRaises(t) \/ FollowUpEnds(t) \/ FollowUpRaises(t)
    \/ Deliver(t) \/ DeliveryRaises(t)
    \/ Complete(t) \/ Fail(t) \/ Timeout(t) \/ TimedOut(t) \/ Unwind(t)

Next ==
    \/ Spawn \/ CloseChat
    \/ \E s \in Sub : RunNow(s) \/ Kill(s) \/ Interrupt(s)
    \/ \E s \in Sub, m \in Msg : Send(s, m)
    \/ \E t \in Task : Run(t)

\* The event loop runs what is ready and the clock reaches every timeout; a
\* model may take for ever to answer.  Closing a runner returns.
Fairness ==
    \A t \in Task :
        /\ WF_vars(Begin(t)) /\ WF_vars(Timeout(t))
        /\ WF_vars(TimedOut(t)) /\ WF_vars(Unwind(t))

Spec == Init /\ [][Next]_vars /\ Fairness

-----------------------------------------------------------------------------
(* Properties                                                               *)

InBody(t, s) == job[t] = s /\ phase[t] \in Body

\* What the scheduler believes to be running is what is running, once, and its
\* handle is the one to cancel: no subagent is left marked as running, which
\* would keep it from ever running again, none runs twice beside itself and
\* none escapes kill_subagent.  (Unless it was run by hand.)
RunningIsTrue ==
    \A s \in Sub \ again :
        /\ s \in running <=> \E t \in Task : InBody(t, s)
        /\ s \in running => handle[s] # None /\ InBody(handle[s], s)
        /\ \A t, u \in Task : InBody(t, s) /\ InBody(u, s) => t = u

\* Every subagent has one outcome: it is still registered (waiting, running or
\* failed), it was killed, or its answer is cached for its parent.
OneOutcome ==
    /\ (1 .. spawned) \ again \subseteq registered \cup killed \cup results
    /\ (registered \cap killed) \cup (killed \cap results) \cup (results \cap registered) \subseteq again

\* A killed subagent is quiet: nothing more of it reaches a
\* conversation, and no result is kept for it.
KilledIsQuiet ==
    [][\A s \in killed \ again : /\ told'[s] = told[s]
                                 /\ s \in results' => s \in results]_vars

\* What the registry, the running set, the results and the status together say of a
\* subagent; astray if they do not agree.
Standing(s) ==
    CASE s \in again -> "by hand"
      [] s \notin again /\ s > spawned -> "new"
      [] s \notin again /\ s \in killed \ (registered \cup running \cup results) -> "killed"
      [] s \notin again /\ s \in results \ (registered \cup running \cup killed)
         /\ status[s] = "completed" -> "completed"
      [] s \notin again /\ s \in registered \ (results \cup killed)
         /\ (s \in running <=> status[s] = "running") /\ status[s] # "completed" -> status[s]
      [] OTHER -> "astray"

Service == INSTANCE SubagentService WITH
    state <- [s \in Sub |-> Standing(s)],
    told <- [s \in Sub |-> IF s \in again THEN <<>> ELSE told[s]]

\* The scheduler's tables implement SubagentService: a subagent is in the tables of one
\* state at a time, none is lost or comes back from killed or completed, and it reaches a
\* conversation only while it runs; killed, interrupted, timed out or failed anywhere.
ImplementsService == Service!Spec

\* A message taken from the queue is answered in any run that completes.
TakenIsServed ==
    \A m \in Msg : fate[m] = "taken" => \E t \in Task :
        phase[t] \in Body \cup Unwinding /\ m \in Elements(batch[t])

\* A run whose spawner is still there ends with its last answer told, unless
\* the delivery itself raised.
LastAnswerTold ==
    \A t \in Task :
        phase[t] = "evicting" /\ answer[t] # None /\ Deliverable(job[t]) /\ t \notin raised
        => answer[t] \in Elements(told[job[t]])

\* Every run comes to an end, even when the model never answers.
RunsEnd == \A t \in Task : phase[t] = "created" ~> phase[t] = "ended"

\* "Result will be delivered to your session when complete": while the spawner
\* is there no answer gives way to the next before it was delivered.
EveryAnswerTold ==
    [][\A t \in Task :
        phase[t] = "followup" /\ phase'[t] # "timing" /\ phase'[t] \in Body
        /\ answer[t] \notin {None, answer'[t]} /\ Deliverable(job[t])
        => answer[t] \in Elements(told[job[t]])]_vars

\* "results always reach a live user-facing session": what a subagent spawned
\* by a job has to say is delivered to the agent's active session.
JobResultTold ==
    \A t \in Task :
        phase[t] = "evicting" /\ fallback[job[t]] /\ t \notin raised /\ answer[t] # None
        /\ parent[job[t]] # Chat
        => answer[t] \in Elements(told[job[t]])

\* "False if the job ID is unknown or the task has already finished": a
\* subagent that is running can be killed.
RunningIsKillable == \A s \in running : Killable(s)
=============================================================================
