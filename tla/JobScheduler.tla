---------------------------- MODULE JobScheduler ----------------------------
(***************************************************************************)
(* pyclopse/jobs/scheduler.py JobScheduler for one agent: the registry in  *)
(* memory, the agent's jobs.yaml (models.py load_agent_jobs and            *)
(* save_agent_jobs), the FileWatcher that reloads it, and restarts.        *)
(*                                                                         *)
(* Every operation below is synchronous in the code (its coroutines never  *)
(* suspend), so each is one step.  The loop, run_job_now and               *)
(* spawn_subagent only create the task of a run; the task begins in a step *)
(* of its own, BeginRun, with the Job object it was given, and the job's   *)
(* execution is what lies between that step and FinishRun.  Spec is the    *)
(* service by itself; EditedSpec adds a user who edits jobs.yaml.          *)
(***************************************************************************)
EXTENDS Naturals, FiniteSets

CONSTANTS
    Job,          \* job ids, in the order jobs of one name are registered
    None,         \* no such job
    Name,         \* Name[j]: the job's key in jobs.yaml
    OneShot,      \* jobs with delete_after_run
    Ephemeral,    \* jobs with persistent=False: what spawn_subagent creates
    Ownerless,    \* command jobs added without an agent
    Added,        \* bound: Added[j] is what job j may be added as
    MaxDowns,     \* bound: shutdowns and crashes
    MaxChanges,   \* bound: jobs enabled, disabled or updated by the API
    MaxEdits      \* bound: edits of the file

\* Cron and interval schedules are "every"; "at" is the job's absolute moment.
Schedule == {"every", "at"}
\* next_run: unset, a time of the recurrence, the absolute moment, or a time
\* that has come.
NextRun == {"none", "tick", "moment", "due"}
JobState == [enabled : BOOLEAN, sched : Schedule, next : NextRun]

ASSUME JSAssumption ==
    /\ Job \subseteq Nat
    /\ None \notin JobState
    /\ OneShot \subseteq Job /\ Ephemeral \subseteq OneShot
    /\ Ownerless \subseteq Job \ Ephemeral
    /\ Added \in [Job -> SUBSET [enabled : BOOLEAN, sched : Schedule]]
    /\ MaxDowns \in Nat /\ MaxChanges \in Nat /\ MaxEdits \in Nat

VARIABLES
    up,          \* the process runs
    mem,         \* jobs
    disk, file,  \* the jobs in jobs.yaml; whether it is absent, good or broken
    watched,     \* the watcher has an entry for the file
    dirty,       \* the file's mtime is not the watcher's baseline
    passed,      \* passed[j]: j's absolute moment is in the past
    starting,    \* jobs with a task of _run_job that has not begun
    stale,       \* stale[j]: the task's Job object when it is no longer the registered one
    running,     \* _running_jobs
    detached,    \* detached[j]: the run's Job object when it is not the registered one
    known,       \* history: ids in use
    retired,     \* history: jobs deleted, or removed after success
    served,      \* history: jobs whose run ended after their moment
    excused,    \* history: jobs a reload took from their run or an update rescheduled
    paused,      \* history: jobs whose last enable/disable by the API is disable
    downs, changes, edits   \* counters for the bounds

yaml == <<disk, file, dirty>>
history == <<known, retired, served, excused, paused>>
tasks == <<starting, stale>>
counters == <<downs, changes, edits>>
vars == <<up, mem, yaml, watched, passed, tasks, running, detached, history, counters>>

NoJobs == [j \in Job |-> None]
Saved == Job \ (Ephemeral \cup Ownerless)     \* the jobs _flush writes
DistinctNames == \A j, k \in Job : Name[j] = Name[k] => j = k

TypeOK ==
    /\ up \in BOOLEAN /\ watched \in BOOLEAN /\ dirty \in BOOLEAN
    /\ mem \in [Job -> JobState \cup {None}]
    /\ disk \in [Job -> JobState \cup {None}]
    /\ file \in {"absent", "good", "broken"}
    /\ detached \in [Job -> JobState \cup {None}]
    /\ starting \subseteq Job /\ stale \in [Job -> JobState \cup {None}]
    /\ passed \in [Job -> BOOLEAN]
    /\ running \subseteq Job /\ known \subseteq Job /\ retired \subseteq Job
    /\ served \subseteq Job /\ excused \subseteq Job /\ paused \subseteq Job
    /\ downs \in 0 .. MaxDowns /\ changes \in 0 .. MaxChanges /\ edits \in 0 .. MaxEdits

Init ==
    /\ up = FALSE /\ watched = FALSE /\ dirty = FALSE
    /\ mem = NoJobs /\ disk = NoJobs /\ detached = NoJobs
    /\ starting = {} /\ stale = NoJobs
    /\ file \in {"absent", "good"}
    /\ passed = [j \in Job |-> FALSE]
    /\ running = {} /\ known = {} /\ retired = {} /\ served = {} /\ excused = {} /\ paused = {}
    /\ downs = 0 /\ changes = 0 /\ edits = 0

---------------------------------------------------------------------------
(* _recalc_next_run, _merge_job_from_disk, _flush and the yaml helpers.    *)

\* Variants named Bug... are wrong on purpose, one plausible slip each, and are
\* used by no behaviour.
BugRecalcStoresKind(j, r) ==
    [r EXCEPT !.next = IF ~r.enabled \/ (r.sched = "at" /\ passed[j]) THEN "none" ELSE r.sched]

Recalc(j, r) ==
    [r EXCEPT !.next = IF ~r.enabled \/ (r.sched = "at" /\ passed[j]) THEN "none"
                       ELSE IF r.sched = "at" THEN "moment" ELSE "tick"]

\* Configuration from the file, runtime state from memory; busy is _running_jobs.
Merge(j, m, d, busy) ==
    LET r == [d EXCEPT !.next = m.next]
    IN  IF d.sched # m.sched /\ j \notin busy THEN Recalc(j, r) ELSE r

\* A missing or unreadable file has no jobs.
Loaded == IF file = "good" THEN disk ELSE NoJobs

\* The file is a mapping by name: of the jobs of one name the last one written
\* stays, and the jobs that were in the file are written first.
Overwritten(jobs, j) ==
    \E k \in Job \ {j} :
        /\ jobs[k] # None /\ Name[k] = Name[j]
        /\ Loaded[k] = None
        /\ Loaded[j] # None \/ k > j

Save(jobs) ==
    /\ disk' = [j \in Job |-> IF Overwritten(jobs, j) THEN None ELSE jobs[j]]
    /\ file' = "good"

BugFlushMemoryOnly(m, busy) ==
    /\ Save([j \in Job |-> IF j \in Saved THEN m[j] ELSE None])
    /\ dirty' = FALSE

BugFlushKnownOnly(m, busy) ==
    /\ Save([j \in Job |-> IF j \in Saved /\ m[j] # None /\ Loaded[j] # None
                           THEN Merge(j, m[j], Loaded[j], busy) ELSE Loaded[j]])
    /\ dirty' = FALSE

\* _flush with m the registry: merge into the file, then acknowledge() the write.
Flush(m, busy) ==
    IF \A j \in Saved : m[j] = None
    THEN UNCHANGED yaml
    ELSE /\ Save([j \in Job |-> IF j \notin Saved \/ m[j] = None THEN Loaded[j]
                                ELSE IF Loaded[j] = None THEN m[j]
                                ELSE Merge(j, m[j], Loaded[j], busy)])
         /\ dirty' = FALSE

---------------------------------------------------------------------------
(* The polling loop and executions.                                        *)

\* create_task(self._run_job(job)) with the registered object.  Of two tasks created
\* before the first has begun, the second finds the job running and returns: they
\* count as one.
CreateTask(j) ==
    /\ j \notin starting
    /\ starting' = starting \cup {j}
    /\ UNCHANGED <<up, mem, yaml, watched, passed, stale, running, detached, history, counters>>

\* _tick finds the job due.
Fire(j) ==
    /\ up /\ mem[j] # None
    /\ mem[j].enabled /\ mem[j].next = "due"
    /\ j \notin running
    /\ CreateTask(j)

\* run_job_now does not look whether the job is running.
RunNow(j) ==
    /\ up /\ mem[j] # None
    /\ CreateTask(j)

\* The task begins: _run_job up to its await, whatever has become of the job.  The
\* start is flushed.
BeginRun(j) ==
    /\ up /\ j \in starting
    /\ starting' = starting \ {j}
    /\ stale' = [stale EXCEPT ![j] = None]
    /\ IF j \in running
       THEN UNCHANGED <<yaml, running, detached>>
       ELSE /\ running' = running \cup {j}
            /\ detached' = [detached EXCEPT ![j] = stale[j]]
            /\ Flush(mem, running')
    /\ UNCHANGED <<up, mem, watched, passed, history, counters>>

\* A task that has not begun keeps its object when the job leaves the registry or is
\* replaced there.
KeepObjects(gone) ==
    stale' = [j \in Job |-> IF j \in starting \cap gone /\ stale[j] = None THEN mem[j]
                            ELSE stale[j]]

\* The Job object the coroutine of the run holds.
RunObject(j) == IF detached[j] = None THEN mem[j] ELSE detached[j]

\* A successful one-shot removes itself from memory and from the file, without
\* an acknowledge().
BugRetireInMemory(j) ==
    /\ mem' = [mem EXCEPT ![j] = None]
    /\ UNCHANGED yaml

Retire(j) ==
    /\ mem' = [mem EXCEPT ![j] = None]
    /\ IF mem[j] # None /\ j \notin Ownerless
       THEN /\ Save([Loaded EXCEPT ![j] = None])
            /\ dirty' = watched
       ELSE UNCHANGED yaml

BugReschedulesUnflushed(j) ==
    /\ mem' = IF detached[j] = None THEN [mem EXCEPT ![j] = Recalc(j, mem[j])] ELSE mem
    /\ UNCHANGED yaml

BugRescheduleStale(j) ==
    /\ mem' = [mem EXCEPT ![j] = Recalc(j, RunObject(j))]
    /\ Flush(mem', running)

\* Any other run is rescheduled: the object the run holds, that is.
Reschedule(j) ==
    /\ mem' = IF detached[j] = None THEN [mem EXCEPT ![j] = Recalc(j, mem[j])] ELSE mem
    /\ Flush(mem', running)

FinishRun(j, success) ==
    /\ up /\ j \in running
    /\ IF success /\ j \in OneShot /\ RunObject(j).sched = "at"
       THEN Retire(j) /\ retired' = retired \cup {j} /\ KeepObjects({j})
       ELSE Reschedule(j) /\ UNCHANGED <<retired, stale>>
    /\ served' = IF passed[j] THEN served \cup {j} ELSE served
    /\ running' = running \ {j}
    /\ detached' = [detached EXCEPT ![j] = None]
    /\ UNCHANGED <<up, watched, passed, starting, known, excused, paused, counters>>

---------------------------------------------------------------------------
(* The API: add_job, spawn_subagent, update_job, enable_job, disable_job,  *)
(* remove_job.                                                             *)

AddJob(j, enabled, sched) ==
    /\ up /\ j \notin known /\ j \notin Ephemeral
    /\ \A k \in Job \ known : Name[k] = Name[j] => j <= k
    /\ mem' = [mem EXCEPT ![j] =
                 Recalc(j, [enabled |-> enabled, sched |-> sched, next |-> "none"])]
    /\ known' = known \cup {j}
    /\ Flush(mem', running)
    /\ UNCHANGED <<up, watched, passed, tasks, running, detached, retired, served, excused, paused,
                   counters>>

\* A subagent is an ephemeral job scheduled at now(), with a task to run it at once.
Spawn(j) ==
    /\ up /\ j \in Ephemeral \ known
    /\ mem' = [mem EXCEPT ![j] = [enabled |-> TRUE, sched |-> "at", next |-> "none"]]
    /\ known' = known \cup {j}
    /\ passed' = [passed EXCEPT ![j] = TRUE]
    /\ starting' = starting \cup {j}
    /\ Flush(mem', running)
    /\ UNCHANGED <<up, watched, stale, running, detached, retired, served, excused, paused, counters>>

\* What enable_job, disable_job and update_job (after PATCH has assigned the
\* fields) share: the registered object is changed in place, then flushed.
Change(j, enabled, sched) ==
    /\ up /\ mem[j] # None
    /\ changes < MaxChanges
    /\ changes' = changes + 1
    /\ mem' = [mem EXCEPT ![j] =
                 Recalc(j, [mem[j] EXCEPT !.enabled = enabled, !.sched = sched])]
    /\ Flush(mem', running)
    /\ paused' = IF enabled THEN paused \ {j} ELSE paused \cup {j}
    /\ excused' = IF sched = mem[j].sched THEN excused ELSE excused \cup {j}
    /\ UNCHANGED <<up, watched, passed, tasks, running, detached, known, retired, served, downs, edits>>

BugEnableUnscheduled(j) ==
    /\ up /\ mem[j] # None
    /\ changes < MaxChanges
    /\ changes' = changes + 1
    /\ mem' = [mem EXCEPT ![j].enabled = TRUE]
    /\ Flush(mem', running)
    /\ paused' = paused \ {j}
    /\ UNCHANGED <<up, watched, passed, tasks, running, detached, known, retired, served, excused,
                   downs, edits>>

EnableJob(j) == Change(j, TRUE, mem[j].sched)

DisableJob(j) == Change(j, FALSE, mem[j].sched)

UpdateJob(j) ==
    /\ mem[j] # None
    /\ \E enabled \in BOOLEAN, sched \in Schedule : Change(j, enabled, sched)

\* remove_job writes every other job the agent has in memory, and does not
\* acknowledge() the write.  A run of the job goes on, and a task begins, with its own
\* object.
RemoveJob(j) ==
    /\ up /\ mem[j] # None
    /\ mem' = [mem EXCEPT ![j] = None]
    /\ retired' = retired \cup {j}
    /\ detached' = IF j \in running /\ detached[j] = None
                   THEN [detached EXCEPT ![j] = mem[j]] ELSE detached
    /\ KeepObjects({j})
    /\ IF j \in Ownerless
       THEN UNCHANGED yaml
       ELSE /\ Save([k \in Job |-> IF k = j THEN None
                                   ELSE IF mem[k] # None /\ k \notin Ownerless THEN mem[k]
                                   ELSE Loaded[k]])
            /\ dirty' = watched
    /\ UNCHANGED <<up, watched, passed, starting, running, known, served, excused, paused, counters>>

---------------------------------------------------------------------------
(* Reloads, restarts, time.                                                *)

\* reload_agent_jobs: every job found in the file becomes a new object.
Reloaded ==
    [j \in Job |->
       IF Loaded[j] # None
       THEN IF mem[j] # None THEN Merge(j, mem[j], Loaded[j], running)
            ELSE IF Loaded[j].enabled THEN Recalc(j, Loaded[j]) ELSE Loaded[j]
       ELSE IF mem[j] # None /\ j \in Saved /\ mem[j].enabled
            THEN [mem[j] EXCEPT !.enabled = FALSE, !.next = "none"] ELSE mem[j]]

Reload ==
    /\ up /\ dirty
    /\ mem' = Reloaded
    /\ detached' = [j \in Job |->
         IF j \in running /\ detached[j] = None /\ Loaded[j] # None THEN mem[j]
         ELSE detached[j]]
    /\ KeepObjects({j \in Job : Loaded[j] # None})
    /\ excused' = excused \cup {j \in running : detached'[j] # None}
                          \cup {j \in starting : stale'[j] # None}
    /\ dirty' = FALSE
    /\ UNCHANGED <<up, disk, file, watched, passed, starting, running, known, retired, served, paused, counters>>

\* start(): recurring jobs are rescheduled, the moment of the others is kept.
\* The watcher takes the file in if it exists.
Start ==
    /\ ~up
    /\ up' = TRUE
    /\ mem' = [j \in Job |->
         IF Loaded[j] # None /\ Loaded[j].enabled /\ Loaded[j].sched = "every"
         THEN Recalc(j, Loaded[j]) ELSE Loaded[j]]
    /\ watched' = (file # "absent")
    /\ UNCHANGED <<yaml, passed, tasks, running, detached, history, counters>>

Down ==
    /\ up /\ downs < MaxDowns
    /\ downs' = downs + 1
    /\ up' = FALSE /\ watched' = FALSE
    /\ mem' = NoJobs /\ detached' = NoJobs /\ running' = {}
    /\ starting' = {} /\ stale' = NoJobs
    /\ UNCHANGED <<passed, history, changes, edits>>

Crash ==
    /\ Down
    /\ dirty' = FALSE
    /\ UNCHANGED <<disk, file>>

\* stop() flushes; runs under way end with the process.
Shutdown ==
    /\ Down
    /\ IF \A j \in Saved : mem[j] = None
       THEN dirty' = FALSE /\ UNCHANGED <<disk, file>>
       ELSE Flush(mem, running)

Come(r, time) == IF r # None /\ r.next = time THEN [r EXCEPT !.next = "due"] ELSE r

\* The next time of j's recurrence comes.
TickComes(j) ==
    /\ mem[j] # None /\ mem[j].next = "tick"
    /\ mem' = [mem EXCEPT ![j] = Come(@, "tick")]
    /\ disk' = [disk EXCEPT ![j] = Come(@, "tick")]
    /\ UNCHANGED <<up, file, dirty, watched, passed, tasks, running, detached, history, counters>>

\* j's absolute moment comes.
MomentComes(j) ==
    /\ ~passed[j] /\ j \in known
    /\ passed' = [passed EXCEPT ![j] = TRUE]
    /\ mem' = [mem EXCEPT ![j] = Come(@, "moment")]
    /\ disk' = [disk EXCEPT ![j] = Come(@, "moment")]
    /\ UNCHANGED <<up, file, dirty, watched, tasks, running, detached, history, counters>>

Service(j) ==
    \/ Fire(j) \/ RunNow(j) \/ BeginRun(j)
    \/ \E success \in BOOLEAN : FinishRun(j, success)
    \/ \E job \in Added[j] : AddJob(j, job.enabled, job.sched)
    \/ Spawn(j)
    \/ EnableJob(j) \/ DisableJob(j) \/ UpdateJob(j) \/ RemoveJob(j)
    \/ TickComes(j) \/ MomentComes(j)

Next == (\E j \in Job : Service(j)) \/ Reload \/ Start \/ Crash \/ Shutdown

Fairness ==
    \A j \in Job :
        /\ WF_vars(Fire(j))
        /\ WF_vars(BeginRun(j))
        /\ WF_vars(\E success \in BOOLEAN : FinishRun(j, success))
        /\ WF_vars(TickComes(j))

Spec == Init /\ [][Next]_vars /\ Fairness

---------------------------------------------------------------------------
(* A user edits jobs.yaml, whether or not the process runs.                *)

Edit ==
    /\ edits < MaxEdits
    /\ edits' = edits + 1
    /\ dirty' = watched
    /\ UNCHANGED <<up, mem, watched, passed, tasks, running, detached, retired, served, excused,
                   downs, changes>>

EditEnabled(j) ==
    /\ Loaded[j] # None
    /\ Edit
    /\ disk' = [disk EXCEPT ![j].enabled = ~@]
    /\ paused' = IF disk[j].enabled THEN paused ELSE paused \ {j}
    /\ UNCHANGED <<file, known>>

EditSchedule(j) ==
    /\ Loaded[j] # None
    /\ Edit
    /\ \E sched \in Schedule \ {disk[j].sched} : disk' = [disk EXCEPT ![j].sched = sched]
    /\ UNCHANGED <<file, known, paused>>

EditDelete(j) ==
    /\ Loaded[j] # None
    /\ Edit
    /\ disk' = [disk EXCEPT ![j] = None]
    /\ UNCHANGED <<file, known, paused>>

EditAdd(j) ==
    /\ file # "broken" /\ j \in Saved \ known
    /\ \A k \in Job : Loaded[k] # None => Name[k] # Name[j]
    /\ \A k \in Job \ known : Name[k] = Name[j] => j <= k
    /\ Edit
    /\ \E enabled \in BOOLEAN, sched \in Schedule :
         disk' = [disk EXCEPT ![j] = [enabled |-> enabled, sched |-> sched, next |-> "none"]]
    /\ file' = "good"
    /\ known' = known \cup {j}
    /\ UNCHANGED paused

\* A save that is not valid YAML, and its correction.
EditBreak ==
    /\ file = "good"
    /\ Edit
    /\ file' = "broken"
    /\ UNCHANGED <<disk, known, paused>>

EditMend ==
    /\ file = "broken"
    /\ Edit
    /\ file' = "good"
    /\ UNCHANGED <<disk, known, paused>>

ExternalEdit ==
    \/ \E j \in Job : EditEnabled(j) \/ EditSchedule(j) \/ EditDelete(j) \/ EditAdd(j)
    \/ EditBreak \/ EditMend

EditedSpec == Init /\ [][Next \/ ExternalEdit]_vars /\ Fairness

---------------------------------------------------------------------------
(* Properties.                                                             *)

\* A job that was deleted, or that removed itself after its run, is in no
\* registry and no file ever after, whatever is reloaded, flushed or restarted.
NoResurrection == \A j \in retired : mem[j] = None /\ disk[j] = None

\* Writing the file never drops a job that is in it, one added by hand and not
\* yet loaded included, unless that job is being deleted.
FileKeepsJobs ==
    [][\A j \in Job : Loaded[j] # None /\ edits' = edits => disk'[j] # None \/ j \in retired']_vars

\* The scheduler keeps the promise of JobRegistry for the jobs it writes.
Registry ==
    INSTANCE JobRegistry WITH
        Job <- Saved,
        status <- [j \in Saved |->
                     IF j \in retired THEN "retired"
                     ELSE IF (IF up THEN mem[j] ELSE Loaded[j]) # None THEN "registered"
                     ELSE "new"],
        asked <- starting \cap Saved,
        running <- running \cap Saved

ImplementsRegistry == Registry!Spec

\* A job with an absolute moment that has run is not started by the loop again,
\* unless a reload took the registered object away from its run or task, an update gave
\* it another schedule, or the file was edited: failures, restarts, deletions and
\* requests in the middle of a run, switching it off and on never make it due again.
AtJobNotRepeated ==
    [][\A j \in Job : Fire(j) /\ mem[j].sched = "at" /\ j \notin excused /\ edits = 0
                    => j \notin served]_vars

\* The same without the exception: a one-shot runs once.
AtJobRunsOnce ==
    [][\A j \in Job : Fire(j) /\ mem[j].sched = "at" => j \notin served]_vars

\* A recurring job that is enabled gets to run: it never stays without a next_run, with
\* a task that does not begin, or marked as running for ever.  Left out are a job the
\* API disabled last or rescheduled: the file's configuration may be put back over it.
EnabledJobFires ==
    \A j \in Job :
        LET waiting == /\ up /\ mem[j] # None /\ j \notin running
                       /\ mem[j].enabled /\ mem[j].sched = "every"
                       /\ j \notin paused \cup excused
        IN  waiting ~> ~waiting

\* An enabled recurring job never stays without a next_run, which would keep the loop
\* from ever starting it again.
RecurringIsScheduled ==
    \A j \in Job : mem[j] # None /\ mem[j].enabled /\ mem[j].sched = "every"
                  => mem[j].next \in {"tick", "due"}

\* A job disabled through the API is not started until somebody enables it.
DisabledStaysQuiet == [][\A j \in Job : Fire(j) => j \notin paused]_vars
=============================================================================
