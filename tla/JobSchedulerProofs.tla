------------------------- MODULE JobSchedulerProofs -------------------------
(***************************************************************************)
(* Theorems about JobScheduler, for every set of jobs, names and bounds.   *)
(*                                                                         *)
(* TypeOK and NoResurrection hold even while a user edits the file, by an  *)
(* invariant that also says which ids are in use and that a run, or a task *)
(* that has not begun, whose object is the registered one has a registered *)
(* object.  That the service by itself implements JobRegistry needs one    *)
(* more fact, RegistryInv: the jobs it writes are in the file exactly when *)
(* they are in memory.                                                     *)
(***************************************************************************)
EXTENDS JobScheduler, TLAPS

Registries == [Job -> JobState \cup {None}]

\* A run holds the registered object unless detached says otherwise, a task that has
\* not begun unless stale does.
RunInv ==
    /\ \A j \in running : detached[j] = None => mem[j] # None
    /\ \A j \in starting : stale[j] = None => mem[j] # None
    /\ \A j \in running \cup starting : mem[j] = None => j \in retired
    /\ ~up => running = {} /\ starting = {}

\* Ids are never used again, and a job nobody owns is not in the file.
KnownInv ==
    /\ running \subseteq known /\ starting \subseteq known /\ retired \subseteq known
    /\ \A j \in Job : mem[j] # None \/ disk[j] # None => j \in known
    /\ \A j \in Ownerless : disk[j] = None

IInv == TypeOK /\ RunInv /\ KnownInv /\ NoResurrection

\* Without edits, memory and file hold the same jobs of those that are saved.
RegistryInv ==
    /\ file \in {"absent", "good"}
    /\ up => \A j \in Saved : mem[j] # None <=> Loaded[j] # None

---------------------------------------------------------------------------
(* What the operators of the model return.                                 *)

\* A recalculated job is a job.
LEMMA RecalcJob ==
    ASSUME NEW j \in Job, NEW r \in JobState
    PROVE  Recalc(j, r) \in JobState /\ Recalc(j, r) # None
BY JSAssumption DEF Recalc, JobState, NextRun, Schedule

\* A merge of two jobs is a job.
LEMMA MergeJob ==
    ASSUME NEW j \in Job, NEW m \in JobState, NEW d \in JobState, NEW busy
    PROVE  Merge(j, m, d, busy) \in JobState /\ Merge(j, m, d, busy) # None
<1> DEFINE r == [d EXCEPT !.next = m.next]
<1>1. r \in JobState
  BY DEF JobState
<1>2. Recalc(j, r) \in JobState /\ Recalc(j, r) # None
  BY <1>1, RecalcJob
<1>3. r # None
  BY <1>1, JSAssumption
<1> HIDE DEF r
<1>4. Merge(j, m, d, busy) \in {r, Recalc(j, r)}
  BY DEF Merge, r
<1> QED BY <1>1, <1>2, <1>3, <1>4

\* A load gives jobs of the file.
LEMMA LoadedJobs ==
    ASSUME TypeOK
    PROVE  /\ Loaded \in Registries
           /\ \A j \in Job : Loaded[j] # None => Loaded[j] = disk[j]
BY DEF TypeOK, Loaded, NoJobs, Registries

\* A save writes the jobs it is given, or leaves one out for its name.
LEMMA SaveWrites ==
    ASSUME NEW jobs \in Registries, Save(jobs)
    PROVE  /\ disk' \in Registries /\ file' = "good"
           /\ \A j \in Job : disk'[j] # None => jobs[j] # None
           /\ DistinctNames => disk' = jobs
<1>1. /\ disk' \in Registries /\ file' = "good"
      /\ \A j \in Job : disk'[j] # None => jobs[j] # None
  BY DEF Save, Registries
<1>2. ASSUME DistinctNames PROVE disk' = jobs
  <2>1. \A j \in Job : ~Overwritten(jobs, j)
    BY <1>2 DEF DistinctNames, Overwritten
  <2> QED BY <2>1 DEF Save, Registries
<1> QED BY <1>1, <1>2

\* A flush writes nothing that was neither in the registry nor in the file, and
\* without name clashes the file then holds what either held.
LEMMA FlushWrites ==
    ASSUME TypeOK, NEW m \in Registries, NEW busy, Flush(m, busy)
    PROVE  /\ disk' \in Registries /\ file' \in {file, "good"} /\ dirty' \in BOOLEAN
           /\ \A j \in Job : disk'[j] # None => m[j] # None \/ disk[j] # None
           /\ \A j \in Ownerless : disk'[j] # None => disk[j] # None
           /\ DistinctNames => \A j \in Saved :
                Loaded'[j] # None <=> m[j] # None \/ Loaded[j] # None
           /\ DistinctNames => \A j \in Job : Loaded[j] # None => disk'[j] # None
<1> DEFINE new == [j \in Job |-> IF j \notin Saved \/ m[j] = None THEN Loaded[j]
                                 ELSE IF Loaded[j] = None THEN m[j]
                                 ELSE Merge(j, m[j], Loaded[j], busy)]
<1>1. CASE \A j \in Saved : m[j] = None
  <2>1. UNCHANGED yaml
    BY <1>1 DEF Flush
  <2> QED BY <2>1, <1>1, LoadedJobs DEF yaml, TypeOK, Registries, Loaded
<1>2. CASE ~(\A j \in Saved : m[j] = None)
  <2>1. Save(new) /\ dirty' = FALSE
    BY <1>2 DEF Flush
  <2>2. Loaded \in Registries /\ \A j \in Job : Loaded[j] # None => Loaded[j] = disk[j]
    BY LoadedJobs
  <2>3. \A j \in Job : m[j] # None /\ Loaded[j] # None =>
           Merge(j, m[j], Loaded[j], busy) \in JobState /\ Merge(j, m[j], Loaded[j], busy) # None
    BY <2>2, MergeJob DEF Registries
  <2>4. new \in Registries
    BY <2>2, <2>3 DEF Registries
  <2>5. /\ \A j \in Job : new[j] # None => m[j] # None \/ Loaded[j] # None
        /\ \A j \in Ownerless : new[j] # None => Loaded[j] # None
    BY <2>2, JSAssumption DEF Saved
  <2>6. /\ \A j \in Saved : m[j] # None \/ Loaded[j] # None => new[j] # None
        /\ \A j \in Job : Loaded[j] # None => new[j] # None
    BY <2>2, <2>3 DEF Saved
  <2>7. /\ disk' \in Registries /\ file' = "good"
        /\ \A j \in Job : disk'[j] # None => new[j] # None
        /\ DistinctNames => disk' = new
    <3> HIDE DEF new
    <3> QED BY <2>1, <2>4, SaveWrites
  <2>8. Loaded' = disk'
    BY <2>7 DEF Loaded
  <2> HIDE DEF new
  <2>9. Saved \subseteq Job /\ Ownerless \subseteq Job
    BY JSAssumption DEF Saved
  <2> QED BY <2>1, <2>2, <2>5, <2>6, <2>7, <2>8, <2>9
<1> QED BY <1>1, <1>2

---------------------------------------------------------------------------
(* The invariant.                                                          *)

\* What a step of one job does.
LEMMA ServiceCases ==
    ASSUME NEW j \in Job, Service(j)
    PROVE  \/ Fire(j) \/ RunNow(j) \/ BeginRun(j)
           \/ \E success \in BOOLEAN : FinishRun(j, success)
           \/ \E enabled \in BOOLEAN, sched \in Schedule : AddJob(j, enabled, sched)
           \/ Spawn(j)
           \/ EnableJob(j) \/ DisableJob(j) \/ UpdateJob(j) \/ RemoveJob(j)
           \/ TickComes(j) \/ MomentComes(j)
<1>1. ASSUME NEW job \in Added[j], AddJob(j, job.enabled, job.sched)
      PROVE  \E enabled \in BOOLEAN, sched \in Schedule : AddJob(j, enabled, sched)
  <2>1. job.enabled \in BOOLEAN /\ job.sched \in Schedule
    BY JSAssumption
  <2> QED BY <1>1, <2>1
<1> QED BY <1>1 DEF Service

\* A task keeps the object it had.
LEMMA ObjectsKept ==
    ASSUME TypeOK, NEW gone, KeepObjects(gone)
    PROVE  /\ stale' \in Registries
           /\ \A j \in Job : stale[j] # None => stale'[j] # None
           /\ \A j \in starting \cap gone : mem[j] # None => stale'[j] # None
           /\ \A j \in Job : stale'[j] # None => stale[j] # None \/ j \in starting \cap gone
BY DEF TypeOK, KeepObjects, Registries

\* A step that brings no unknown job and retires nobody keeps the history facts.
LEMMA NoNewJobs ==
    ASSUME KnownInv, NoResurrection, known \subseteq known', known' \subseteq Job,
           retired' = retired, running' \subseteq known', starting' \subseteq known',
           \A j \in Job : mem'[j] # None \/ disk'[j] # None =>
               mem[j] # None \/ disk[j] # None \/ j \in known' \ known,
           \A j \in Ownerless : disk'[j] # None => disk[j] # None
    PROVE  KnownInv' /\ NoResurrection'
<1>1. retired \subseteq known /\ Ownerless \subseteq Job
  BY JSAssumption DEF KnownInv
<1>2. KnownInv'
  BY <1>1 DEF KnownInv
<1>3. ASSUME NEW j \in retired' PROVE mem'[j] = None /\ disk'[j] = None
  <2>1. j \in known /\ mem[j] = None /\ disk[j] = None /\ j \in Job
    BY <1>1, <1>3 DEF NoResurrection
  <2> QED BY <2>1
<1> QED BY <1>2, <1>3 DEF NoResurrection

\* The scheduler starts without jobs.
LEMMA InitInv == Init => IInv
<1> SUFFICES ASSUME Init PROVE IInv
  OBVIOUS
<1>1. NoJobs \in Registries /\ \A j \in Job : NoJobs[j] = None
  BY DEF NoJobs, Registries
<1>2. TypeOK
  <2>1. passed \in [Job -> BOOLEAN]
    BY Zenon DEF Init
  <2>2. downs \in 0 .. MaxDowns /\ changes \in 0 .. MaxChanges /\ edits \in 0 .. MaxEdits
    BY JSAssumption DEF Init
  <2>3. up \in BOOLEAN /\ watched \in BOOLEAN /\ dirty \in BOOLEAN
    BY DEF Init
  <2>4. mem \in Registries /\ disk \in Registries /\ detached \in Registries /\ stale \in Registries
    BY <1>1 DEF Init
  <2>5. /\ file \in {"absent", "good", "broken"}
        /\ starting \subseteq Job
        /\ running \subseteq Job /\ known \subseteq Job /\ retired \subseteq Job
        /\ served \subseteq Job /\ excused \subseteq Job /\ paused \subseteq Job
    BY DEF Init
  <2> QED BY <2>1, <2>2, <2>3, <2>4, <2>5 DEF TypeOK, Registries
<1>3. RunInv /\ KnownInv /\ NoResurrection
  BY <1>1, JSAssumption DEF Init, RunInv, KnownInv, NoResurrection
<1> QED BY <1>2, <1>3 DEF IInv

\* Creating the task of a run.
LEMMA CreateTaskInv ==
    ASSUME IInv, NEW j \in Job, mem[j] # None, up, CreateTask(j)
    PROVE  IInv'
<1>1. /\ starting' = starting \cup {j}
      /\ UNCHANGED <<up, mem, disk, file, dirty, watched, passed, stale, running, detached, known,
                     retired, served, excused, paused, downs, changes, edits>>
  BY DEF CreateTask, yaml, history, counters
<1>2. TypeOK'
  BY <1>1 DEF IInv, TypeOK
<1>3. RunInv'
  BY <1>1 DEF IInv, RunInv
<1>4. KnownInv' /\ NoResurrection'
  <2>1. j \in known
    BY DEF IInv, KnownInv
  <2> QED BY <1>1, <2>1 DEF IInv, KnownInv, NoResurrection
<1> QED BY <1>2, <1>3, <1>4 DEF IInv

\* The task begins, or finds the job running.
LEMMA BeginRunInv ==
    ASSUME IInv, NEW j \in Job, BeginRun(j)
    PROVE  IInv'
<1>1. /\ up /\ j \in starting /\ starting' = starting \ {j}
      /\ stale' = [stale EXCEPT ![j] = None]
      /\ UNCHANGED <<up, mem, watched, passed, known, retired, served, excused, paused, downs,
                     changes, edits>>
      /\ \/ UNCHANGED <<disk, file, dirty, running, detached>>
         \/ /\ running' = running \cup {j}
            /\ detached' = [detached EXCEPT ![j] = stale[j]]
            /\ Flush(mem, running')
  BY DEF BeginRun, yaml, history, counters
<1>2. /\ disk' \in Registries /\ file' \in {file, "good"} /\ dirty' \in BOOLEAN
      /\ \A k \in Job : disk'[k] # None => mem[k] # None \/ disk[k] # None
      /\ \A k \in Ownerless : disk'[k] # None => disk[k] # None
  <2>1. mem \in Registries /\ disk \in Registries /\ dirty \in BOOLEAN
    BY DEF IInv, TypeOK, Registries
  <2> QED BY <1>1, <2>1, FlushWrites DEF IInv
<1>3. /\ stale' \in Registries /\ detached' \in Registries
      /\ running' \in {running, running \cup {j}}
      /\ \A k \in Job \ {j} : stale'[k] = stale[k] /\ detached'[k] = detached[k]
      /\ running' # running => detached'[j] = stale[j]
      /\ running' = running => detached' = detached \/ j \in running
  BY <1>1 DEF IInv, TypeOK, Registries
<1>4. TypeOK'
  BY <1>1, <1>2, <1>3 DEF IInv, TypeOK, Registries
<1>5. RunInv'
  <2>1. CASE UNCHANGED <<running, detached>>
    BY <1>1, <1>3, <2>1 DEF IInv, TypeOK, RunInv
  <2>2. CASE running' = running \cup {j} /\ detached' = [detached EXCEPT ![j] = stale[j]]
    BY <1>1, <1>3, <2>2 DEF IInv, TypeOK, RunInv
  <2> QED BY <1>1, <2>1, <2>2
<1>6. KnownInv' /\ NoResurrection'
  <2>1. known' = known /\ running' \subseteq known /\ starting' \subseteq known
    BY <1>1, <1>3 DEF IInv, KnownInv
  <2> QED BY <1>1, <1>2, <1>4, <2>1, NoNewJobs DEF IInv, TypeOK
<1> QED BY <1>4, <1>5, <1>6 DEF IInv

\* A run that retires its job.
LEMMA RetireInv ==
    ASSUME IInv, NEW j \in Job, NEW success \in BOOLEAN, FinishRun(j, success),
           Retire(j), retired' = retired \cup {j}, KeepObjects({j})
    PROVE  IInv'
<1>1. /\ mem' = [mem EXCEPT ![j] = None] /\ mem' \in Registries
      /\ j \in running
  BY DEF Retire, IInv, TypeOK, FinishRun, Registries
<1>0. /\ stale' \in Registries /\ starting' = starting
      /\ \A k \in starting : stale'[k] = None => stale[k] = None /\ mem'[k] = mem[k]
  <2>1. /\ stale' \in Registries
        /\ \A k \in Job : stale[k] # None => stale'[k] # None
        /\ \A k \in starting \cap {j} : mem[k] # None => stale'[k] # None
    BY ObjectsKept DEF IInv
  <2> QED BY <1>1, <2>1 DEF IInv, TypeOK, RunInv, FinishRun
<1>2. /\ disk' \in Registries /\ file' \in {file, "good"} /\ dirty' \in BOOLEAN
      /\ \A k \in Job : disk'[k] # None => disk[k] # None /\ k # j
  <2>1. CASE mem[j] # None /\ j \notin Ownerless
    <3>1. /\ Loaded \in Registries
          /\ \A k \in Job : Loaded[k] # None => Loaded[k] = disk[k]
      BY LoadedJobs DEF IInv
    <3>2. [Loaded EXCEPT ![j] = None] \in Registries
      BY <3>1 DEF Registries
    <3>3. Save([Loaded EXCEPT ![j] = None]) /\ dirty' = watched
      BY <2>1 DEF Retire
    <3>4. /\ disk' \in Registries /\ file' = "good"
          /\ \A k \in Job : disk'[k] # None => [Loaded EXCEPT ![j] = None][k] # None
      BY <3>2, <3>3, SaveWrites
    <3> QED BY <3>1, <3>3, <3>4 DEF IInv, TypeOK, Registries
  <2>2. CASE ~(mem[j] # None /\ j \notin Ownerless)
    <3>1. UNCHANGED <<disk, file, dirty>>
      BY <2>2 DEF Retire, yaml
    <3>2. disk[j] = None
      BY <1>1, <2>2 DEF IInv, RunInv, KnownInv, NoResurrection
    <3> QED BY <3>1, <3>2 DEF IInv, TypeOK, Registries
  <2> QED BY <2>1, <2>2
<1>3. TypeOK'
  BY <1>0, <1>1, <1>2 DEF IInv, TypeOK, FinishRun, Registries, counters
<1>4. RunInv'
  <2>1. /\ up' = up /\ running' = running \ {j} /\ detached' = [detached EXCEPT ![j] = None]
    BY DEF FinishRun
  <2> QED BY <1>0, <1>1, <2>1 DEF IInv, TypeOK, RunInv
<1>5. KnownInv' /\ NoResurrection'
  <2>1. /\ known' = known /\ running' \subseteq known /\ retired' \subseteq known
        /\ starting' \subseteq known
    BY <1>0, <1>1 DEF IInv, KnownInv, FinishRun
  <2>2. \A k \in Job : mem'[k] # None => mem[k] # None /\ k # j
    BY <1>1 DEF IInv, TypeOK
  <2>3. KnownInv'
    BY <1>2, <2>1, <2>2, JSAssumption DEF IInv, KnownInv
  <2>4. NoResurrection'
    BY <1>2, <2>2, <1>1 DEF IInv, NoResurrection, TypeOK
  <2> QED BY <2>3, <2>4
<1> QED BY <1>3, <1>4, <1>5 DEF IInv

\* A run that reschedules the object it holds.
LEMMA RescheduleInv ==
    ASSUME IInv, NEW j \in Job, NEW success \in BOOLEAN, FinishRun(j, success),
           Reschedule(j), retired' = retired, stale' = stale
    PROVE  IInv' /\ \A k \in Job : mem'[k] # None <=> mem[k] # None
<1>1. j \in running
  BY DEF FinishRun
<1>2. mem' \in Registries /\ \A k \in Job : mem'[k] # None <=> mem[k] # None
  <2>1. CASE detached[j] = None
    <3>1. mem[j] \in JobState /\ mem[j] # None
      BY <1>1, <2>1 DEF IInv, RunInv, TypeOK
    <3>2. Recalc(j, mem[j]) \in JobState /\ Recalc(j, mem[j]) # None
      BY <3>1, RecalcJob
    <3>3. mem' = [mem EXCEPT ![j] = Recalc(j, mem[j])]
      BY <2>1 DEF Reschedule
    <3> QED BY <3>1, <3>2, <3>3 DEF IInv, TypeOK, Registries
  <2>2. CASE detached[j] # None
    BY <2>2 DEF Reschedule, IInv, TypeOK, Registries
  <2> QED BY <2>1, <2>2
<1>3. /\ disk' \in Registries /\ file' \in {file, "good"} /\ dirty' \in BOOLEAN
      /\ \A k \in Job : disk'[k] # None => mem'[k] # None \/ disk[k] # None
      /\ \A k \in Ownerless : disk'[k] # None => disk[k] # None
  BY <1>2, FlushWrites DEF IInv, Reschedule
<1>4. TypeOK'
  BY <1>1, <1>2, <1>3 DEF IInv, TypeOK, FinishRun, Registries, counters
<1>5. RunInv'
  BY <1>1, <1>2 DEF IInv, TypeOK, RunInv, FinishRun
<1>6. KnownInv' /\ NoResurrection'
  <2>1. known' = known /\ running' \subseteq known' /\ starting' \subseteq known'
    BY DEF IInv, KnownInv, FinishRun
  <2> QED BY <1>2, <1>3, <1>4, <2>1, NoNewJobs DEF IInv, TypeOK
<1> QED BY <1>2, <1>4, <1>5, <1>6 DEF IInv

\* A reload.
LEMMA ReloadInv ==
    ASSUME IInv, Reload
    PROVE  /\ IInv'
           /\ \A j \in Job : mem'[j] # None <=> mem[j] # None \/ Loaded[j] # None
<1>1. /\ Loaded \in Registries
      /\ \A j \in Job : Loaded[j] # None => Loaded[j] = disk[j]
  BY LoadedJobs DEF IInv
<1>2. ASSUME NEW j \in Job
      PROVE  /\ mem'[j] \in JobState \cup {None}
             /\ mem'[j] # None <=> mem[j] # None \/ Loaded[j] # None
  <2>1. mem[j] \in JobState \cup {None} /\ Loaded[j] \in JobState \cup {None}
    BY <1>1 DEF IInv, TypeOK, Registries
  <2>2. CASE Loaded[j] # None /\ mem[j] # None
    <3>1. mem'[j] = Merge(j, mem[j], Loaded[j], running)
      BY <2>2 DEF Reload, Reloaded
    <3>2. mem[j] \in JobState /\ Loaded[j] \in JobState
      BY <2>1, <2>2
    <3> QED BY <2>2, <3>1, <3>2, MergeJob
  <2>3. CASE Loaded[j] # None /\ mem[j] = None
    <3>1. mem'[j] \in {Recalc(j, Loaded[j]), Loaded[j]}
      BY <2>3 DEF Reload, Reloaded
    <3>2. Loaded[j] \in JobState
      BY <2>1, <2>3
    <3>3. Recalc(j, Loaded[j]) \in JobState /\ Recalc(j, Loaded[j]) # None
      BY <3>2, RecalcJob
    <3> QED BY <2>3, <3>1, <3>2, <3>3
  <2>4. CASE Loaded[j] = None
    <3>1. mem'[j] = IF mem[j] # None /\ j \in Saved /\ mem[j].enabled
                    THEN [mem[j] EXCEPT !.enabled = FALSE, !.next = "none"] ELSE mem[j]
      BY <2>4 DEF Reload, Reloaded
    <3>2. mem[j] # None => [mem[j] EXCEPT !.enabled = FALSE, !.next = "none"] \in JobState
      BY <2>1 DEF JobState, NextRun
    <3> QED BY <2>1, <2>4, <3>1, <3>2, JSAssumption
  <2> QED BY <2>2, <2>3, <2>4
<1>3. mem' \in Registries /\ DOMAIN mem' = Job
  BY <1>2 DEF Reload, Reloaded, Registries
<1>4. /\ detached' \in Registries
      /\ \A j \in running : detached'[j] = None => mem'[j] # None
  <2>1. detached' = [j \in Job |->
          IF j \in running /\ detached[j] = None /\ Loaded[j] # None THEN mem[j]
          ELSE detached[j]]
    BY DEF Reload
  <2> QED BY <1>2, <2>1 DEF IInv, TypeOK, RunInv, Registries
<1>0. /\ stale' \in Registries /\ starting' = starting
      /\ \A j \in starting : stale'[j] = None => mem'[j] # None
  <2>1. KeepObjects({j \in Job : Loaded[j] # None}) /\ starting' = starting
    BY DEF Reload
  <2>2. /\ stale' \in Registries
        /\ \A j \in Job : stale[j] # None => stale'[j] # None
    BY <2>1, ObjectsKept DEF IInv
  <2> QED BY <1>2, <2>1, <2>2 DEF IInv, TypeOK, RunInv
<1>5. TypeOK'
  <2>1. excused' \subseteq Job
    BY DEF IInv, TypeOK, Reload
  <2> QED BY <1>0, <1>3, <1>4, <2>1 DEF IInv, TypeOK, Reload, Registries, counters
<1>6. RunInv'
  <2>1. UNCHANGED <<up, running, retired>>
    BY DEF Reload
  <2> QED BY <1>0, <1>2, <1>4, <2>1 DEF IInv, TypeOK, RunInv
<1>7. KnownInv' /\ NoResurrection'
  <2>1. \A j \in Job : mem'[j] # None \/ disk'[j] # None => mem[j] # None \/ disk[j] # None
    BY <1>1, <1>2 DEF Reload
  <2>2. UNCHANGED <<known, retired, running, starting, disk>>
    BY DEF Reload
  <2> QED BY <1>5, <2>1, <2>2, NoNewJobs DEF IInv, TypeOK, KnownInv
<1> QED BY <1>2, <1>5, <1>6, <1>7 DEF IInv

\* A start.
LEMMA StartInv ==
    ASSUME IInv, Start
    PROVE  /\ IInv'
           /\ \A j \in Job : mem'[j] # None <=> Loaded[j] # None
<1>1. /\ Loaded \in Registries
      /\ \A j \in Job : Loaded[j] # None => Loaded[j] = disk[j]
  BY LoadedJobs DEF IInv
<1>2. ASSUME NEW j \in Job
      PROVE  /\ mem'[j] \in JobState \cup {None}
             /\ mem'[j] # None <=> Loaded[j] # None
  <2>1. CASE Loaded[j] = None
    BY <2>1 DEF Start
  <2>2. CASE Loaded[j] # None
    <3>1. Loaded[j] \in JobState
      BY <1>1, <2>2 DEF Registries
    <3>2. Recalc(j, Loaded[j]) \in JobState /\ Recalc(j, Loaded[j]) # None
      BY <3>1, RecalcJob
    <3>3. mem'[j] \in {Recalc(j, Loaded[j]), Loaded[j]}
      BY <2>2 DEF Start
    <3> QED BY <2>2, <3>1, <3>2, <3>3
  <2> QED BY <2>1, <2>2
<1>3. mem' \in Registries
  BY <1>2 DEF Start, Registries
<1>4. TypeOK'
  BY <1>3 DEF IInv, TypeOK, Start, Registries, yaml, history, counters, tasks
<1>5. RunInv'
  BY DEF IInv, RunInv, Start, tasks
<1>6. KnownInv' /\ NoResurrection'
  <2>1. \A j \in Job : mem'[j] # None \/ disk'[j] # None => mem[j] # None \/ disk[j] # None
    BY <1>1, <1>2 DEF Start, yaml
  <2> QED BY <1>4, <2>1, NoNewJobs DEF IInv, Start, TypeOK, KnownInv, history, yaml, tasks
<1> QED BY <1>2, <1>4, <1>5, <1>6 DEF IInv

\* Crashes and shutdowns.
LEMMA DownInv ==
    ASSUME IInv, Crash \/ Shutdown
    PROVE  IInv'
<1>1. Down
  BY DEF Crash, Shutdown
<1>2. /\ disk' \in Registries /\ file' \in {file, "good"} /\ dirty' \in BOOLEAN
      /\ \A k \in Job : disk'[k] # None => mem[k] # None \/ disk[k] # None
      /\ \A k \in Ownerless : disk'[k] # None => disk[k] # None
  <2>1. CASE UNCHANGED <<disk, file>> /\ dirty' = FALSE
    BY <2>1 DEF IInv, TypeOK, Registries
  <2>2. CASE Flush(mem, running)
    <3>1. mem \in Registries
      BY DEF IInv, TypeOK, Registries
    <3> QED BY <2>2, <3>1, FlushWrites DEF IInv
  <2> QED BY <2>1, <2>2 DEF Crash, Shutdown
<1>3. mem' = NoJobs /\ detached' = NoJobs /\ stale' = NoJobs /\ NoJobs \in Registries
  BY <1>1 DEF Down, NoJobs, Registries
<1>4. TypeOK'
  <2>1. downs' \in 0 .. MaxDowns
    BY <1>1, JSAssumption DEF Down, IInv, TypeOK
  <2> QED BY <1>1, <1>2, <1>3, <2>1 DEF IInv, TypeOK, Down, Registries, history
<1>5. RunInv'
  BY <1>1 DEF RunInv, Down
<1>6. KnownInv' /\ NoResurrection'
  <2>1. \A j \in Job : mem'[j] = None
    BY <1>3 DEF NoJobs
  <2> QED BY <1>1, <1>2, <1>4, <2>1, NoNewJobs DEF IInv, Down, TypeOK, KnownInv, history
<1> QED BY <1>4, <1>5, <1>6 DEF IInv

\* Time passes.
LEMMA TimeInv ==
    ASSUME IInv, NEW j \in Job, TickComes(j) \/ MomentComes(j)
    PROVE  /\ IInv'
           /\ \A k \in Job : mem'[k] # None <=> mem[k] # None
           /\ \A k \in Job : disk'[k] # None <=> disk[k] # None
<1>1. ASSUME NEW r \in JobState \cup {None}, NEW time
      PROVE  Come(r, time) \in JobState \cup {None} /\ (Come(r, time) # None <=> r # None)
  <2>1. r # None => [r EXCEPT !.next = "due"] \in JobState
    BY DEF JobState, NextRun
  <2> QED BY <2>1, JSAssumption DEF Come
<1>2. PICK time : /\ mem' = [mem EXCEPT ![j] = Come(@, time)]
                  /\ disk' = [disk EXCEPT ![j] = Come(@, time)]
  BY DEF TickComes, MomentComes
<1>3. /\ mem' \in Registries /\ disk' \in Registries
      /\ \A k \in Job : mem'[k] # None <=> mem[k] # None
      /\ \A k \in Job : disk'[k] # None <=> disk[k] # None
  <2>1. mem[j] \in JobState \cup {None} /\ disk[j] \in JobState \cup {None}
    BY DEF IInv, TypeOK
  <2>2. /\ Come(mem[j], time) \in JobState \cup {None}
        /\ Come(mem[j], time) # None <=> mem[j] # None
        /\ Come(disk[j], time) \in JobState \cup {None}
        /\ Come(disk[j], time) # None <=> disk[j] # None
    BY <1>1, <2>1
  <2> QED BY <1>2, <2>2 DEF IInv, TypeOK, Registries
<1>4. /\ UNCHANGED <<up, file, dirty, watched, tasks, running, detached, history, counters>>
      /\ passed' \in [Job -> BOOLEAN]
  BY DEF TickComes, MomentComes, IInv, TypeOK
<1>5. TypeOK'
  BY <1>3, <1>4 DEF IInv, TypeOK, Registries, tasks, history, counters
<1>6. RunInv'
  BY <1>3, <1>4 DEF IInv, TypeOK, RunInv, tasks, history
<1>7. KnownInv' /\ NoResurrection'
  <2>1. Ownerless \subseteq Job
    BY JSAssumption
  <2> QED BY <1>3, <1>4, <1>5, <2>1, NoNewJobs DEF IInv, TypeOK, KnownInv, tasks, history
<1> QED BY <1>3, <1>5, <1>6, <1>7 DEF IInv

\* New jobs and subagents.
LEMMA AddInv ==
    ASSUME IInv, NEW j \in Job, j \notin known, up,
           NEW r \in JobState, mem' = [mem EXCEPT ![j] = r], known' = known \cup {j},
           Flush(mem', running), starting' \in {starting, starting \cup {j}},
           passed' \in [Job -> BOOLEAN],
           UNCHANGED <<up, watched, stale, running, detached, retired, served, excused, paused, counters>>
    PROVE  IInv'
<1>1. r # None
  BY JSAssumption
<1>2. mem' \in Registries /\ mem'[j] = r /\ \A k \in Job \ {j} : mem'[k] = mem[k]
  BY DEF IInv, TypeOK, Registries
<1>3. /\ disk' \in Registries /\ file' \in {file, "good"} /\ dirty' \in BOOLEAN
      /\ \A k \in Job : disk'[k] # None => mem'[k] # None \/ disk[k] # None
      /\ \A k \in Ownerless : disk'[k] # None => disk[k] # None
  BY <1>2, FlushWrites DEF IInv
<1>4. TypeOK'
  BY <1>2, <1>3 DEF IInv, TypeOK, Registries, counters
<1>5. RunInv'
  BY <1>1, <1>2 DEF IInv, TypeOK, RunInv
<1>6. KnownInv' /\ NoResurrection'
  <2>1. running' \subseteq known' /\ starting' \subseteq known' /\ j \in known' \ known
    BY DEF IInv, KnownInv
  <2>2. \A k \in Job : mem'[k] # None \/ disk'[k] # None =>
            mem[k] # None \/ disk[k] # None \/ k \in known' \ known
    BY <1>2, <1>3, <2>1
  <2> QED BY <1>3, <1>4, <2>1, <2>2, NoNewJobs DEF IInv, TypeOK
<1> QED BY <1>4, <1>5, <1>6 DEF IInv

\* add_job registers a job that was never known before.
LEMMA AddJobInv ==
    ASSUME IInv, NEW j \in Job, NEW enabled \in BOOLEAN, NEW sched \in Schedule,
           AddJob(j, enabled, sched)
    PROVE  IInv'
<1> DEFINE r == [enabled |-> enabled, sched |-> sched, next |-> "none"]
<1>1. r \in JobState
  BY DEF JobState, NextRun
<1> HIDE DEF r
<1>2. Recalc(j, r) \in JobState
  BY <1>1, RecalcJob
<1>3. /\ j \notin known /\ up /\ known' = known \cup {j}
      /\ mem' = [mem EXCEPT ![j] = Recalc(j, r)] /\ Flush(mem', running)
      /\ UNCHANGED <<up, watched, passed, starting, stale, running, detached, retired, served, excused,
                     paused, counters>>
  BY DEF AddJob, tasks, r
<1>4. passed' \in [Job -> BOOLEAN]
  BY <1>3 DEF IInv, TypeOK
<1> QED BY <1>2, <1>3, <1>4, AddInv

\* spawn_subagent does the same for a job that is not kept in the file.
LEMMA SpawnInv ==
    ASSUME IInv, NEW j \in Job, Spawn(j)
    PROVE  IInv'
<1> DEFINE r == [enabled |-> TRUE, sched |-> "at", next |-> "none"]
<1>1. r \in JobState
  BY DEF JobState, NextRun, Schedule
<1>2. /\ j \notin known /\ up /\ known' = known \cup {j}
      /\ mem' = [mem EXCEPT ![j] = r] /\ Flush(mem', running)
      /\ starting' = starting \cup {j}
      /\ passed' = [passed EXCEPT ![j] = TRUE]
      /\ UNCHANGED <<up, watched, stale, running, detached, retired, served, excused, paused, counters>>
  BY DEF Spawn
<1> HIDE DEF r
<1>3. passed' \in [Job -> BOOLEAN]
  BY <1>2 DEF IInv, TypeOK
<1> QED BY <1>1, <1>2, <1>3, AddInv

\* Enabling, disabling, updating.
LEMMA ChangeInv ==
    ASSUME IInv, NEW j \in Job, NEW enabled \in BOOLEAN, NEW sched \in Schedule,
           Change(j, enabled, sched)
    PROVE  IInv' /\ \A k \in Job : mem'[k] # None <=> mem[k] # None
<1> DEFINE r == [mem[j] EXCEPT !.enabled = enabled, !.sched = sched]
<1>1. mem[j] \in JobState /\ mem[j] # None
  BY DEF Change, IInv, TypeOK
<1>2. r \in JobState
  BY <1>1 DEF JobState
<1>3. mem' = [mem EXCEPT ![j] = Recalc(j, r)]
  BY DEF Change
<1> HIDE DEF r
<1>4. mem' \in Registries /\ \A k \in Job : mem'[k] # None <=> mem[k] # None
  <2>1. Recalc(j, r) \in JobState /\ Recalc(j, r) # None
    BY <1>2, RecalcJob
  <2> QED BY <1>1, <1>3, <2>1 DEF IInv, TypeOK, Registries
<1>5. /\ disk' \in Registries /\ file' \in {file, "good"} /\ dirty' \in BOOLEAN
      /\ \A k \in Job : disk'[k] # None => mem'[k] # None \/ disk[k] # None
      /\ \A k \in Ownerless : disk'[k] # None => disk[k] # None
  BY <1>4, FlushWrites DEF IInv, Change
<1>6. /\ changes' \in 0 .. MaxChanges
      /\ UNCHANGED <<up, watched, passed, starting, stale, running, detached, known, retired, served,
                     downs, edits>>
      /\ paused' \subseteq Job /\ excused' \subseteq Job
  BY JSAssumption DEF Change, IInv, TypeOK, tasks
<1>7. TypeOK'
  BY <1>4, <1>5, <1>6 DEF IInv, TypeOK, Registries
<1>8. RunInv'
  BY <1>4, <1>6 DEF IInv, TypeOK, RunInv
<1>9. KnownInv' /\ NoResurrection'
  BY <1>4, <1>5, <1>6, <1>7, NoNewJobs DEF IInv, TypeOK, KnownInv
<1> QED BY <1>4, <1>7, <1>8, <1>9 DEF IInv

\* Enabling, disabling or updating a job neither adds nor removes one.
LEMMA ChangesInv ==
    ASSUME IInv, NEW j \in Job, EnableJob(j) \/ DisableJob(j) \/ UpdateJob(j)
    PROVE  IInv' /\ \A k \in Job : mem'[k] # None <=> mem[k] # None
<1>1. mem[j] # None
  BY DEF EnableJob, DisableJob, UpdateJob, Change
<1>2. mem[j].sched \in Schedule
  BY <1>1 DEF IInv, TypeOK, JobState
<1>3. PICK enabled \in BOOLEAN, sched \in Schedule : Change(j, enabled, sched)
  BY <1>2 DEF EnableJob, DisableJob, UpdateJob
<1> QED BY <1>3, ChangeInv

\* Deleting a job.
LEMMA RemoveJobInv ==
    ASSUME IInv, NEW j \in Job, RemoveJob(j)
    PROVE  /\ IInv'
           /\ DistinctNames /\ file # "broken" => \A k \in Saved :
                Loaded'[k] # None => k # j /\ (mem[k] # None \/ Loaded[k] # None)
           /\ DistinctNames => \A k \in Saved \ {j} :
                j \notin Ownerless /\ (mem[k] # None \/ Loaded[k] # None) => Loaded'[k] # None
<1> DEFINE new == [k \in Job |-> IF k = j THEN None
                                 ELSE IF mem[k] # None /\ k \notin Ownerless THEN mem[k]
                                 ELSE Loaded[k]]
<1>1. /\ Loaded \in Registries
      /\ \A k \in Job : Loaded[k] # None => Loaded[k] = disk[k]
  BY LoadedJobs DEF IInv
<1>2. /\ mem[j] # None /\ up /\ mem' = [mem EXCEPT ![j] = None]
      /\ retired' = retired \cup {j}
      /\ detached' = IF j \in running /\ detached[j] = None
                     THEN [detached EXCEPT ![j] = mem[j]] ELSE detached
      /\ UNCHANGED <<up, watched, passed, starting, running, known, served, excused, paused, counters>>
  BY DEF RemoveJob
<1>0. /\ stale' \in Registries
      /\ \A k \in starting : stale'[k] = None => stale[k] = None /\ k # j
  <2>1. KeepObjects({j})
    BY DEF RemoveJob
  <2>2. /\ stale' \in Registries
        /\ \A k \in Job : stale[k] # None => stale'[k] # None
        /\ \A k \in starting \cap {j} : mem[k] # None => stale'[k] # None
    BY <2>1, ObjectsKept DEF IInv
  <2> QED BY <1>2, <2>2 DEF IInv, TypeOK
<1>3. /\ mem' \in Registries /\ mem'[j] = None
      /\ \A k \in Job \ {j} : mem'[k] = mem[k]
  BY <1>2 DEF IInv, TypeOK, Registries
<1>4. /\ disk' \in Registries /\ file' \in {file, "good"} /\ dirty' \in BOOLEAN
      /\ disk'[j] = None
      /\ \A k \in Job : disk'[k] # None => mem[k] # None \/ disk[k] # None
      /\ \A k \in Ownerless : disk'[k] = None
      /\ j \notin Ownerless /\ DistinctNames => disk' = new /\ file' = "good"
  <2>1. CASE j \in Ownerless
    BY <2>1 DEF RemoveJob, yaml, IInv, TypeOK, KnownInv, Registries
  <2>2. CASE j \notin Ownerless
    <3>1. Save(new) /\ dirty' = watched
      BY <2>2 DEF RemoveJob
    <3>2. new \in Registries
      BY <1>1 DEF IInv, TypeOK, Registries
    <3>3. /\ new[j] = None
          /\ \A k \in Job : new[k] # None => mem[k] # None \/ disk[k] # None
          /\ \A k \in Ownerless : new[k] = None
      BY <1>1, JSAssumption DEF IInv, KnownInv
    <3> HIDE DEF new
    <3>4. /\ disk' \in Registries /\ file' = "good"
          /\ \A k \in Job : disk'[k] # None => new[k] # None
          /\ DistinctNames => disk' = new
      BY <3>1, <3>2, SaveWrites
    <3> QED BY <3>1, <3>3, <3>4, JSAssumption DEF IInv, TypeOK
  <2> QED BY <2>1, <2>2
<1>5. TypeOK'
  <2>1. detached' \in Registries
    BY <1>2 DEF IInv, TypeOK, Registries
  <2> QED BY <1>0, <1>2, <1>3, <1>4, <2>1 DEF IInv, TypeOK, Registries, counters
<1>6. RunInv'
  BY <1>0, <1>2, <1>3 DEF IInv, TypeOK, RunInv
<1>7. KnownInv' /\ NoResurrection'
  <2>1. j \in known
    BY <1>2 DEF IInv, KnownInv
  <2>2. KnownInv'
    BY <1>2, <1>3, <1>4, <2>1 DEF IInv, KnownInv
  <2>3. ASSUME NEW k \in retired \cup {j} PROVE mem'[k] = None /\ disk'[k] = None
    BY <1>3, <1>4, <2>3 DEF IInv, TypeOK, NoResurrection
  <2> QED BY <1>2, <2>2, <2>3 DEF NoResurrection
<1>8. ASSUME DistinctNames, NEW k \in Saved, j \notin Ownerless
      PROVE  Loaded'[k] # None <=> k # j /\ (mem[k] # None \/ Loaded[k] # None)
  <2>1. k \in Job /\ k \notin Ownerless
    BY DEF Saved
  <2>2. Loaded' = new
    BY <1>4, <1>8 DEF Loaded
  <2> QED BY <2>1, <2>2
<1>9. ASSUME NEW k \in Saved, j \in Ownerless
      PROVE  Loaded'[k] = Loaded[k] /\ k # j
  BY <1>9 DEF RemoveJob, yaml, Loaded, Saved
<1> QED BY <1>5, <1>6, <1>7, <1>8, <1>9 DEF IInv

\* Every action of the service keeps the invariant.
LEMMA ServiceInv == IInv /\ [Next]_vars => IInv'
<1> SUFFICES ASSUME IInv, [Next]_vars PROVE IInv'
  OBVIOUS
<1>1. ASSUME NEW j \in Job, Service(j) PROVE IInv'
  <2>1. CASE Fire(j) \/ RunNow(j) \/ BeginRun(j)
    BY <2>1, CreateTaskInv, BeginRunInv DEF Fire, RunNow
  <2>2. CASE \E success \in BOOLEAN : FinishRun(j, success)
    <3>1. PICK success \in BOOLEAN : FinishRun(j, success)
      BY <2>2
    <3>2. CASE Retire(j) /\ retired' = retired \cup {j} /\ KeepObjects({j})
      BY <3>1, <3>2, RetireInv
    <3>3. CASE Reschedule(j) /\ retired' = retired /\ stale' = stale
      BY <3>1, <3>3, RescheduleInv
    <3> QED BY <3>1, <3>2, <3>3 DEF FinishRun
  <2>3. CASE \E enabled \in BOOLEAN, sched \in Schedule : AddJob(j, enabled, sched)
    BY <2>3, AddJobInv
  <2>4. CASE Spawn(j)
    BY <2>4, SpawnInv
  <2>5. CASE EnableJob(j) \/ DisableJob(j) \/ UpdateJob(j)
    BY <2>5, ChangesInv
  <2>6. CASE RemoveJob(j)
    BY <2>6, RemoveJobInv
  <2>7. CASE TickComes(j) \/ MomentComes(j)
    BY <2>7, TimeInv
  <2> QED BY <1>1, <2>1, <2>2, <2>3, <2>4, <2>5, <2>6, <2>7, ServiceCases
<1>2. CASE UNCHANGED vars
  BY <1>2 DEF IInv, TypeOK, RunInv, KnownInv, NoResurrection, vars, yaml, tasks, history, counters
<1> QED BY <1>1, <1>2, ReloadInv, StartInv, DownInv DEF Next

\* Edits of one job of the file.
LEMMA EditOneFacts ==
    ASSUME IInv, NEW j \in Job,
           EditEnabled(j) \/ EditSchedule(j) \/ EditDelete(j) \/ EditAdd(j)
    PROVE  /\ disk' \in Registries
           /\ known' \in {known, known \cup {j}} /\ paused' \subseteq Job
           /\ file' \in {"absent", "good", "broken"}
           /\ \A k \in Job : disk'[k] # None => disk[k] # None \/ k \in known' \ known
           /\ \A k \in Ownerless : disk'[k] = None
<1>1. disk \in Registries /\ \A k \in Ownerless : k \in Job /\ disk[k] = None
  BY JSAssumption DEF IInv, TypeOK, KnownInv, Registries
<1>2. Loaded[j] # None => disk[j] \in JobState /\ disk[j] # None
  BY LoadedJobs, <1>1 DEF IInv, Registries
<1>3. CASE EditEnabled(j)
  <2>1. disk' = [disk EXCEPT ![j] = [disk[j] EXCEPT !.enabled = ~disk[j].enabled]]
    BY <1>3 DEF EditEnabled
  <2>2. disk[j] \in JobState /\ disk[j] # None /\ j \notin Ownerless
    BY <1>1, <1>2, <1>3 DEF EditEnabled
  <2>3. [disk[j] EXCEPT !.enabled = ~disk[j].enabled] \in JobState
    BY <2>2 DEF JobState
  <2> QED BY <1>1, <1>3, <2>1, <2>2, <2>3 DEF EditEnabled, IInv, TypeOK, Registries
<1>4. CASE EditSchedule(j)
  <2>1. PICK sched \in Schedule : disk' = [disk EXCEPT ![j] = [disk[j] EXCEPT !.sched = sched]]
    BY <1>4 DEF EditSchedule
  <2>2. disk[j] \in JobState /\ disk[j] # None /\ j \notin Ownerless
    BY <1>1, <1>2, <1>4 DEF EditSchedule
  <2>3. [disk[j] EXCEPT !.sched = sched] \in JobState
    BY <2>2 DEF JobState
  <2> QED BY <1>1, <1>4, <2>1, <2>2, <2>3 DEF EditSchedule, IInv, TypeOK, Registries
<1>5. CASE EditDelete(j)
  BY <1>1, <1>5 DEF EditDelete, IInv, TypeOK, Registries
<1>6. CASE EditAdd(j)
  <2>1. PICK enabled \in BOOLEAN, sched \in Schedule :
          disk' = [disk EXCEPT ![j] = [enabled |-> enabled, sched |-> sched, next |-> "none"]]
    BY <1>6 DEF EditAdd
  <2>2. [enabled |-> enabled, sched |-> sched, next |-> "none"] \in JobState
    BY DEF JobState, NextRun
  <2>3. j \notin Ownerless /\ j \notin known /\ known' = known \cup {j}
    BY <1>6 DEF EditAdd, Saved
  <2>4. disk' \in Registries /\ \A k \in Job \ {j} : disk'[k] = disk[k]
    BY <1>1, <2>1, <2>2 DEF Registries
  <2> QED BY <1>1, <1>6, <2>3, <2>4 DEF EditAdd, IInv, TypeOK
<1> QED BY <1>3, <1>4, <1>5, <1>6

\* Every edit of the file keeps the invariant.
LEMMA EditInv == IInv /\ ExternalEdit => IInv'
<1> SUFFICES ASSUME IInv, ExternalEdit PROVE IInv'
  OBVIOUS
<1>1. Edit
  BY DEF ExternalEdit, EditEnabled, EditSchedule, EditDelete, EditAdd, EditBreak, EditMend
<1>2. /\ UNCHANGED <<up, mem, watched, passed, starting, stale, running, detached, retired, served,
                     excused, downs, changes>>
      /\ dirty' \in BOOLEAN /\ edits' \in 0 .. MaxEdits
  BY <1>1, JSAssumption DEF Edit, IInv, TypeOK, tasks
<1> DEFINE Kept ==
      /\ disk' \in Registries
      /\ known' \subseteq Job /\ known \subseteq known' /\ paused' \subseteq Job
      /\ file' \in {"absent", "good", "broken"}
      /\ \A k \in Job : disk'[k] # None => disk[k] # None \/ k \in known' \ known
      /\ \A k \in Ownerless : disk'[k] = None
<1>3. Kept
  <2>1. CASE EditBreak \/ EditMend
    BY <2>1 DEF EditBreak, EditMend, IInv, TypeOK, KnownInv, Registries
  <2>2. ASSUME NEW j \in Job, EditEnabled(j) \/ EditSchedule(j) \/ EditDelete(j) \/ EditAdd(j)
        PROVE  Kept
    BY <2>2, EditOneFacts DEF IInv, TypeOK
  <2> QED BY <2>1, <2>2 DEF ExternalEdit
<1>4. TypeOK'
  BY <1>2, <1>3 DEF IInv, TypeOK, Registries
<1>5. RunInv'
  BY <1>2 DEF IInv, RunInv
<1>6. KnownInv' /\ NoResurrection'
  BY <1>2, <1>3, <1>4, NoNewJobs DEF IInv, KnownInv, TypeOK
<1> QED BY <1>4, <1>5, <1>6 DEF IInv

\* The invariant holds of every behaviour, edited or not.
THEOREM InvariantHolds == EditedSpec => []IInv
<1>1. IInv /\ [Next \/ ExternalEdit]_vars => IInv'
  BY ServiceInv, EditInv
<1> QED BY InitInv, <1>1, PTL DEF EditedSpec

\* Every variable of the scheduler stays in its range, whatever the user writes.
THEOREM TypeCorrect == EditedSpec => []TypeOK
<1>1. IInv => TypeOK
  BY DEF IInv
<1> QED BY InvariantHolds, <1>1, PTL

\* A deleted or finished job never comes back to memory or file: reloads, flushes by
\* runs that outlive it, restarts and edits included.
THEOREM GoneForGood == EditedSpec => []NoResurrection
<1>1. IInv => NoResurrection
  BY DEF IInv
<1> QED BY InvariantHolds, <1>1, PTL

---------------------------------------------------------------------------
(* The registry: what the service does by itself, names being distinct.    *)

\* Before the first job, file and memory agree with the abstract registry.
LEMMA RegistryInit == Init => RegistryInv
BY DEF Init, RegistryInv

\* A flush of a registry with the same jobs keeps the file in step.
LEMMA FlushInStep ==
    ASSUME IInv, RegistryInv, DistinctNames, NEW m \in Registries, NEW busy,
           up, Flush(m, busy),
           \A j \in Saved : mem[j] # None => m[j] # None
    PROVE  /\ file' \in {"absent", "good"}
           /\ \A j \in Saved : m[j] # None <=> Loaded'[j] # None
BY FlushWrites DEF IInv, RegistryInv

\* The mapping to JobRegistry.
StatusBar == [j \in Saved |->
    IF j \in retired THEN "retired"
    ELSE IF (IF up THEN mem[j] ELSE Loaded[j]) # None THEN "registered" ELSE "new"]

RegistryStep == RegistryInv' /\ [Registry!Next]_(Registry!vars)

\* A step that leaves each saved job where it was is a stutter of the registry.
LEMMA Stutter ==
    ASSUME RegistryInv', retired' = retired, running' \cap Saved = running \cap Saved,
           starting' \cap Saved = starting \cap Saved,
           \A j \in Saved : (IF up' THEN mem'[j] ELSE Loaded'[j]) # None
                         <=> (IF up THEN mem[j] ELSE Loaded[j]) # None
    PROVE  RegistryStep
BY DEF RegistryStep, Registry!vars

\* Creating a task is asking for a run.
LEMMA CreateTaskStep ==
    ASSUME IInv, RegistryInv, NEW j \in Job, up, mem[j] # None, CreateTask(j)
    PROVE  RegistryStep
<1>1. /\ starting' = starting \cup {j}
      /\ UNCHANGED <<up, mem, disk, file, running, retired>>
  BY DEF CreateTask, yaml, history
<1>2. RegistryInv' /\ Loaded' = Loaded
  BY <1>1 DEF RegistryInv, Loaded
<1>3. CASE j \notin Saved
  <2>1. starting' \cap Saved = starting \cap Saved
    BY <1>1, <1>3
  <2> QED BY <1>1, <1>2, <2>1, Stutter
<1>4. CASE j \in Saved
  <2>1. j \notin retired
    BY DEF IInv, NoResurrection
  <2>2. Registry!Ask(j)
    BY <1>1, <1>2, <1>4, <2>1 DEF Registry!Ask
  <2> QED BY <1>2, <1>4, <2>2 DEF RegistryStep, Registry!Next
<1> QED BY <1>3, <1>4

\* A task that begins is Begin of a saved job, or Drop.
LEMMA BeginRunStep ==
    ASSUME IInv, RegistryInv, DistinctNames, NEW j \in Job, BeginRun(j)
    PROVE  RegistryStep
<1>1. /\ up /\ j \in starting /\ starting' = starting \ {j}
      /\ UNCHANGED <<up, mem, retired>>
      /\ \/ j \in running /\ UNCHANGED <<disk, file, running>>
         \/ j \notin running /\ running' = running \cup {j} /\ Flush(mem, running')
  BY DEF BeginRun, yaml, history
<1>2. mem \in Registries
  BY DEF IInv, TypeOK, Registries
<1>3. RegistryInv'
  <2>1. CASE UNCHANGED <<disk, file>>
    BY <1>1, <2>1 DEF RegistryInv, Loaded
  <2>2. CASE Flush(mem, running')
    BY <1>1, <1>2, <2>2, FlushInStep DEF RegistryInv
  <2> QED BY <1>1, <2>1, <2>2
<1>4. StatusBar' = StatusBar
  BY <1>1 DEF StatusBar
<1>5. CASE j \notin Saved
  <2>1. starting' \cap Saved = starting \cap Saved /\ running' \cap Saved = running \cap Saved
    BY <1>1, <1>5
  <2> QED BY <1>1, <1>3, <2>1, Stutter
<1>6. CASE j \in Saved
  <2>1. Registry!Begin(j) \/ Registry!Drop(j)
    BY <1>1, <1>4, <1>6 DEF Registry!Begin, Registry!Drop, StatusBar
  <2> QED BY <1>3, <1>6, <2>1 DEF RegistryStep, Registry!Next
<1> QED BY <1>5, <1>6

\* Ending it is End.
LEMMA FinishRunStep ==
    ASSUME IInv, RegistryInv, DistinctNames, NEW j \in Job, NEW success \in BOOLEAN,
           FinishRun(j, success)
    PROVE  RegistryStep
<1>1. /\ up /\ up' /\ j \in running /\ running' = running \ {j} /\ starting' = starting
  BY DEF FinishRun
<1>2. CASE Retire(j) /\ retired' = retired \cup {j}
  <2>1. mem' = [mem EXCEPT ![j] = None] /\ mem \in Registries
    BY <1>2 DEF Retire, IInv, TypeOK, Registries
  <2>2. RegistryInv'
    <3>1. CASE mem[j] # None /\ j \notin Ownerless
      <4>1. Loaded \in Registries
        BY LoadedJobs DEF IInv
      <4>2. [Loaded EXCEPT ![j] = None] \in Registries
        BY <4>1 DEF Registries
      <4>3. disk' = [Loaded EXCEPT ![j] = None] /\ file' = "good"
        BY <1>2, <3>1, <4>2, SaveWrites DEF Retire
      <4>4. Loaded' = [Loaded EXCEPT ![j] = None]
        BY <4>3 DEF Loaded
      <4> QED BY <1>1, <2>1, <4>1, <4>3, <4>4 DEF RegistryInv, Registries, Saved
    <3>2. CASE ~(mem[j] # None /\ j \notin Ownerless)
      <4>1. Loaded' = Loaded /\ file' = file
        BY <1>2, <3>2 DEF Retire, yaml, Loaded
      <4>2. \A k \in Saved : mem'[k] = mem[k]
        BY <2>1, <3>2 DEF Registries, Saved
      <4> QED BY <1>1, <4>1, <4>2 DEF RegistryInv
    <3> QED BY <3>1, <3>2
  <2>3. CASE j \in Saved
    <3>1. \A k \in Saved : k # j => mem'[k] = mem[k] /\ (k \in retired' <=> k \in retired)
      BY <1>2, <2>1 DEF Registries, Saved
    <3>2. j \in retired'
      BY <1>2
    <3>3. StatusBar' = [StatusBar EXCEPT ![j] = "retired"]
      BY <1>1, <2>3, <3>1, <3>2 DEF StatusBar
    <3>4. Registry!End(j)
      BY <1>1, <2>3, <3>3 DEF Registry!End, StatusBar
    <3> QED BY <2>2, <2>3, <3>4 DEF RegistryStep, Registry!Next
  <2>4. CASE j \notin Saved
    <3>1. \A k \in Saved : mem'[k] = mem[k] /\ (k \in retired' <=> k \in retired)
      BY <1>2, <2>1, <2>4 DEF Registries, Saved
    <3>2. StatusBar' = StatusBar
      BY <1>1, <3>1 DEF StatusBar
    <3>3. running' \cap Saved = running \cap Saved
      BY <1>1, <2>4
    <3> QED BY <1>1, <2>2, <3>2, <3>3 DEF RegistryStep, Registry!vars, StatusBar
  <2> QED BY <2>3, <2>4
<1>3. CASE Reschedule(j) /\ retired' = retired /\ stale' = stale
  <2>1. IInv' /\ \A k \in Job : mem'[k] # None <=> mem[k] # None
    BY <1>3, RescheduleInv
  <2>2. mem' \in Registries /\ Flush(mem', running)
    BY <1>3, <2>1 DEF Reschedule, IInv, TypeOK, Registries
  <2>3. Saved \subseteq Job
    BY DEF Saved
  <2>4. RegistryInv'
    BY <1>1, <2>1, <2>2, <2>3, FlushInStep DEF RegistryInv
  <2>5. StatusBar' = StatusBar
    BY <1>1, <1>3, <2>1, <2>3 DEF StatusBar
  <2>6. CASE j \in Saved
    <3>1. Registry!End(j)
      BY <1>1, <2>5, <2>6 DEF Registry!End, StatusBar
    <3> QED BY <2>4, <2>6, <3>1 DEF RegistryStep, Registry!Next
  <2>7. CASE j \notin Saved
    <3>1. running' \cap Saved = running \cap Saved
      BY <1>1, <2>7
    <3> QED BY <1>1, <2>4, <2>5, <3>1 DEF RegistryStep, Registry!vars, StatusBar
  <2> QED BY <2>6, <2>7
<1> QED BY <1>2, <1>3 DEF FinishRun

\* A new job is Register if it is saved.
LEMMA AddStep ==
    ASSUME IInv, RegistryInv, DistinctNames, NEW j \in Job, j \notin known, up,
           NEW r \in JobState, mem' = [mem EXCEPT ![j] = r], Flush(mem', running),
           starting' \cap Saved = starting \cap Saved,
           UNCHANGED <<up, running, retired>>
    PROVE  RegistryStep
<1>1. /\ mem' \in Registries /\ mem'[j] # None /\ \A k \in Job \ {j} : mem'[k] = mem[k]
  BY JSAssumption DEF IInv, TypeOK, Registries
<1>2. \A k \in Saved : mem[k] # None => mem'[k] # None
  BY <1>1 DEF Saved
<1>3. RegistryInv'
  BY <1>1, <1>2, FlushInStep DEF RegistryInv
<1>4. j \notin retired /\ mem[j] = None
  BY DEF IInv, KnownInv
<1>5. CASE j \in Saved
  <2>1. StatusBar[j] = "new" /\ StatusBar' = [StatusBar EXCEPT ![j] = "registered"]
    BY <1>1, <1>4, <1>5 DEF StatusBar, Saved
  <2>2. Registry!Register(j)
    BY <1>5, <2>1 DEF Registry!Register, StatusBar
  <2> QED BY <1>3, <1>5, <2>2 DEF RegistryStep, Registry!Next
<1>6. CASE j \notin Saved
  <2>1. \A k \in Saved : mem'[k] = mem[k]
    BY <1>1, <1>6 DEF Saved
  <2> QED BY <1>3, <2>1, Stutter
<1> QED BY <1>5, <1>6

\* add_job is an addition to the abstract registry.
LEMMA AddJobStep ==
    ASSUME IInv, RegistryInv, DistinctNames, NEW j \in Job,
           NEW enabled \in BOOLEAN, NEW sched \in Schedule, AddJob(j, enabled, sched)
    PROVE  RegistryStep
<1> DEFINE r == [enabled |-> enabled, sched |-> sched, next |-> "none"]
<1>1. r \in JobState
  BY DEF JobState, NextRun
<1> HIDE DEF r
<1>2. Recalc(j, r) \in JobState
  BY <1>1, RecalcJob
<1>3. /\ j \notin known /\ up /\ mem' = [mem EXCEPT ![j] = Recalc(j, r)]
      /\ Flush(mem', running) /\ UNCHANGED <<up, starting, running, retired>>
  BY DEF AddJob, tasks, r
<1> QED BY <1>2, <1>3, AddStep

\* spawn_subagent is the addition of a job that a restart forgets.
LEMMA SpawnStep ==
    ASSUME IInv, RegistryInv, DistinctNames, NEW j \in Job, Spawn(j)
    PROVE  RegistryStep
<1> DEFINE r == [enabled |-> TRUE, sched |-> "at", next |-> "none"]
<1>1. r \in JobState
  BY DEF JobState, NextRun, Schedule
<1>2. /\ j \notin known /\ up /\ mem' = [mem EXCEPT ![j] = r]
      /\ Flush(mem', running) /\ UNCHANGED <<up, running, retired>>
      /\ starting' = starting \cup {j} /\ j \in Ephemeral
  BY DEF Spawn
<1> HIDE DEF r
<1>3. starting' \cap Saved = starting \cap Saved
  BY <1>2 DEF Saved
<1> QED BY <1>1, <1>2, <1>3, AddStep

\* Changing a job does not touch the registry.
LEMMA ChangesStep ==
    ASSUME IInv, RegistryInv, DistinctNames, NEW j \in Job,
           EnableJob(j) \/ DisableJob(j) \/ UpdateJob(j)
    PROVE  RegistryStep
<1>1. IInv' /\ \A k \in Job : mem'[k] # None <=> mem[k] # None
  BY ChangesInv
<1>2. Flush(mem', running) /\ up /\ UNCHANGED <<up, starting, running, retired>>
  BY DEF EnableJob, DisableJob, UpdateJob, Change, tasks
<1>3. mem' \in Registries
  BY <1>1 DEF IInv, TypeOK, Registries
<1>4. Saved \subseteq Job
  BY DEF Saved
<1>5. RegistryInv'
  BY <1>1, <1>2, <1>3, <1>4, FlushInStep DEF RegistryInv
<1> QED BY <1>1, <1>2, <1>4, <1>5, Stutter

\* Deleting one is Delete if it is saved.
LEMMA RemoveJobStep ==
    ASSUME IInv, RegistryInv, DistinctNames, NEW j \in Job, RemoveJob(j)
    PROVE  RegistryStep
<1>1. /\ mem[j] # None /\ up /\ up' /\ mem' = [mem EXCEPT ![j] = None]
      /\ retired' = retired \cup {j} /\ running' = running /\ starting' = starting
  BY DEF RemoveJob
<1>2. mem'[j] = None /\ \A k \in Job \ {j} : mem'[k] = mem[k]
  BY <1>1 DEF IInv, TypeOK
<1>3. /\ IInv'
      /\ \A k \in Saved : Loaded'[k] # None => k # j /\ (mem[k] # None \/ Loaded[k] # None)
      /\ \A k \in Saved \ {j} :
           j \notin Ownerless /\ (mem[k] # None \/ Loaded[k] # None) => Loaded'[k] # None
  BY RemoveJobInv DEF RegistryInv
<1>4. j \in Ownerless => Loaded' = Loaded /\ file' = file
  BY DEF RemoveJob, yaml, Loaded
<1>5. file' \in {"absent", "good"}
  BY <1>4 DEF RemoveJob, Save, RegistryInv
<1>6. RegistryInv'
  BY <1>1, <1>2, <1>3, <1>4, <1>5 DEF RegistryInv, Saved
<1>7. CASE j \in Saved
  <2>1. j \notin retired
    BY <1>1 DEF IInv, NoResurrection
  <2>2. \A k \in Saved \ {j} : mem'[k] = mem[k] /\ (k \in retired' <=> k \in retired)
    BY <1>1, <1>2 DEF Saved
  <2>3. StatusBar[j] = "registered" /\ StatusBar' = [StatusBar EXCEPT ![j] = "retired"]
    BY <1>1, <1>7, <2>1, <2>2 DEF StatusBar
  <2>4. Registry!Delete(j)
    BY <1>1, <1>7, <2>3 DEF Registry!Delete, StatusBar
  <2> QED BY <1>6, <1>7, <2>4 DEF RegistryStep, Registry!Next
<1>8. CASE j \notin Saved
  <2>1. \A k \in Saved : mem'[k] = mem[k] /\ (k \in retired' <=> k \in retired)
    BY <1>1, <1>2, <1>8 DEF Saved
  <2>2. StatusBar' = StatusBar
    BY <1>1, <2>1 DEF StatusBar
  <2> QED BY <1>1, <1>6, <2>2 DEF RegistryStep, Registry!vars, StatusBar
<1> QED BY <1>7, <1>8

\* Reloads, starts and the passing of time do not touch it either.
LEMMA QuietStep ==
    ASSUME IInv, RegistryInv,
           Reload \/ Start \/ \E j \in Job : TickComes(j) \/ MomentComes(j)
    PROVE  RegistryStep
<1>1. Saved \subseteq Job
  BY DEF Saved
<1>2. CASE Reload
  <2>1. \A k \in Job : mem'[k] # None <=> mem[k] # None \/ Loaded[k] # None
    BY <1>2, ReloadInv
  <2>2. Loaded' = Loaded /\ up /\ UNCHANGED <<up, file, starting, running, retired>>
    BY <1>2 DEF Reload, Loaded, history
  <2>3. RegistryInv'
    BY <1>1, <2>1, <2>2 DEF RegistryInv
  <2> QED BY <1>1, <2>1, <2>2, <2>3, Stutter DEF RegistryInv
<1>3. CASE Start
  <2>1. \A k \in Job : mem'[k] # None <=> Loaded[k] # None
    BY <1>3, StartInv
  <2>2. Loaded' = Loaded /\ ~up /\ up' /\ UNCHANGED <<file, starting, running, retired>>
    BY <1>3 DEF Start, Loaded, yaml, tasks, history
  <2>3. RegistryInv'
    BY <1>1, <2>1, <2>2 DEF RegistryInv
  <2> QED BY <1>1, <2>1, <2>2, <2>3, Stutter
<1>4. CASE \E j \in Job : TickComes(j) \/ MomentComes(j)
  <2>1. /\ \A k \in Job : mem'[k] # None <=> mem[k] # None
        /\ \A k \in Job : disk'[k] # None <=> disk[k] # None
    BY <1>4, TimeInv
  <2>2. UNCHANGED <<up, file, starting, running, retired>>
    BY <1>4 DEF TickComes, MomentComes, tasks, history
  <2>3. \A k \in Job : Loaded'[k] # None <=> Loaded[k] # None
    BY <2>1, <2>2 DEF Loaded, NoJobs
  <2>4. RegistryInv'
    BY <1>1, <2>1, <2>2, <2>3 DEF RegistryInv
  <2> QED BY <1>1, <2>1, <2>2, <2>3, <2>4, Stutter
<1> QED BY <1>2, <1>3, <1>4

\* The end of the process is Down.
LEMMA DownStep ==
    ASSUME IInv, RegistryInv, DistinctNames, Crash \/ Shutdown
    PROVE  RegistryStep
<1>1. up /\ ~up' /\ running' = {} /\ starting' = {} /\ retired' = retired
  BY DEF Crash, Shutdown, Down, history, IInv, TypeOK
<1>2. /\ file' \in {"absent", "good"}
      /\ \A k \in Saved : mem[k] # None <=> Loaded'[k] # None
  <2>1. CASE UNCHANGED <<disk, file>>
    BY <1>1, <2>1 DEF RegistryInv, Loaded
  <2>2. CASE Flush(mem, running)
    <3>1. mem \in Registries
      BY DEF IInv, TypeOK, Registries
    <3> QED BY <1>1, <2>2, <3>1, FlushInStep
  <2> QED BY <2>1, <2>2 DEF Crash, Shutdown
<1>3. RegistryInv'
  BY <1>1, <1>2 DEF RegistryInv
<1>4. StatusBar' = StatusBar
  BY <1>1, <1>2 DEF StatusBar
<1>5. Registry!Down
  BY <1>1, <1>4 DEF Registry!Down, StatusBar
<1> QED BY <1>3, <1>5 DEF RegistryStep, Registry!Next

\* Every step of the service is a step of the registry or none.
LEMMA RegistrySteps ==
    IInv /\ RegistryInv /\ DistinctNames /\ [Next]_vars => RegistryStep
<1> SUFFICES ASSUME IInv, RegistryInv, DistinctNames, [Next]_vars PROVE RegistryStep
  OBVIOUS
<1>1. ASSUME NEW j \in Job, Service(j) PROVE RegistryStep
  <2>1. CASE Fire(j) \/ RunNow(j) \/ BeginRun(j)
    BY <2>1, CreateTaskStep, BeginRunStep DEF Fire, RunNow
  <2>2. CASE \E success \in BOOLEAN : FinishRun(j, success)
    BY <2>2, FinishRunStep
  <2>3. CASE \E enabled \in BOOLEAN, sched \in Schedule : AddJob(j, enabled, sched)
    BY <2>3, AddJobStep
  <2>4. CASE Spawn(j)
    BY <2>4, SpawnStep
  <2>5. CASE EnableJob(j) \/ DisableJob(j) \/ UpdateJob(j)
    BY <2>5, ChangesStep
  <2>6. CASE RemoveJob(j)
    BY <2>6, RemoveJobStep
  <2>7. CASE TickComes(j) \/ MomentComes(j)
    BY <2>7, QuietStep
  <2> QED BY <1>1, <2>1, <2>2, <2>3, <2>4, <2>5, <2>6, <2>7, ServiceCases
<1>2. CASE Reload \/ Start
  BY <1>2, QuietStep
<1>3. CASE UNCHANGED vars
  <2>1. RegistryInv'
    BY <1>3 DEF RegistryInv, vars, yaml, Loaded
  <2> QED BY <1>3, <2>1, Stutter DEF vars, yaml, tasks, history, Loaded
<1> QED BY <1>1, <1>2, <1>3, DownStep DEF Next

\* With distinct job names the service implements JobRegistry: a saved job is
\* registered from its addition to its deletion or completion, through every
\* restart and crash; a run of it begins only for a task created while it was
\* registered, once for each, and never beside itself.
THEOREM SchedulerImplementsRegistry ==
    ASSUME DistinctNames
    PROVE  Spec => ImplementsRegistry
<1>1. Init => Registry!Init
  BY DEF Init, Registry!Init, NoJobs, Loaded, Saved
<1>2. Init => IInv /\ RegistryInv
  BY InitInv, RegistryInit
<1>3. IInv /\ RegistryInv /\ [Next]_vars
        => IInv' /\ RegistryInv' /\ [Registry!Next]_(Registry!vars)
  BY ServiceInv, RegistrySteps DEF RegistryStep
<1> QED BY <1>1, <1>2, <1>3, PTL DEF Spec, ImplementsRegistry, Registry!Spec

---------------------------------------------------------------------------
(* Writes of the file.                                                     *)

\* Without name clashes a save that starts from the loaded jobs keeps them.
LEMMA FlushKeeps ==
    ASSUME TypeOK, DistinctNames, NEW m \in Registries, NEW busy, Flush(m, busy)
    PROVE  \A j \in Job : Loaded[j] # None => disk'[j] # None
BY FlushWrites

\* With distinct names, no write of the service drops a job of the file, one added
\* by hand and never loaded included, but the one that is deleted or done.
THEOREM WritesKeepJobs ==
    ASSUME DistinctNames
    PROVE  EditedSpec => FileKeepsJobs
<1> DEFINE Keeps == \A j \in Job :
      Loaded[j] # None /\ edits' = edits => disk'[j] # None \/ j \in retired'
<1>1. ASSUME IInv, Next PROVE Keeps
  <2>1. mem \in Registries /\ TypeOK
    BY <1>1 DEF IInv, TypeOK, Registries
  <2>2. \A j \in Job : Loaded[j] # None => disk[j] # None
    BY LoadedJobs, <2>1
  <2>3. ASSUME NEW m \in Registries, NEW busy, Flush(m, busy) PROVE Keeps
    BY <2>1, <2>3, FlushKeeps
  <2>4. mem' \in Registries
    BY <1>1, ServiceInv DEF IInv, TypeOK, Registries
  <2>5. ASSUME NEW j \in Job, Service(j) PROVE Keeps
    <3>1. CASE Fire(j) \/ RunNow(j) \/ BeginRun(j)
      <4>1. UNCHANGED yaml \/ Flush(mem, running')
        BY <3>1 DEF Fire, RunNow, CreateTask, BeginRun
      <4> QED BY <2>1, <2>2, <2>3, <4>1 DEF yaml
    <3>2. CASE \E success \in BOOLEAN : FinishRun(j, success)
      <4>1. CASE Retire(j) /\ retired' = retired \cup {j}
        <5>1. CASE mem[j] # None /\ j \notin Ownerless
          <6>1. Loaded \in Registries
            BY LoadedJobs, <2>1
          <6>2. [Loaded EXCEPT ![j] = None] \in Registries
            BY <6>1 DEF Registries
          <6>3. disk' = [Loaded EXCEPT ![j] = None]
            BY <4>1, <5>1, <6>2, SaveWrites DEF Retire
          <6> QED BY <4>1, <6>1, <6>3 DEF Registries
        <5>2. CASE ~(mem[j] # None /\ j \notin Ownerless)
          BY <2>2, <4>1, <5>2 DEF Retire, yaml
        <5> QED BY <5>1, <5>2
      <4>2. CASE Reschedule(j)
        BY <2>3, <2>4, <4>2 DEF Reschedule
      <4> QED BY <3>2, <4>1, <4>2 DEF FinishRun
    <3>3. CASE \E enabled \in BOOLEAN, sched \in Schedule : AddJob(j, enabled, sched)
      BY <2>3, <2>4, <3>3 DEF AddJob
    <3>4. CASE Spawn(j)
      BY <2>3, <2>4, <3>4 DEF Spawn
    <3>5. CASE EnableJob(j) \/ DisableJob(j) \/ UpdateJob(j)
      BY <2>3, <2>4, <3>5 DEF EnableJob, DisableJob, UpdateJob, Change
    <3>6. CASE RemoveJob(j)
      <4>1. CASE j \in Ownerless
        BY <2>2, <3>6, <4>1 DEF RemoveJob, yaml
      <4>2. CASE j \notin Ownerless
        <5> DEFINE new == [k \in Job |-> IF k = j THEN None
                                         ELSE IF mem[k] # None /\ k \notin Ownerless THEN mem[k]
                                         ELSE Loaded[k]]
        <5>1. Save(new) /\ retired' = retired \cup {j}
          BY <3>6, <4>2 DEF RemoveJob
        <5>2. new \in Registries
          BY <2>1, LoadedJobs DEF Registries
        <5>3. disk' = new
          BY <5>1, <5>2, SaveWrites
        <5> QED BY <5>1, <5>3
      <4> QED BY <4>1, <4>2
    <3>7. CASE TickComes(j) \/ MomentComes(j)
      <4>1. \A k \in Job : disk'[k] # None <=> disk[k] # None
        BY <1>1, <3>7, TimeInv
      <4> QED BY <2>2, <4>1
    <3> QED BY <2>5, <3>1, <3>2, <3>3, <3>4, <3>5, <3>6, <3>7, ServiceCases
  <2>6. CASE Reload \/ Start \/ Crash
    BY <2>2, <2>6 DEF Reload, Start, Crash, yaml
  <2>7. CASE Shutdown
    BY <2>1, <2>2, <2>3, <2>7 DEF Shutdown
  <2> QED BY <1>1, <2>5, <2>6, <2>7 DEF Next
<1>2. ASSUME IInv, ExternalEdit PROVE Keeps
  <2>1. edits' = edits + 1 /\ edits \in Nat
    BY <1>2 DEF ExternalEdit, EditEnabled, EditSchedule, EditDelete, EditAdd, EditBreak,
                EditMend, Edit, IInv, TypeOK
  <2> QED BY <2>1
<1>3. IInv /\ [Next \/ ExternalEdit]_vars => [Keeps]_vars
  BY <1>1, <1>2
<1>4. EditedSpec => [][Keeps]_vars
  <2> HIDE DEF Keeps
  <2> QED BY InvariantHolds, <1>3, PTL DEF EditedSpec
<1> QED BY <1>4 DEF FileKeepsJobs

---------------------------------------------------------------------------
(* One-shots are not repeated.                                             *)

\* What no edit has spoilt: the file is what was last written.
Sound == file # "broken" /\ (file = "absent" => disk = NoJobs)

\* r is at rest for a job j, in a world where the jobs in S have run after
\* their moment: a subagent is never due, nor is a one-shot of S.
Rested(j, r, S) ==
    r # None => /\ j \in Ephemeral => r.sched = "at" /\ r.next = "none"
                /\ j \in S /\ r.sched = "at" => r.next = "none"

Agree(r, q) == r # None /\ q # None => r.sched = q.sched

\* The moments that have passed, and who is taken out of the account.
Timely ==
    /\ \A j \in served : j \in known /\ passed[j]
    /\ \A j \in Ephemeral \cap known : passed[j]
    /\ \A j \in Job : detached[j] # None \/ stale[j] # None => j \in excused \cup retired

Quiet == \A j \in Job \ excused :
    Rested(j, mem[j], served) /\ Rested(j, disk[j], served) /\ Agree(mem[j], disk[j])

AtInv == edits = 0 => Sound /\ Timely /\ Quiet

\* A recalculation keeps the schedule and leaves a moment that has passed alone.
LEMMA RecalcRested ==
    ASSUME NEW j \in Job, NEW r \in JobState, NEW S,
           j \in S \/ j \in Ephemeral => passed[j],
           j \in Ephemeral => r.sched = "at"
    PROVE  Rested(j, Recalc(j, r), S) /\ Recalc(j, r).sched = r.sched
BY DEF Recalc, JobState, Rested

\* A merge with a job of the same schedule keeps schedule and next_run.
LEMMA MergeRested ==
    ASSUME NEW j \in Job, NEW m \in JobState, NEW d \in JobState, NEW busy, NEW S,
           m.sched = d.sched, Rested(j, m, S)
    PROVE  Rested(j, Merge(j, m, d, busy), S) /\ Merge(j, m, d, busy).sched = d.sched
<1> DEFINE r == [d EXCEPT !.next = m.next]
<1>1. Merge(j, m, d, busy) = r
  BY DEF Merge
<1>2. r.sched = d.sched /\ r.next = m.next /\ m # None
  BY JSAssumption DEF JobState
<1> HIDE DEF r
<1> QED BY <1>1, <1>2 DEF Rested

\* A sound file is loaded as it was written.
LEMMA SoundLoaded == ASSUME TypeOK, Sound PROVE Loaded = disk
BY DEF TypeOK, Sound, Loaded

\* A save leaves a sound file, of the jobs it is given or none.
LEMMA SaveSound ==
    ASSUME NEW jobs \in Registries, Save(jobs)
    PROVE  Sound' /\ \A j \in Job : disk'[j] \in {None, jobs[j]}
<1>1. file' = "good" /\ disk' = [j \in Job |-> IF Overwritten(jobs, j) THEN None ELSE jobs[j]]
  BY DEF Save
<1> QED BY <1>1 DEF Sound

\* A flush of jobs at rest that agree with the file leaves the file at rest and in
\* agreement.
LEMMA FlushRested ==
    ASSUME TypeOK, Sound, NEW m \in Registries, NEW busy, Flush(m, busy), NEW S
    PROVE  /\ Sound'
           /\ \A j \in Job :
                /\ Rested(j, m[j], S) /\ Agree(m[j], disk[j])
                /\ (j \in Saved /\ m[j] # None) \/ Rested(j, disk[j], S)
                => Rested(j, disk'[j], S) /\ Agree(m[j], disk'[j])
<1> DEFINE new == [j \in Job |-> IF j \notin Saved \/ m[j] = None THEN Loaded[j]
                                 ELSE IF Loaded[j] = None THEN m[j]
                                 ELSE Merge(j, m[j], Loaded[j], busy)]
<1>0. Loaded = disk /\ disk \in Registries
  BY SoundLoaded DEF TypeOK, Registries
<1>1. CASE \A j \in Saved : m[j] = None
  <2>1. UNCHANGED <<disk, file>>
    BY <1>1 DEF Flush, yaml
  <2> QED BY <1>1, <2>1 DEF Sound
<1>2. CASE ~(\A j \in Saved : m[j] = None)
  <2>1. Save(new)
    BY <1>2 DEF Flush
  <2>2. \A j \in Job : m[j] # None /\ disk[j] # None =>
           Merge(j, m[j], disk[j], busy) \in JobState
    BY <1>0, MergeJob DEF Registries
  <2>3. new \in Registries
    BY <1>0, <2>2 DEF Registries
  <2>4. Sound' /\ \A j \in Job : disk'[j] \in {None, new[j]}
    <3> HIDE DEF new
    <3> QED BY <2>1, <2>3, SaveSound
  <2>5. ASSUME NEW j \in Job, Rested(j, m[j], S), Agree(m[j], disk[j]),
               (j \in Saved /\ m[j] # None) \/ Rested(j, disk[j], S)
        PROVE  Rested(j, new[j], S) /\ Agree(m[j], new[j])
    <3>1. CASE j \notin Saved \/ m[j] = None
      BY <1>0, <2>5, <3>1
    <3>2. CASE j \in Saved /\ m[j] # None /\ disk[j] = None
      BY <1>0, <2>5, <3>2 DEF Agree
    <3>3. CASE j \in Saved /\ m[j] # None /\ disk[j] # None
      <4>1. m[j] \in JobState /\ disk[j] \in JobState /\ m[j].sched = disk[j].sched
        BY <1>0, <2>5, <3>3 DEF Agree, Registries
      <4>2. new[j] = Merge(j, m[j], disk[j], busy)
        BY <1>0, <3>3
      <4> HIDE DEF new
      <4> QED BY <2>5, <4>1, <4>2, MergeRested DEF Agree
    <3> QED BY <3>1, <3>2, <3>3
  <2>6. ASSUME NEW j \in Job, NEW r PROVE Rested(j, None, S) /\ Agree(r, None)
    BY DEF Rested, Agree
  <2> HIDE DEF new
  <2> QED BY <2>4, <2>5, <2>6
<1> QED BY <1>1, <1>2

\* Nothing is due that does not exist.
LEMMA NoneRested == \A j, r, S : Rested(j, None, S) /\ Agree(r, None) /\ Agree(None, r)
BY DEF Rested, Agree

\* A task that is created or begins at most writes the registry as it is.
LEMMA StartRunAt ==
    ASSUME IInv, Sound, Timely, Quiet, NEW j \in Job, CreateTask(j) \/ BeginRun(j)
    PROVE  Sound' /\ Timely' /\ Quiet'
<1>1. UNCHANGED <<mem, passed, known, retired, served, excused>>
  BY DEF CreateTask, BeginRun, history
<1>2. UNCHANGED <<disk, file>> \/ Flush(mem, running')
  BY DEF CreateTask, BeginRun, yaml
<1>3. /\ stale' \in {stale, [stale EXCEPT ![j] = None]}
      /\ detached' \in {detached, [detached EXCEPT ![j] = stale[j]]}
  BY DEF CreateTask, BeginRun
<1>4. Timely'
  BY <1>1, <1>3 DEF Timely, IInv, TypeOK
<1>5. CASE UNCHANGED <<disk, file>>
  BY <1>1, <1>4, <1>5 DEF Sound, Quiet
<1>6. CASE Flush(mem, running')
  <2>1. mem \in Registries
    BY DEF IInv, TypeOK, Registries
  <2>2. /\ Sound'
        /\ \A k \in Job \ excused : Rested(k, disk'[k], served) /\ Agree(mem[k], disk'[k])
    BY <1>6, <2>1, FlushRested DEF IInv, Quiet
  <2> QED BY <1>1, <1>4, <2>2 DEF Quiet
<1> QED BY <1>2, <1>5, <1>6

\* The end of a run: the job is gone, or rescheduled.
LEMMA FinishRunAt ==
    ASSUME IInv, IInv', Sound, Timely, Quiet, NEW j \in Job, NEW success \in BOOLEAN,
           FinishRun(j, success)
    PROVE  Sound' /\ Timely' /\ Quiet'
<1>1. /\ j \in running /\ j \in known
      /\ served' = IF passed[j] THEN served \cup {j} ELSE served
      /\ detached' = [detached EXCEPT ![j] = None]
      /\ UNCHANGED <<passed, known, excused>>
      /\ \/ Retire(j) /\ retired' = retired \cup {j} /\ KeepObjects({j})
         \/ Reschedule(j) /\ retired' = retired /\ stale' = stale
  BY DEF FinishRun, IInv, KnownInv
<1>2. Timely'
  <2>1. \A k \in Job : stale'[k] # None => stale[k] # None \/ k \in retired'
    BY <1>1, ObjectsKept DEF IInv
  <2> QED BY <1>1, <2>1 DEF Timely, IInv, TypeOK
<1>3. \A k \in Job \ {j} : \A r : Rested(k, r, served') <=> Rested(k, r, served)
  BY <1>1 DEF Rested
<1>4. CASE Retire(j) /\ retired' = retired \cup {j}
  <2>1. /\ mem' = [mem EXCEPT ![j] = None]
        /\ \A k \in Job \ {j} : mem'[k] = mem[k]
        /\ mem'[j] = None /\ disk'[j] = None
    BY <1>4 DEF Retire, IInv, TypeOK, NoResurrection
  <2>2. Sound' /\ \A k \in Job : disk'[k] \in {None, disk[k]}
    <3>1. CASE mem[j] # None /\ j \notin Ownerless
      <4>1. Loaded = disk /\ [Loaded EXCEPT ![j] = None] \in Registries
        BY SoundLoaded DEF IInv, TypeOK, Registries
      <4>2. Sound' /\ \A k \in Job : disk'[k] \in {None, [Loaded EXCEPT ![j] = None][k]}
        BY <1>4, <3>1, <4>1, SaveSound DEF Retire
      <4> QED BY <4>1, <4>2 DEF IInv, TypeOK
    <3>2. CASE ~ (mem[j] # None /\ j \notin Ownerless)
      BY <1>4, <3>2 DEF Retire, yaml, Sound
    <3> QED BY <3>1, <3>2
  <2>3. ASSUME NEW k \in Job \ excused
        PROVE  Rested(k, mem'[k], served') /\ Rested(k, disk'[k], served') /\ Agree(mem'[k], disk'[k])
    <3>1. CASE k = j
      BY <2>1, <3>1, NoneRested
    <3>2. CASE k # j
      <4>1. Rested(k, mem[k], served) /\ Rested(k, disk[k], served) /\ Agree(mem[k], disk[k])
        BY DEF Quiet
      <4> QED BY <1>3, <2>1, <2>2, <3>2, <4>1, NoneRested
    <3> QED BY <3>1, <3>2
  <2> QED BY <1>1, <1>2, <2>2, <2>3 DEF Quiet
<1>5. CASE Reschedule(j) /\ retired' = retired /\ stale' = stale
  <2>1. /\ mem' = IF detached[j] = None THEN [mem EXCEPT ![j] = Recalc(j, mem[j])] ELSE mem
        /\ Flush(mem', running) /\ mem' \in Registries
        /\ \A k \in Job \ {j} : mem'[k] = mem[k]
    BY <1>5 DEF Reschedule, IInv, TypeOK, Registries
  <2>2. /\ Sound'
        /\ \A k \in Job :
             /\ Rested(k, mem'[k], served') /\ Agree(mem'[k], disk[k])
             /\ (k \in Saved /\ mem'[k] # None) \/ Rested(k, disk[k], served')
             => Rested(k, disk'[k], served') /\ Agree(mem'[k], disk'[k])
    BY <2>1, FlushRested DEF IInv
  <2>3. ASSUME NEW k \in Job \ excused
        PROVE  Rested(k, mem'[k], served') /\ Rested(k, disk'[k], served') /\ Agree(mem'[k], disk'[k])
    <3>1. CASE k # j
      <4>1. /\ Rested(k, mem'[k], served') /\ Agree(mem'[k], disk[k])
            /\ Rested(k, disk[k], served')
        BY <1>3, <2>1, <3>1 DEF Quiet
      <4> QED BY <2>2, <4>1
    <3>2. CASE k = j /\ detached[j] # None
      <4>1. j \in retired'
        BY <1>5, <3>2 DEF Timely
      <4>2. mem'[j] = None /\ disk'[j] = None
        BY <4>1 DEF IInv, NoResurrection
      <4> QED BY <3>2, <4>2, NoneRested
    <3>3. CASE k = j /\ detached[j] = None
      <4>1. mem[j] \in JobState /\ mem[j] # None
        BY <1>1, <3>3 DEF IInv, RunInv, TypeOK
      <4>2. mem'[j] = Recalc(j, mem[j]) /\ mem'[j] # None
        BY <2>1, <3>3, <4>1, RecalcJob DEF IInv, TypeOK
      <4>3. Rested(j, mem[j], served) /\ Rested(j, disk[j], served) /\ Agree(mem[j], disk[j])
        BY <3>3 DEF Quiet
      <4>4. Rested(j, mem'[j], served') /\ mem'[j].sched = mem[j].sched
        <5>1. j \in served' \/ j \in Ephemeral => passed[j]
          BY <1>1 DEF Timely
        <5>2. j \in Ephemeral => mem[j].sched = "at"
          BY <4>1, <4>3 DEF Rested
        <5> QED BY <4>1, <4>2, <5>1, <5>2, RecalcRested
      <4>5. Agree(mem'[j], disk[j])
        BY <4>1, <4>3, <4>4 DEF Agree
      <4>6. j \in Saved \/ Rested(j, disk[j], served')
        <5>1. CASE j \in Ephemeral
          BY <4>3, <5>1 DEF Rested
        <5>2. CASE j \in Ownerless
          BY <5>2, NoneRested DEF IInv, KnownInv
        <5> QED BY <5>1, <5>2 DEF Saved
      <4> QED BY <2>2, <3>3, <4>2, <4>4, <4>5, <4>6
    <3> QED BY <3>1, <3>2, <3>3
  <2> QED BY <1>1, <1>2, <2>2, <2>3 DEF Quiet
<1> QED BY <1>1, <1>4, <1>5

\* One job j is replaced in the registry, by r, and the registry is flushed.
LEMMA ReplaceAt ==
    ASSUME IInv, IInv', Sound, Quiet, NEW j \in Job, NEW r \in JobState, NEW busy,
           mem' = [mem EXCEPT ![j] = r], Flush(mem', busy),
           served' = served, excused \subseteq excused',
           j \in Job \ excused' => Rested(j, r, served) /\ Agree(r, disk[j])
    PROVE  Sound' /\ Quiet'
<1>1. mem' \in Registries /\ mem'[j] = r /\ \A k \in Job \ {j} : mem'[k] = mem[k]
  BY DEF IInv, TypeOK, Registries
<1>2. /\ Sound'
      /\ \A k \in Job :
           /\ Rested(k, mem'[k], served) /\ Agree(mem'[k], disk[k])
           /\ (k \in Saved /\ mem'[k] # None) \/ Rested(k, disk[k], served)
           => Rested(k, disk'[k], served) /\ Agree(mem'[k], disk'[k])
  BY <1>1, FlushRested DEF IInv
<1>3. ASSUME NEW k \in Job \ excused'
      PROVE  Rested(k, mem'[k], served) /\ Rested(k, disk[k], served) /\ Agree(mem'[k], disk[k])
  BY <1>1 DEF Quiet
<1> QED BY <1>2, <1>3 DEF Quiet

\* New jobs, subagents and changes.
LEMMA ApiAt ==
    ASSUME IInv, IInv', Sound, Timely, Quiet, NEW j \in Job,
           \/ \E enabled \in BOOLEAN, sched \in Schedule : AddJob(j, enabled, sched)
           \/ Spawn(j) \/ EnableJob(j) \/ DisableJob(j) \/ UpdateJob(j)
    PROVE  Sound' /\ Timely' /\ Quiet'
<1>0. j \notin known => j \notin served /\ mem[j] = None /\ disk[j] = None
  BY DEF Timely, IInv, KnownInv
<1>1. ASSUME NEW enabled \in BOOLEAN, NEW sched \in Schedule, AddJob(j, enabled, sched)
      PROVE  Sound' /\ Timely' /\ Quiet'
  <2> DEFINE r == [enabled |-> enabled, sched |-> sched, next |-> "none"]
  <2>1. r \in JobState
    BY DEF JobState, NextRun
  <2>2. /\ mem' = [mem EXCEPT ![j] = Recalc(j, r)] /\ Flush(mem', running)
        /\ j \notin known /\ j \notin Ephemeral /\ known' = known \cup {j}
        /\ UNCHANGED <<passed, stale, detached, retired, served, excused>>
    BY <1>1 DEF AddJob, tasks
  <2> HIDE DEF r
  <2>3. Recalc(j, r) \in JobState
    BY <2>1, RecalcJob
  <2>4. Rested(j, Recalc(j, r), served) /\ Agree(Recalc(j, r), disk[j])
    BY <1>0, <2>2, NoneRested DEF Rested
  <2>5. Sound' /\ Quiet'
    BY <2>2, <2>3, <2>4, ReplaceAt
  <2>6. Timely'
    BY <2>2 DEF Timely
  <2> QED BY <2>5, <2>6
<1>2. CASE Spawn(j)
  <2> DEFINE r == [enabled |-> TRUE, sched |-> "at", next |-> "none"]
  <2>1. r \in JobState /\ r.sched = "at" /\ r.next = "none"
    BY DEF JobState, NextRun, Schedule
  <2>2. /\ mem' = [mem EXCEPT ![j] = r] /\ Flush(mem', running)
        /\ j \notin known /\ known' = known \cup {j} /\ passed' = [passed EXCEPT ![j] = TRUE]
        /\ UNCHANGED <<stale, detached, retired, served, excused>>
    BY <1>2 DEF Spawn
  <2> HIDE DEF r
  <2>3. Rested(j, r, served) /\ Agree(r, disk[j])
    BY <1>0, <2>1, <2>2, NoneRested DEF Rested
  <2>4. Sound' /\ Quiet'
    BY <2>1, <2>2, <2>3, ReplaceAt
  <2>5. Timely'
    BY <2>2 DEF Timely, IInv, TypeOK
  <2> QED BY <2>4, <2>5
<1>3. ASSUME NEW enabled \in BOOLEAN, NEW sched \in Schedule, Change(j, enabled, sched)
      PROVE  Sound' /\ Timely' /\ Quiet'
  <2> DEFINE r == [mem[j] EXCEPT !.enabled = enabled, !.sched = sched]
  <2>1. mem[j] \in JobState /\ mem[j] # None
    BY <1>3 DEF Change, IInv, TypeOK
  <2>2. r \in JobState /\ r.sched = sched
    BY <2>1 DEF JobState
  <2>3. /\ mem' = [mem EXCEPT ![j] = Recalc(j, r)] /\ Flush(mem', running)
        /\ excused' = IF sched = mem[j].sched THEN excused ELSE excused \cup {j}
        /\ UNCHANGED <<passed, stale, detached, known, retired, served>>
    BY <1>3 DEF Change, tasks
  <2> HIDE DEF r
  <2>4. Recalc(j, r) \in JobState
    BY <2>2, RecalcJob
  <2>5. ASSUME j \notin excused' PROVE Rested(j, Recalc(j, r), served) /\ Agree(Recalc(j, r), disk[j])
    <3>1. j \notin excused /\ r.sched = mem[j].sched
      BY <2>2, <2>3, <2>5
    <3>2. Rested(j, mem[j], served) /\ Agree(mem[j], disk[j])
      BY <3>1 DEF Quiet
    <3>3. /\ j \in served \/ j \in Ephemeral => passed[j]
          /\ j \in Ephemeral => r.sched = "at"
      BY <2>1, <3>1, <3>2 DEF Timely, Rested, IInv, KnownInv
    <3>4. Rested(j, Recalc(j, r), served) /\ Recalc(j, r).sched = r.sched
      BY <2>2, <3>3, RecalcRested
    <3> QED BY <2>1, <3>1, <3>2, <3>4 DEF Agree
  <2>6. Sound' /\ Quiet'
    BY <2>3, <2>4, <2>5, ReplaceAt
  <2>7. Timely'
    BY <2>3 DEF Timely
  <2> QED BY <2>6, <2>7
<1>4. CASE EnableJob(j) \/ DisableJob(j) \/ UpdateJob(j)
  <2>1. mem[j] # None
    BY <1>4 DEF EnableJob, DisableJob, UpdateJob, Change
  <2>2. mem[j].sched \in Schedule
    BY <2>1 DEF IInv, TypeOK, JobState
  <2>3. PICK enabled \in BOOLEAN, sched \in Schedule : Change(j, enabled, sched)
    BY <1>4, <2>2 DEF EnableJob, DisableJob, UpdateJob
  <2> QED BY <1>3, <2>3
<1> QED BY <1>1, <1>2, <1>4

\* A deletion writes the others as they are.
LEMMA RemoveAt ==
    ASSUME IInv, IInv', Sound, Timely, Quiet, NEW j \in Job, RemoveJob(j)
    PROVE  Sound' /\ Timely' /\ Quiet'
<1> DEFINE new == [k \in Job |-> IF k = j THEN None
                                 ELSE IF mem[k] # None /\ k \notin Ownerless THEN mem[k]
                                 ELSE Loaded[k]]
<1>1. /\ mem' = [mem EXCEPT ![j] = None] /\ retired' = retired \cup {j}
      /\ detached' = IF j \in running /\ detached[j] = None
                     THEN [detached EXCEPT ![j] = mem[j]] ELSE detached
      /\ UNCHANGED <<passed, known, served, excused>>
  BY DEF RemoveJob
<1>2. /\ mem'[j] = None /\ disk'[j] = None
      /\ \A k \in Job \ {j} : mem'[k] = mem[k]
  BY <1>1 DEF IInv, TypeOK, NoResurrection
<1>3. Sound' /\ \A k \in Job \ {j} : disk'[k] \in {None, mem[k], disk[k]}
  <2>1. CASE j \in Ownerless
    BY <2>1 DEF RemoveJob, yaml, Sound
  <2>2. CASE j \notin Ownerless
    <3>1. Loaded = disk /\ Save(new)
      BY <2>2, SoundLoaded DEF RemoveJob, IInv
    <3>2. new \in Registries
      BY <3>1 DEF IInv, TypeOK, Registries
    <3>3. \A k \in Job \ {j} : new[k] \in {mem[k], disk[k]}
      BY <3>1
    <3> HIDE DEF new
    <3>4. Sound' /\ \A k \in Job : disk'[k] \in {None, new[k]}
      BY <3>1, <3>2, SaveSound
    <3> QED BY <3>3, <3>4
  <2> QED BY <2>1, <2>2
<1>4. Timely'
  <2>1. KeepObjects({j})
    BY DEF RemoveJob
  <2>2. \A k \in Job : stale'[k] # None => stale[k] # None \/ k \in retired'
    BY <1>1, <2>1, ObjectsKept DEF IInv
  <2> QED BY <1>1, <2>2 DEF Timely, IInv, TypeOK
<1>5. ASSUME NEW k \in Job \ excused
      PROVE  Rested(k, mem'[k], served) /\ Rested(k, disk'[k], served) /\ Agree(mem'[k], disk'[k])
  <2>1. Rested(k, mem[k], served) /\ Rested(k, disk[k], served) /\ Agree(mem[k], disk[k])
    BY DEF Quiet
  <2>2. Agree(mem[k], mem[k])
    BY DEF Agree
  <2> QED BY <1>2, <1>3, <2>1, <2>2, NoneRested
<1> QED BY <1>1, <1>3, <1>4, <1>5 DEF Quiet

\* Time makes due what is not at rest.
LEMMA TimeAt ==
    ASSUME IInv, Sound, Timely, Quiet, NEW j \in Job, TickComes(j) \/ MomentComes(j)
    PROVE  Sound' /\ Timely' /\ Quiet'
<1>1. PICK time : /\ mem' = [mem EXCEPT ![j] = Come(@, time)]
                  /\ disk' = [disk EXCEPT ![j] = Come(@, time)]
                  /\ (TickComes(j) /\ time = "tick") \/ MomentComes(j)
  BY DEF TickComes, MomentComes
<1>2. /\ mem'[j] = Come(mem[j], time) /\ disk'[j] = Come(disk[j], time)
      /\ \A k \in Job \ {j} : mem'[k] = mem[k] /\ disk'[k] = disk[k]
  BY <1>1 DEF IInv, TypeOK
<1>3. /\ UNCHANGED <<file, stale, detached, known, retired, served, excused>>
      /\ \A k \in Job : passed[k] => passed'[k]
  BY DEF TickComes, MomentComes, tasks, history, IInv, TypeOK
<1>4. ASSUME NEW r \in JobState \cup {None}
      PROVE  /\ Come(r, time) = None <=> r = None
             /\ r # None => Come(r, time).sched = r.sched
  <2>1. r # None => [r EXCEPT !.next = "due"] \in JobState /\ [r EXCEPT !.next = "due"].sched = r.sched
    BY <1>4 DEF JobState, NextRun
  <2> QED BY <2>1, JSAssumption DEF Come
<1>5. mem[j] \in JobState \cup {None} /\ disk[j] \in JobState \cup {None}
  BY DEF IInv, TypeOK
<1>6. Sound'
  BY <1>1, <1>3, <1>4, <1>5 DEF Sound, Come, NoJobs
<1>7. Timely'
  <2>1. known \subseteq Job /\ served \subseteq Job
    BY DEF IInv, TypeOK, Timely
  <2>2. \A k \in served : k \in known /\ passed'[k]
    BY <1>3, <2>1 DEF Timely
  <2>3. \A k \in Ephemeral \cap known : passed'[k]
    BY <1>3, <2>1 DEF Timely
  <2> QED BY <1>3, <2>2, <2>3 DEF Timely
<1>8. ASSUME j \notin excused
      PROVE  Rested(j, mem'[j], served) /\ Rested(j, disk'[j], served) /\ Agree(mem'[j], disk'[j])
  <2>1. Rested(j, mem[j], served) /\ Rested(j, disk[j], served) /\ Agree(mem[j], disk[j])
    BY <1>8 DEF Quiet
  <2>2. Agree(mem'[j], disk'[j])
    BY <1>2, <1>4, <1>5, <2>1 DEF Agree
  <2>3. CASE TickComes(j)
    <3>1. mem[j] # None /\ mem[j].next = "tick"
      BY <2>3 DEF TickComes
    <3>2. j \notin Ephemeral /\ (j \in served => mem[j].sched # "at")
      BY <2>1, <3>1 DEF Rested
    <3>3. j \in served => /\ mem'[j] # None => mem'[j].sched # "at"
                          /\ disk'[j] # None => disk'[j].sched # "at"
      BY <1>2, <1>4, <1>5, <2>1, <3>1, <3>2 DEF Agree
    <3> QED BY <2>2, <3>2, <3>3 DEF Rested
  <2>4. CASE MomentComes(j)
    <3>1. j \notin served /\ j \notin Ephemeral
      BY <2>4 DEF MomentComes, Timely
    <3> QED BY <2>2, <3>1 DEF Rested
  <2> QED BY <2>3, <2>4
<1> QED BY <1>2, <1>3, <1>6, <1>7, <1>8 DEF Quiet

\* A reload or a start takes from the file what is at rest there.
LEMMA LoadAt ==
    ASSUME IInv, IInv', Sound, Timely, Quiet, Reload \/ Start
    PROVE  Sound' /\ Timely' /\ Quiet'
<1>1. Loaded = disk
  BY SoundLoaded DEF IInv
<1>2. UNCHANGED <<disk, file, passed, known, retired, served>> /\ excused \subseteq excused'
  BY DEF Reload, Start, yaml, history
<1>3. \A j \in Job : detached'[j] # None \/ stale'[j] # None => j \in excused' \cup retired
  <2>1. CASE Reload
    <3>1. /\ KeepObjects({j \in Job : Loaded[j] # None})
          /\ excused' = excused \cup {j \in running : detached'[j] # None}
                                \cup {j \in starting : stale'[j] # None}
          /\ \A j \in Job \ running : detached'[j] = detached[j]
      BY <2>1 DEF Reload
    <3>2. \A j \in Job : stale'[j] # None => stale[j] # None \/ j \in starting
      BY <3>1, ObjectsKept DEF IInv
    <3> QED BY <3>1, <3>2 DEF Timely
  <2>2. CASE Start
    BY <2>2 DEF Start, Timely, tasks, history
  <2> QED BY <2>1, <2>2
<1>4. ASSUME NEW j \in Job, j \notin excused
      PROVE  Rested(j, mem'[j], served) /\ Agree(mem'[j], disk[j])
  <2>1. /\ Rested(j, mem[j], served) /\ Rested(j, disk[j], served) /\ Agree(mem[j], disk[j])
        /\ mem[j] \in JobState \cup {None} /\ disk[j] \in JobState \cup {None}
    BY <1>4 DEF Quiet, IInv, TypeOK
  <2>2. ASSUME disk[j] # None
        PROVE  /\ Rested(j, Recalc(j, disk[j]), served) /\ Recalc(j, disk[j]).sched = disk[j].sched
    <3>1. /\ j \in served \/ j \in Ephemeral => passed[j]
          /\ j \in Ephemeral => disk[j].sched = "at"
      BY <2>1, <2>2 DEF Timely, Rested, IInv, KnownInv
    <3> QED BY <2>1, <2>2, <3>1, RecalcRested
  <2>3. CASE disk[j] # None /\ mem[j] # None /\ Reload
    <3>1. mem'[j] = Merge(j, mem[j], disk[j], running)
      BY <1>1, <2>3 DEF Reload, Reloaded
    <3>2. mem[j].sched = disk[j].sched
      BY <2>1, <2>3 DEF Agree
    <3> QED BY <2>1, <2>3, <3>1, <3>2, MergeRested DEF Agree
  <2>4. CASE disk[j] # None /\ (mem[j] = None \/ Start)
    <3>1. mem'[j] \in {disk[j], Recalc(j, disk[j])}
      BY <1>1, <2>4 DEF Reload, Reloaded, Start
    <3> QED BY <2>1, <2>2, <2>4, <3>1 DEF Agree
  <2>5. CASE disk[j] = None
    <3>1. \/ mem'[j] \in {mem[j], None}
          \/ mem[j] # None /\ mem'[j] = [mem[j] EXCEPT !.enabled = FALSE, !.next = "none"]
      BY <1>1, <2>5 DEF Reload, Reloaded, Start
    <3>2. mem[j] # None => Rested(j, [mem[j] EXCEPT !.enabled = FALSE, !.next = "none"], served)
      BY <2>1 DEF Rested, JobState
    <3> QED BY <2>1, <2>5, <3>1, <3>2, NoneRested
  <2> QED BY <2>3, <2>4, <2>5
<1>5. Quiet'
  BY <1>2, <1>4 DEF Quiet
<1> QED BY <1>2, <1>3, <1>5 DEF Sound, Timely

\* A crash or a shutdown leaves the file at rest.
LEMMA DownAt ==
    ASSUME IInv, Sound, Timely, Quiet, Crash \/ Shutdown
    PROVE  Sound' /\ Timely' /\ Quiet'
<1>1. /\ mem' = NoJobs /\ detached' = NoJobs /\ stale' = NoJobs
      /\ UNCHANGED <<passed, known, retired, served, excused>>
  BY DEF Crash, Shutdown, Down, history
<1>2. Sound' /\ \A j \in Job \ excused : Rested(j, disk'[j], served)
  <2>1. CASE UNCHANGED <<disk, file>>
    BY <2>1 DEF Sound, Quiet
  <2>2. CASE Flush(mem, running)
    <3>1. mem \in Registries
      BY DEF IInv, TypeOK, Registries
    <3> QED BY <2>2, <3>1, FlushRested DEF IInv, Quiet
  <2> QED BY <2>1, <2>2 DEF Crash, Shutdown
<1>3. \A j \in Job : mem'[j] = None /\ detached'[j] = None /\ stale'[j] = None
  BY <1>1 DEF NoJobs
<1> QED BY <1>1, <1>2, <1>3, NoneRested DEF Timely, Quiet

\* Every step keeps a one-shot that has run from being due.
LEMMA AtStep == IInv /\ AtInv /\ [Next \/ ExternalEdit]_vars => AtInv'
<1> SUFFICES ASSUME IInv, AtInv, [Next \/ ExternalEdit]_vars, edits' = 0
             PROVE  Sound' /\ Timely' /\ Quiet'
  BY DEF AtInv
<1>1. IInv'
  BY ServiceInv, EditInv
<1>2. ~ ExternalEdit
  BY DEF ExternalEdit, EditEnabled, EditSchedule, EditDelete, EditAdd, EditBreak, EditMend,
         Edit, IInv, TypeOK
<1>3. edits = 0
  <2>1. [Next]_vars => edits' = edits
    BY DEF Next, Service, Fire, RunNow, CreateTask, BeginRun, FinishRun, AddJob, Spawn, EnableJob, DisableJob,
           UpdateJob, Change, RemoveJob, TickComes, MomentComes, Reload, Start, Crash, Shutdown,
           Down, vars, counters
  <2> QED BY <1>2, <2>1
<1>4. Sound /\ Timely /\ Quiet
  BY <1>3 DEF AtInv
<1>5. ASSUME NEW j \in Job, Service(j) PROVE Sound' /\ Timely' /\ Quiet'
  <2>1. CASE Fire(j) \/ RunNow(j) \/ BeginRun(j)
    BY <1>4, <2>1, StartRunAt DEF Fire, RunNow
  <2>2. CASE \E success \in BOOLEAN : FinishRun(j, success)
    BY <1>1, <1>4, <2>2, FinishRunAt
  <2>3. CASE \/ \E enabled \in BOOLEAN, sched \in Schedule : AddJob(j, enabled, sched)
             \/ Spawn(j) \/ EnableJob(j) \/ DisableJob(j) \/ UpdateJob(j)
    BY <1>1, <1>4, <2>3, ApiAt
  <2>4. CASE RemoveJob(j)
    BY <1>1, <1>4, <2>4, RemoveAt
  <2>5. CASE TickComes(j) \/ MomentComes(j)
    BY <1>4, <2>5, TimeAt
  <2> QED BY <1>5, <2>1, <2>2, <2>3, <2>4, <2>5, ServiceCases
<1>6. CASE UNCHANGED vars
  BY <1>4, <1>6 DEF Sound, Timely, Quiet, vars, yaml, tasks, history
<1> QED BY <1>1, <1>2, <1>4, <1>5, <1>6, LoadAt, DownAt DEF Next

\* As long as the file is not edited, the polling loop does not start a job with an
\* absolute moment again that has run after it, unless a reload took the object from
\* its run or task, or an update gave it another schedule.
THEOREM AtJobsRest == EditedSpec => AtJobNotRepeated
<1> DEFINE Once == \A j \in Job :
      Fire(j) /\ mem[j].sched = "at" /\ j \notin excused /\ edits = 0 => j \notin served
<1>1. Init => AtInv
  BY DEF Init, AtInv, Sound, Timely, Quiet, Rested, Agree, NoJobs
<1>2. AtInv => Once
  BY DEF AtInv, Quiet, Rested, Fire
<1>3. EditedSpec => []AtInv
  BY InvariantHolds, AtStep, <1>1, PTL DEF EditedSpec
<1>4. EditedSpec => [][Once]_vars
  <2> HIDE DEF Once
  <2>1. AtInv => [Once]_vars
    BY <1>2
  <2> QED BY <1>3, <2>1, PTL
<1> QED BY <1>4 DEF AtJobNotRepeated

---------------------------------------------------------------------------
(* Recurring jobs keep a next_run.  A reload takes enabled and schedule     *)
(* from the file and next_run from memory, so it is what the two agree      *)
(* about at a reload that matters.                                          *)

\* r waits for its next time if it is enabled and recurs.
Scheduled(r) == r # None /\ r.enabled /\ r.sched = "every" => r.next \in {"tick", "due"}

\* Memory and file give one job the same configuration.
Alike(m, d) == m # None /\ d # None => m.enabled = d.enabled /\ m.sched = d.sched

\* At a reload, and always when nobody changes jobs, memory and file are alike.
SchedInv ==
    /\ \A j \in Job : Scheduled(mem[j])
    /\ up /\ (dirty \/ MaxChanges = 0) => \A j \in Job : Alike(mem[j], Loaded[j])

\* Nobody removes itself, or nobody changes a job through the API.
Tame == OneShot = {} \/ MaxChanges = 0

LEMMA RecalcScheduled ==
    ASSUME NEW j \in Job, NEW r \in JobState
    PROVE  /\ Recalc(j, r) \in JobState /\ Recalc(j, r) # None
           /\ Recalc(j, r).enabled = r.enabled /\ Recalc(j, r).sched = r.sched
           /\ Scheduled(Recalc(j, r))
<1>1. /\ Recalc(j, r) \in JobState /\ Recalc(j, r) # None
  BY RecalcJob
<1>2. /\ Recalc(j, r).enabled = r.enabled /\ Recalc(j, r).sched = r.sched
      /\ r.enabled /\ r.sched = "every" => Recalc(j, r).next = "tick"
  BY DEF Recalc, JobState
<1> QED BY <1>1, <1>2 DEF Scheduled

\* Of two jobs that are alike the merge is like both, and scheduled like the first.
LEMMA MergeAlike ==
    ASSUME NEW j \in Job, NEW m \in JobState, NEW d \in JobState, NEW busy, Alike(m, d)
    PROVE  /\ Merge(j, m, d, busy) \in JobState /\ Merge(j, m, d, busy) # None
           /\ Alike(m, Merge(j, m, d, busy)) /\ Alike(Merge(j, m, d, busy), d)
           /\ Scheduled(m) => Scheduled(Merge(j, m, d, busy))
<1>1. m # None /\ d # None
  BY JSAssumption
<1>2. Merge(j, m, d, busy) = [d EXCEPT !.next = m.next]
  BY <1>1 DEF Merge, Alike
<1>3. Merge(j, m, d, busy) \in JobState /\ Merge(j, m, d, busy) # None
  BY MergeJob
<1> QED BY <1>1, <1>2, <1>3 DEF Alike, Scheduled, JobState

\* A flush of jobs like the file's leaves them so.
LEMMA FlushAlike ==
    ASSUME TypeOK, NEW m \in Registries, NEW busy, Flush(m, busy),
           \A j \in Job : Alike(m[j], Loaded[j])
    PROVE  \A j \in Job : Alike(m[j], Loaded'[j])
<1> DEFINE new == [j \in Job |-> IF j \notin Saved \/ m[j] = None THEN Loaded[j]
                                 ELSE IF Loaded[j] = None THEN m[j]
                                 ELSE Merge(j, m[j], Loaded[j], busy)]
<1>1. CASE \A j \in Saved : m[j] = None
  BY <1>1 DEF Flush, yaml, Loaded
<1>2. CASE ~(\A j \in Saved : m[j] = None)
  <2>1. Save(new)
    BY <1>2 DEF Flush
  <2>2. Loaded \in Registries
    BY LoadedJobs
  <2>3. ASSUME NEW j \in Job PROVE new[j] \in JobState \cup {None} /\ Alike(m[j], new[j])
    <3>1. CASE j \notin Saved \/ m[j] = None
      BY <2>2, <3>1 DEF Registries
    <3>2. CASE j \in Saved /\ m[j] # None /\ Loaded[j] = None
      BY <3>2 DEF Alike, Registries
    <3>3. CASE j \in Saved /\ m[j] # None /\ Loaded[j] # None
      <4>1. m[j] \in JobState /\ Loaded[j] \in JobState
        BY <2>2, <3>3 DEF Registries
      <4>2. new[j] = Merge(j, m[j], Loaded[j], busy)
        BY <3>3
      <4> HIDE DEF new
      <4> QED BY <4>1, <4>2, MergeAlike
    <3> QED BY <3>1, <3>2, <3>3
  <2>4. new \in Registries
    BY <2>3 DEF Registries
  <2> HIDE DEF new
  <2>5. file' = "good" /\ \A j \in Job : disk'[j] \in {None, new[j]}
    BY <2>1, <2>4, SaveWrites, SaveSound
  <2> QED BY <2>3, <2>5 DEF Alike, Loaded
<1> QED BY <1>1, <1>2

\* A step that flushes the new registry.
LEMMA FlushSched ==
    ASSUME IInv, IInv', Tame, up, up', NEW busy, Flush(mem', busy),
           \A j \in Job : Scheduled(mem'[j]),
           MaxChanges = 0 => \A j \in Job : Alike(mem'[j], Loaded[j])
    PROVE  SchedInv'
<1>1. TypeOK /\ mem' \in Registries
  BY DEF IInv, TypeOK, Registries
<1>2. CASE MaxChanges = 0
  <2>1. \A j \in Job : Alike(mem'[j], Loaded'[j])
    BY <1>1, <1>2, FlushAlike
  <2> QED BY <2>1 DEF SchedInv
<1>3. CASE MaxChanges # 0
  <2>1. SUFFICES ASSUME dirty', NEW j \in Job PROVE Alike(mem'[j], Loaded'[j])
    BY <1>3 DEF SchedInv
  <2>2. \A k \in Saved : mem'[k] = None
    BY <2>1 DEF Flush
  <2>3. j \in Saved \/ j \in Ownerless
    BY <1>3, JSAssumption DEF Tame, Saved
  <2>4. j \in Ownerless => Loaded'[j] = None
    BY DEF IInv, KnownInv, Loaded, NoJobs
  <2> QED BY <2>2, <2>3, <2>4 DEF Alike
<1> QED BY <1>2, <1>3

\* Runs.
LEMMA RunSched ==
    ASSUME IInv, IInv', Tame, SchedInv, NEW j \in Job,
           \/ Fire(j) \/ RunNow(j) \/ BeginRun(j)
           \/ \E success \in BOOLEAN : FinishRun(j, success)
    PROVE  SchedInv'
<1>1. CASE Fire(j) \/ RunNow(j) \/ BeginRun(j)
  <2>1. up /\ up' /\ mem' = mem /\ (UNCHANGED yaml \/ Flush(mem', running'))
    BY <1>1 DEF Fire, RunNow, CreateTask, BeginRun
  <2>2. CASE UNCHANGED yaml
    BY <2>1, <2>2 DEF SchedInv, yaml, Loaded
  <2>3. CASE Flush(mem', running')
    BY <2>1, <2>3, FlushSched DEF SchedInv
  <2> QED BY <2>1, <2>2, <2>3
<1>2. ASSUME NEW success \in BOOLEAN, FinishRun(j, success) PROVE SchedInv'
  <2>1. up /\ up' /\ j \in running
    BY <1>2 DEF FinishRun
  <2>2. CASE Retire(j) /\ success /\ j \in OneShot
    <3>1. MaxChanges = 0 /\ mem' = [mem EXCEPT ![j] = None]
      BY <2>2 DEF Tame, Retire
    <3>2. \A k \in Job : mem'[k] \in {None, mem[k]}
      BY <3>1 DEF IInv, TypeOK
    <3>3. \A k \in Job : Loaded'[k] \in {None, Loaded[k]}
      <4>1. CASE mem[j] # None /\ j \notin Ownerless
        <5>1. [Loaded EXCEPT ![j] = None] \in Registries /\ Loaded \in Registries
          BY LoadedJobs DEF IInv, Registries
        <5>2. Save([Loaded EXCEPT ![j] = None])
          BY <2>2, <4>1 DEF Retire
        <5>3. file' = "good" /\ \A k \in Job : disk'[k] \in {None, [Loaded EXCEPT ![j] = None][k]}
          BY <5>1, <5>2, SaveWrites, SaveSound
        <5> QED BY <5>1, <5>3 DEF Loaded, Registries
      <4>2. CASE ~(mem[j] # None /\ j \notin Ownerless)
        BY <2>2, <4>2 DEF Retire, yaml, Loaded
      <4> QED BY <4>1, <4>2
    <3> QED BY <2>1, <3>1, <3>2, <3>3 DEF SchedInv, Alike, Scheduled
  <2>3. CASE Reschedule(j)
    <3>1. /\ mem' = IF detached[j] = None THEN [mem EXCEPT ![j] = Recalc(j, mem[j])] ELSE mem
          /\ Flush(mem', running)
      BY <2>3 DEF Reschedule
    <3>2. CASE detached[j] = None
      <4>1. mem[j] \in JobState
        BY <2>1, <3>2 DEF IInv, RunInv, TypeOK
      <4>2. /\ Scheduled(mem'[j]) /\ mem'[j].enabled = mem[j].enabled /\ mem'[j].sched = mem[j].sched
            /\ \A k \in Job \ {j} : mem'[k] = mem[k]
        BY <3>1, <3>2, <4>1, RecalcScheduled DEF IInv, TypeOK
      <4>3. \A k \in Job : Scheduled(mem'[k])
        BY <4>2 DEF SchedInv
      <4>4. MaxChanges = 0 => \A k \in Job : Alike(mem'[k], Loaded[k])
        BY <2>1, <4>1, <4>2, JSAssumption DEF SchedInv, Alike
      <4> QED BY <2>1, <3>1, <4>3, <4>4, FlushSched
    <3>3. CASE detached[j] # None
      BY <2>1, <3>1, <3>3, FlushSched DEF SchedInv
    <3> QED BY <3>2, <3>3
  <2> QED BY <1>2, <2>2, <2>3 DEF FinishRun
<1> QED BY <1>1, <1>2

\* New and changed jobs.
LEMMA ApiSched ==
    ASSUME IInv, IInv', Tame, SchedInv, NEW j \in Job,
           \/ \E enabled \in BOOLEAN, sched \in Schedule : AddJob(j, enabled, sched)
           \/ Spawn(j)
           \/ EnableJob(j) \/ DisableJob(j) \/ UpdateJob(j)
    PROVE  SchedInv'
<1>1. ASSUME up, up', j \notin known \/ MaxChanges # 0, NEW r \in JobState, Scheduled(r),
             mem' = [mem EXCEPT ![j] = r], NEW busy, Flush(mem', busy)
      PROVE  SchedInv'
  <2>1. mem'[j] = r /\ \A k \in Job \ {j} : mem'[k] = mem[k]
    BY <1>1 DEF IInv, TypeOK
  <2>2. \A k \in Job : Scheduled(mem'[k])
    BY <1>1, <2>1 DEF SchedInv
  <2>3. j \notin known => Loaded[j] = None
    BY DEF IInv, KnownInv, Loaded, NoJobs
  <2>4. MaxChanges = 0 => \A k \in Job : Alike(mem'[k], Loaded[k])
    BY <1>1, <2>1, <2>3 DEF SchedInv, Alike
  <2> QED BY <1>1, <2>2, <2>4, FlushSched
<1>2. ASSUME NEW enabled \in BOOLEAN, NEW sched \in Schedule, AddJob(j, enabled, sched) PROVE SchedInv'
  <2> DEFINE r == [enabled |-> enabled, sched |-> sched, next |-> "none"]
  <2>1. r \in JobState
    BY DEF JobState, NextRun
  <2>2. mem' = [mem EXCEPT ![j] = Recalc(j, r)] /\ up /\ up' /\ j \notin known /\ Flush(mem', running)
    BY <1>2 DEF AddJob
  <2> HIDE DEF r
  <2> QED BY <1>1, <2>1, <2>2, RecalcScheduled
<1>3. CASE Spawn(j)
  <2> DEFINE r == [enabled |-> TRUE, sched |-> "at", next |-> "none"]
  <2>1. r \in JobState /\ Scheduled(r)
    BY DEF JobState, Schedule, NextRun, Scheduled
  <2>2. mem' = [mem EXCEPT ![j] = r] /\ up /\ up' /\ j \notin known /\ Flush(mem', running)
    BY <1>3 DEF Spawn
  <2> HIDE DEF r
  <2> QED BY <1>1, <2>1, <2>2
<1>4. ASSUME NEW enabled \in BOOLEAN, NEW sched \in Schedule, Change(j, enabled, sched) PROVE SchedInv'
  <2> DEFINE r == [mem[j] EXCEPT !.enabled = enabled, !.sched = sched]
  <2>1. mem[j] \in JobState /\ up /\ up' /\ MaxChanges # 0
    BY <1>4, JSAssumption DEF Change, IInv, TypeOK
  <2>2. r \in JobState
    BY <2>1 DEF JobState
  <2>3. mem' = [mem EXCEPT ![j] = Recalc(j, r)] /\ Flush(mem', running)
    BY <1>4 DEF Change
  <2> HIDE DEF r
  <2> QED BY <1>1, <2>1, <2>2, <2>3, RecalcScheduled
<1>5. CASE EnableJob(j) \/ DisableJob(j)
  <2>1. mem[j] \in JobState
    BY <1>5 DEF EnableJob, DisableJob, Change, IInv, TypeOK
  <2>2. mem[j].sched \in Schedule
    BY <2>1 DEF JobState
  <2> QED BY <1>4, <1>5, <2>2 DEF EnableJob, DisableJob
<1>6. CASE UpdateJob(j)
  BY <1>4, <1>6 DEF UpdateJob
<1> QED BY <1>2, <1>3, <1>5, <1>6

\* A removal writes the other jobs as they are in memory.
LEMMA RemoveSched ==
    ASSUME IInv, IInv', Tame, SchedInv, NEW j \in Job, RemoveJob(j)
    PROVE  SchedInv'
<1>1. up /\ up' /\ mem' = [mem EXCEPT ![j] = None]
  BY DEF RemoveJob
<1>2. mem'[j] = None /\ \A k \in Job \ {j} : mem'[k] = mem[k]
  BY <1>1 DEF IInv, TypeOK
<1>3. \A k \in Job : Scheduled(mem'[k])
  BY <1>2 DEF SchedInv, Scheduled
<1>4. CASE j \in Ownerless
  <2>1. dirty' = dirty /\ Loaded' = Loaded
    BY <1>4 DEF RemoveJob, yaml, Loaded
  <2> QED BY <1>1, <1>2, <1>3, <2>1 DEF SchedInv, Alike
<1>5. CASE j \notin Ownerless
  <2> DEFINE jobs == [k \in Job |-> IF k = j THEN None
                                    ELSE IF mem[k] # None /\ k \notin Ownerless THEN mem[k]
                                    ELSE Loaded[k]]
  <2>1. Save(jobs)
    BY <1>5 DEF RemoveJob
  <2>2. jobs \in Registries
    BY LoadedJobs DEF IInv, TypeOK, Registries
  <2>3. \A k \in Job : jobs[k] = IF k = j THEN None
                                 ELSE IF mem[k] # None /\ k \notin Ownerless THEN mem[k]
                                 ELSE Loaded[k]
    OBVIOUS
  <2> HIDE DEF jobs
  <2>4. file' = "good" /\ \A k \in Job : disk'[k] \in {None, jobs[k]}
    BY <2>1, <2>2, SaveWrites, SaveSound
  <2>5. \A k \in Ownerless : Loaded[k] = None
    BY JSAssumption DEF IInv, KnownInv, Loaded, NoJobs
  <2>6. \A k \in Job : Alike(mem'[k], Loaded'[k])
    BY <1>2, <2>3, <2>4, <2>5 DEF Alike, Loaded
  <2> QED BY <1>3, <2>6 DEF SchedInv
<1> QED BY <1>4, <1>5

\* The passing of time, reloads and restarts.
LEMMA WorldSched ==
    ASSUME IInv, IInv', Tame, SchedInv,
           Reload \/ Start \/ Crash \/ Shutdown \/ (\E j \in Job : TickComes(j) \/ MomentComes(j))
    PROVE  SchedInv'
<1>0. /\ mem \in Registries /\ disk \in Registries /\ Loaded \in Registries
      /\ \A j \in Job : Loaded[j] # None => Loaded[j] = disk[j]
  BY LoadedJobs DEF IInv, TypeOK, Registries
<1>1. CASE Reload
  <2>1. up /\ dirty /\ mem' = Reloaded /\ Loaded' = Loaded
    BY <1>1 DEF Reload, Loaded
  <2>2. ASSUME NEW j \in Job PROVE Scheduled(mem'[j]) /\ Alike(mem'[j], Loaded[j])
    <3>1. Alike(mem[j], Loaded[j]) /\ Scheduled(mem[j])
      BY <2>1 DEF SchedInv
    <3>2. CASE Loaded[j] # None /\ mem[j] # None
      <4>1. mem'[j] = Merge(j, mem[j], Loaded[j], running)
        BY <2>1, <3>2 DEF Reloaded
      <4>2. mem[j] \in JobState /\ Loaded[j] \in JobState
        BY <1>0, <3>2 DEF Registries
      <4> QED BY <3>1, <4>1, <4>2, MergeAlike
    <3>3. CASE Loaded[j] # None /\ mem[j] = None
      <4>1. mem'[j] = IF Loaded[j].enabled THEN Recalc(j, Loaded[j]) ELSE Loaded[j]
        BY <2>1, <3>3 DEF Reloaded
      <4>2. Loaded[j] \in JobState
        BY <1>0, <3>3 DEF Registries
      <4> QED BY <4>1, <4>2, RecalcScheduled DEF Scheduled, Alike
    <3>4. CASE Loaded[j] = None
      <4>1. mem'[j] = IF mem[j] # None /\ j \in Saved /\ mem[j].enabled
                      THEN [mem[j] EXCEPT !.enabled = FALSE, !.next = "none"] ELSE mem[j]
        BY <2>1, <3>4 DEF Reloaded
      <4>2. mem[j] # None => mem[j] \in JobState
        BY <1>0 DEF Registries
      <4>3. CASE mem[j] # None /\ j \in Saved /\ mem[j].enabled
        <5>1. mem'[j].enabled = FALSE
          BY <4>1, <4>2, <4>3 DEF JobState
        <5> QED BY <3>4, <5>1 DEF Scheduled, Alike
      <4>4. CASE ~(mem[j] # None /\ j \in Saved /\ mem[j].enabled)
        BY <3>1, <3>4, <4>1, <4>4 DEF Alike
      <4> QED BY <4>3, <4>4
    <3> QED BY <3>2, <3>3, <3>4
  <2> QED BY <2>1, <2>2 DEF SchedInv
<1>2. CASE Start
  <2>1. /\ Loaded' = Loaded
        /\ mem' = [j \in Job |-> IF Loaded[j] # None /\ Loaded[j].enabled /\ Loaded[j].sched = "every"
                                 THEN Recalc(j, Loaded[j]) ELSE Loaded[j]]
    BY <1>2 DEF Start, yaml, Loaded
  <2>2. ASSUME NEW j \in Job PROVE Scheduled(mem'[j]) /\ Alike(mem'[j], Loaded[j])
    <3>1. Loaded[j] # None => Loaded[j] \in JobState
      BY <1>0 DEF Registries
    <3>2. mem'[j] = IF Loaded[j] # None /\ Loaded[j].enabled /\ Loaded[j].sched = "every"
                    THEN Recalc(j, Loaded[j]) ELSE Loaded[j]
      BY <2>1
    <3> QED BY <3>1, <3>2, RecalcScheduled DEF Scheduled, Alike
  <2> QED BY <2>1, <2>2 DEF SchedInv
<1>3. CASE Crash \/ Shutdown
  <2>1. ~ up' /\ mem' = NoJobs
    BY <1>3 DEF Crash, Shutdown, Down
  <2> QED BY <2>1 DEF SchedInv, Scheduled, NoJobs
<1>4. ASSUME NEW j \in Job, TickComes(j) \/ MomentComes(j) PROVE SchedInv'
  <2>1. PICK time \in NextRun : /\ mem' = [mem EXCEPT ![j] = Come(@, time)]
                                /\ disk' = [disk EXCEPT ![j] = Come(@, time)]
                                /\ UNCHANGED <<up, file, dirty>>
    BY <1>4 DEF TickComes, MomentComes, NextRun
  <2>2. ASSUME NEW r \in JobState
        PROVE  /\ Come(r, time) # None
               /\ Come(r, time).enabled = r.enabled /\ Come(r, time).sched = r.sched
               /\ Come(r, time).next \in {r.next, "due"}
    BY <2>2, JSAssumption DEF Come, JobState, NextRun
  <2>3. Come(None, time) = None
    BY DEF Come
  <2>4. \A k \in Job : /\ mem'[k] = IF k = j THEN Come(mem[k], time) ELSE mem[k]
                       /\ disk'[k] = IF k = j THEN Come(disk[k], time) ELSE disk[k]
    BY <1>0, <2>1 DEF Registries
  <2>5. ASSUME NEW k \in Job
        PROVE  /\ mem'[k] # None => /\ mem[k] # None /\ mem'[k].enabled = mem[k].enabled
                                    /\ mem'[k].sched = mem[k].sched /\ mem'[k].next \in {mem[k].next, "due"}
               /\ disk'[k] # None => /\ disk[k] # None /\ disk'[k].enabled = disk[k].enabled
                                     /\ disk'[k].sched = disk[k].sched
    <3>1. mem[k] \in JobState \cup {None} /\ disk[k] \in JobState \cup {None}
      BY <1>0 DEF Registries
    <3> QED BY <3>1, <2>2, <2>3, <2>4
  <2>6. \A k \in Job : Scheduled(mem[k]) => Scheduled(mem'[k])
    BY <2>5 DEF Scheduled
  <2>7. \A k \in Job : Alike(mem[k], Loaded[k]) => Alike(mem'[k], Loaded'[k])
    BY <2>1, <2>5 DEF Alike, Loaded, NoJobs
  <2> QED BY <2>1, <2>6, <2>7 DEF SchedInv
<1> QED BY <1>1, <1>2, <1>3, <1>4

\* Where no job is a one-shot, or nobody changes jobs through the API, a recurring job
\* that is enabled has a next_run: through its runs, failures, removals of others,
\* reloads and restarts.
THEOREM RecurringStaysScheduled ==
    ASSUME Tame
    PROVE  Spec => []RecurringIsScheduled
<1>1. Init => SchedInv
  BY DEF Init, SchedInv, Scheduled, NoJobs
<1>2. ASSUME IInv, IInv', SchedInv, [Next]_vars PROVE SchedInv'
  <2>1. ASSUME NEW j \in Job, Service(j) PROVE SchedInv'
    BY <1>2, <2>1, RunSched, ApiSched, RemoveSched, WorldSched, ServiceCases
  <2>2. CASE UNCHANGED vars
    BY <1>2, <2>2 DEF SchedInv, vars, yaml, Loaded
  <2> QED BY <1>2, <2>1, <2>2, WorldSched DEF Next
<1>3. IInv /\ [Next]_vars => IInv'
  BY ServiceInv
<1>4. SchedInv => RecurringIsScheduled
  BY DEF SchedInv, Scheduled, RecurringIsScheduled
<1> QED BY InitInv, <1>1, <1>2, <1>3, <1>4, PTL DEF Spec
=============================================================================
