---------------------------- MODULE FileWatcher ----------------------------
(***************************************************************************)
(* core/watcher.py: one coroutine wakes up every poll interval, compares   *)
(* the modification time of each watched file with a baseline, and calls   *)
(* the file's callback once a change has been stable for a while.          *)
(*                                                                         *)
(* A scan works on a copy of the baselines taken when it starts.  It runs  *)
(* without a pause except where a callback suspends; then every other      *)
(* coroutine may run, acknowledge a file among them.  Programs outside     *)
(* write the files at any time.                                            *)
(***************************************************************************)
EXTENDS Naturals, FiniteSets

CONSTANTS
    File,
    Present,     \* the files that exist when the gateway starts: those it watches
    MaxStamp,    \* bound: modification times; 0 is that of a file that does not exist
    Window,      \* polls after which a change is stable, at the latest (debounce / poll_interval)
    MaxWrites,   \* bound: writes by other programs
    MaxSaves,    \* bound: writes by the service itself
    None

Stamp == 0 .. MaxStamp

ASSUME WatcherAssumption ==
    /\ Present \subseteq File /\ MaxStamp \in Nat \ {0} /\ Window \in Nat \ {0} /\ MaxWrites \in Nat /\ MaxSaves \in Nat
    /\ None \notin File \cup Stamp \cup [stamp : Stamp, polls : 0 .. Window]

VARIABLES
    mtime,       \* of each file, from a clock outside
    baseline,    \* _watches: the last known modification time
    pending,     \* _pending: a new one and the polls since it was first seen
    snap,        \* what is left to look at in this scan: list(self._watches.items())
    loop,        \* where the polling coroutine is
    calling,     \* the file whose callback is suspended
    closing,     \* stop() was called
    told,        \* calls of a file's callback
    writes, saves

counts == <<writes, saves>>
watcherVars == <<mtime, baseline, pending, snap, loop, calling, told, closing, counts>>

WatcherTypeOK ==
    /\ mtime \in [File -> Stamp]
    /\ baseline \in [File -> Stamp \cup {None}]
    /\ pending \in [File -> [stamp : Stamp, polls : 0 .. Window] \cup {None}]
    /\ snap \in [File -> Stamp \cup {None}]
    /\ loop \in {"asleep", "scanning", "calling", "stopped"}
    /\ calling \in File \cup {None}
    /\ told \in [File -> Nat] /\ closing \in BOOLEAN
    /\ writes \in 0 .. MaxWrites /\ saves \in 0 .. MaxSaves

WatcherInit ==
    /\ mtime = [p \in File |-> IF p \in Present THEN 1 ELSE 0]
    /\ baseline = [p \in File |-> IF p \in Present THEN 1 ELSE None]
    /\ pending = [p \in File |-> None] /\ snap = [p \in File |-> None]
    /\ loop = "asleep" /\ calling = None
    /\ told = [p \in File |-> 0] /\ closing = FALSE
    /\ writes = 0 /\ saves = 0

\* Other coroutines run when the scan does not.
Free == loop # "scanning"

-----------------------------------------------------------------------------
(* The scan.                                                                *)

Earlier(w) == IF w = None THEN None ELSE [w EXCEPT !.polls = IF @ < Window THEN @ + 1 ELSE @]

Wake ==
    /\ loop = "asleep"
    /\ loop' = "scanning"
    /\ snap' = baseline
    /\ pending' = [p \in File |-> Earlier(pending[p])]
    /\ UNCHANGED <<mtime, baseline, calling, told, closing, counts>>

\* The file is next, and its modification time is not (is) the one of the copy.
Due(p) == loop = "scanning" /\ snap[p] # None
Differs(p) == Due(p) /\ mtime[p] # snap[p]

Unchanged(p) ==
    /\ Due(p) /\ mtime[p] = snap[p]
    /\ pending' = [pending EXCEPT ![p] = None]
    /\ snap' = [snap EXCEPT ![p] = None]
    /\ UNCHANGED <<mtime, baseline, loop, calling, told, closing, counts>>

Same(p) == pending[p] # None /\ pending[p].stamp = mtime[p]

BugSuspectAgain(p) ==
    /\ Differs(p)
    /\ pending' = [pending EXCEPT ![p] = [stamp |-> mtime[p], polls |-> 0]]
    /\ snap' = [snap EXCEPT ![p] = None]
    /\ UNCHANGED <<mtime, baseline, loop, calling, told, closing, counts>>

\* A new candidate, or another one than before: the window starts again.
Suspect(p) ==
    /\ Differs(p) /\ ~Same(p)
    /\ pending' = [pending EXCEPT ![p] = [stamp |-> mtime[p], polls |-> 0]]
    /\ snap' = [snap EXCEPT ![p] = None]
    /\ UNCHANGED <<mtime, baseline, loop, calling, told, closing, counts>>

\* Not stable for long enough yet.
Wait(p) ==
    /\ Differs(p) /\ Same(p) /\ pending[p].polls < Window
    /\ snap' = [snap EXCEPT ![p] = None]
    /\ UNCHANGED <<mtime, baseline, pending, loop, calling, told, closing, counts>>

BugFireForgets(p) ==
    /\ Differs(p) /\ Same(p)
    /\ pending' = [pending EXCEPT ![p] = None]
    /\ snap' = [snap EXCEPT ![p] = None]
    /\ told' = [told EXCEPT ![p] = @ + 1]
    /\ \/ loop' = "calling" /\ calling' = p
       \/ UNCHANGED <<loop, calling>>
    /\ UNCHANGED <<mtime, baseline, closing, counts>>

\* The callback is called.  It comes back at once or suspends.  Polls that took
\* long may make a change stable before Window polls.
Fire(p) ==
    /\ Differs(p) /\ Same(p)
    /\ pending' = [pending EXCEPT ![p] = None]
    /\ baseline' = [baseline EXCEPT ![p] = mtime[p]]
    /\ snap' = [snap EXCEPT ![p] = None]
    /\ told' = [told EXCEPT ![p] = @ + 1]
    /\ \/ loop' = "calling" /\ calling' = p
       \/ UNCHANGED <<loop, calling>>
    /\ UNCHANGED <<mtime, closing, counts>>

\* acknowledge().
Acknowledged(p, stamp) ==
    IF baseline[p] = None THEN UNCHANGED <<baseline, pending>>
    ELSE /\ baseline' = [baseline EXCEPT ![p] = stamp]
         /\ pending' = [pending EXCEPT ![p] = None]

\* The callback ends; the one that suspends acknowledges its file.
Returned ==
    /\ loop = "calling"
    /\ loop' = "scanning" /\ calling' = None
    /\ Acknowledged(calling, mtime[calling])
    /\ UNCHANGED <<mtime, snap, told, closing, counts>>

ScanEnds ==
    /\ loop = "scanning" /\ \A p \in File : snap[p] = None
    /\ loop' = "asleep"
    /\ UNCHANGED <<mtime, baseline, pending, snap, calling, told, closing, counts>>

\* stop() cancels the coroutine where it waits, and waits for its end.  What a
\* callback awaits may take the cancellation for its own: then the scan runs on.
StopWatcher ==
    /\ Free /\ ~closing /\ closing' = TRUE
    /\ \/ /\ loop' = "stopped" /\ calling' = None
          /\ snap' = [p \in File |-> None]
       \/ loop = "calling" /\ UNCHANGED <<loop, calling, snap>>
    /\ UNCHANGED <<mtime, baseline, pending, told, counts>>

-----------------------------------------------------------------------------
(* Writes.                                                                  *)

\* Another program writes, removes or restores the file.
Write(p) ==
    /\ writes < MaxWrites /\ writes' = writes + 1
    /\ \E s \in Stamp \ {mtime[p]} : mtime' = [mtime EXCEPT ![p] = s]
    /\ UNCHANGED <<baseline, pending, snap, loop, calling, told, closing, saves>>

\* The service writes it and acknowledges that (JobScheduler._flush, the
\* dashboard's editor).
Save(p) ==
    /\ Free
    /\ saves < MaxSaves /\ saves' = saves + 1
    /\ \E s \in Stamp \ {0, mtime[p]} : mtime' = [mtime EXCEPT ![p] = s] /\ Acknowledged(p, s)
    /\ UNCHANGED <<snap, loop, calling, told, closing, writes>>

-----------------------------------------------------------------------------
(* What it promises.                                                        *)

Dirty == {p \in File : baseline[p] # None /\ baseline[p] # mtime[p]}

Notice == INSTANCE ChangeNotice WITH changed <- Dirty, open <- loop # "stopped"

\* A callback is called for a change that was neither acknowledged nor undone and
\* that it was not called for before, although the scan that calls it compares
\* with baselines from before other callbacks ran.
ImplementsNotice == Notice!Safety
=============================================================================
