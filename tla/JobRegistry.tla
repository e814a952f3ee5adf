---------------------------- MODULE JobRegistry ----------------------------
(***************************************************************************)
(* What the job scheduler promises about the jobs an agent has: "Jobs are  *)
(* persisted ... and survive restarts".  A job is registered once; it      *)
(* stays registered, whatever the process does, until it is deleted or     *)
(* removes itself after a successful run; after that it never comes back.  *)
(* A job begins to run only when that was asked for while it was           *)
(* registered, at most once for each time it was asked for, and never      *)
(* beside itself.  Deleting it takes back neither a run nor the asking.    *)
(***************************************************************************)
CONSTANT Job

VARIABLES
    status,    \* status[j]: "new", "registered" or "retired"
    asked,     \* the jobs whose run was asked for and has not begun
    running    \* the jobs being executed

vars == <<status, asked, running>>

Init ==
    /\ status = [j \in Job |-> "new"]
    /\ asked = {} /\ running = {}

Register(j) ==
    /\ status[j] = "new"
    /\ status' = [status EXCEPT ![j] = "registered"]
    /\ UNCHANGED <<asked, running>>

Ask(j) ==
    /\ status[j] = "registered"
    /\ asked' = asked \cup {j}
    /\ UNCHANGED <<status, running>>

Begin(j) ==
    /\ j \in asked /\ j \notin running
    /\ asked' = asked \ {j}
    /\ running' = running \cup {j}
    /\ UNCHANGED status

\* Asked for while it runs, a job may be left alone.
Drop(j) ==
    /\ j \in asked /\ j \in running
    /\ asked' = asked \ {j}
    /\ UNCHANGED <<status, running>>

\* A run ends; a one-shot job that succeeded is retired by it.
End(j) ==
    /\ j \in running
    /\ running' = running \ {j}
    /\ status' \in {status, [status EXCEPT ![j] = "retired"]}
    /\ UNCHANGED asked

\* Deleting a job does not stop its run.
Delete(j) ==
    /\ status[j] = "registered"
    /\ status' = [status EXCEPT ![j] = "retired"]
    /\ UNCHANGED <<asked, running>>

\* The process ends: the runs are gone, the registry is not.
Down ==
    /\ asked' = {} /\ running' = {}
    /\ UNCHANGED status

Next ==
    \/ \E j \in Job : Register(j) \/ Ask(j) \/ Begin(j) \/ Drop(j) \/ End(j) \/ Delete(j)
    \/ Down

Spec == Init /\ [][Next]_vars
=============================================================================
