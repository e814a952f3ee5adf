-------------------------- MODULE SubagentService --------------------------
(***************************************************************************)
(* What those who start subagents are promised, with no word on tasks,     *)
(* handles, queues, sessions or time-outs.  A subagent waits, runs once    *)
(* and ends as completed, as failed or, at any moment before that, as      *)
(* killed.  It tells something only while it runs.  To interrupt one is to *)
(* kill it and start another in one step.  Somebody may run a subagent by  *)
(* hand: after that nothing is promised about it.                          *)
(***************************************************************************)
EXTENDS Sequences

CONSTANTS Sub, Answer

VARIABLES
    state,     \* state[s]: what s is
    told       \* told[s]: what s has told, in order

vars == <<state, told>>

Init ==
    /\ state = [s \in Sub |-> "new"]
    /\ told = [s \in Sub |-> <<>>]

Move(s, from, to) ==
    /\ state[s] \in from
    /\ state' = [state EXCEPT ![s] = to]

Spawn(s) == Move(s, {"new"}, "pending") /\ UNCHANGED told

Start(s) == Move(s, {"pending"}, "running") /\ UNCHANGED told

Tell(s) ==
    /\ state[s] = "running"
    /\ \E a \in Answer : told' = [told EXCEPT ![s] = Append(@, a)]
    /\ UNCHANGED state

End(s) == (Move(s, {"running"}, "completed") \/ Move(s, {"running"}, "failed")) /\ UNCHANGED told

Kill(s) == Move(s, {"pending", "running"}, "killed") /\ UNCHANGED told

Interrupt(s, n) ==
    /\ state[s] \in {"pending", "running"} /\ state[n] = "new"
    /\ state' = [state EXCEPT ![s] = "killed", ![n] = "pending"]
    /\ UNCHANGED told

ByHand(s) ==
    /\ Move(s, {"pending", "running", "failed"}, "by hand")
    /\ told' = [told EXCEPT ![s] = <<>>]

Next ==
    \E s \in Sub : \/ Spawn(s) \/ Start(s) \/ Tell(s) \/ End(s) \/ Kill(s) \/ ByHand(s)
                   \/ \E n \in Sub : Interrupt(s, n)

Spec == Init /\ [][Next]_vars
=============================================================================
