---------------------------- MODULE ChangeNotice ----------------------------
(***************************************************************************)
(* What the service relies on when files are watched for it: it is told of *)
(* a change of a watched file, once, unless the change was acknowledged or *)
(* undone before.                                                          *)
(***************************************************************************)
EXTENDS Naturals

CONSTANT File

VARIABLES
    changed,    \* files with a change nobody was told of
    told,       \* how often the service was told of a file
    open        \* the watcher is there

vars == <<changed, told, open>>

Init == changed = {} /\ told = [p \in File |-> 0] /\ open = TRUE

Change(p) ==
    /\ changed' = changed \cup {p}
    /\ UNCHANGED <<told, open>>

\* The change is acknowledged, or the file is put back as it was.
Settle(p) ==
    /\ changed' = changed \ {p}
    /\ UNCHANGED <<told, open>>

Tell(p) ==
    /\ open /\ p \in changed
    /\ changed' = changed \ {p}
    /\ told' = [told EXCEPT ![p] = @ + 1]
    /\ UNCHANGED open

Close == open /\ open' = FALSE /\ UNCHANGED <<changed, told>>

Next == Close \/ \E p \in File : Change(p) \/ Settle(p) \/ Tell(p)

Safety == Init /\ [][Next]_vars
=============================================================================
