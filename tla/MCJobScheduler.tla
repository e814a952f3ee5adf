--------------------------- MODULE MCJobScheduler ---------------------------
(* Instances of JobScheduler for TLC. *)
EXTENDS JobScheduler

MCDistinct == [j \in Job |-> j]

\* A one-shot is added for a moment and enabled, any other job as a recurring one.
MCAdded == [j \in Job |-> IF j \in OneShot THEN [enabled : {TRUE}, sched : {"at"}]
                          ELSE [enabled : BOOLEAN, sched : {"every"}]]
=============================================================================
