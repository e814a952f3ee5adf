-------------------------- MODULE MCSessionQueue --------------------------
(* Instances of SessionQueue for TLC. *)
EXTENDS SessionQueue

\* One mode of each family: "queue" and "steer+backlog" take the same branches as
\* "followup" and "steer".
MCModes == {"followup", "collect", "interrupt", "steer", "steer-backlog"}
MCAllModes == QueueMode
MCDrops == DropPolicy
=============================================================================
