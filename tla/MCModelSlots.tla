---------------------------- MODULE MCModelSlots ----------------------------
(* Instances of ModelSlots for TLC: a chat and a job of one model, which     *)
(* both spell with its provider.  The file gives the base name a limit of    *)
(* one; without that entry the default is two.                               *)
EXTENDS ModelSlots, TLC

MCModelOf == [s \in Session |-> "p/X"]
MCBase == [m \in Model |-> "X"]
MCConfigs == {[limits |-> "X" :> 1 @@ "p/X" :> 0, default |-> 2],
              [limits |-> "X" :> 0 @@ "p/X" :> 0, default |-> 2]}
=============================================================================
