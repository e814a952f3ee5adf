-------------------------- MODULE MessageService --------------------------
(***************************************************************************)
(* What a per-session message queue promises its callers, with no word on  *)
(* modes, caps or debouncing: a message is accepted, waits, is served with *)
(* other waiting messages in one agent call at a time, and is answered at  *)
(* most once, by the call that served it or by a cancellation.             *)
(***************************************************************************)
EXTENDS Naturals

CONSTANT Msg          \* the messages that can be submitted

VARIABLES
    status,           \* status[m]: what the submitter of m holds
    serving           \* the messages of the agent call under way, {} if none

msVars == <<status, serving>>

Answer == {"result", "error", "cancelled"}
Status == {"new", "pending", "raised"} \cup Answer

MSInit == /\ status = [m \in Msg |-> "new"]
          /\ serving = {}

\* Some answered messages are cancelled in the same step as others arrive.
CancelSome(S, st) == [m \in Msg |-> IF m \in S /\ st[m] = "pending" THEN "cancelled" ELSE st[m]]

\* A message arrives: it waits, is turned away at once, or makes the submission
\* itself fail; its arrival may displace messages that were waiting or served.
Submit(m) ==
    /\ status[m] = "new"
    /\ \E st \in {"pending", "cancelled", "raised"}, S \in SUBSET Msg :
          status' = CancelSome(S, [status EXCEPT ![m] = st])
    /\ UNCHANGED serving

\* A submitter gives up waiting.
GiveUp(m) == /\ status[m] = "pending"
             /\ status' = [status EXCEPT ![m] = "cancelled"]
             /\ UNCHANGED serving

\* An agent call starts, and only when no other one is under way.
Serve(S) == /\ serving = {}
            /\ S # {}
            /\ \A m \in S : status[m] \in {"pending", "cancelled"}
            /\ serving' = S
            /\ UNCHANGED status

\* The call ends: those it served and who still wait get one common answer.
Reply(a) == /\ serving # {}
            /\ status' = [m \in Msg |-> IF m \in serving /\ status[m] = "pending"
                                        THEN a ELSE status[m]]
            /\ serving' = {}

\* The call is abandoned and its messages wait for another one.
Requeue == /\ serving # {}
           /\ serving' = {}
           /\ UNCHANGED status

MSNext == \/ \E m \in Msg : Submit(m) \/ GiveUp(m)
          \/ \E S \in SUBSET Msg : Serve(S)
          \/ \E a \in Answer : Reply(a)
          \/ Requeue

MSSpec == MSInit /\ [][MSNext]_msVars
=============================================================================
