-------------------------- MODULE MCConversation --------------------------
(* Instances of Conversation for TLC. *)
EXTENDS Conversation, TLC

CONSTANT Third      \* the message that may be something else

\* Two users' messages and something else.
MCKinds == [m \in Msg |-> IF m = Third THEN Kind ELSE {"chat"}]
MCCommand == [m \in Msg |-> IF m = Third THEN {"reset", "deliver"} ELSE {"chat"}]

\* The two users are interchangeable.
MCUsers == Permutations(Msg \ {Third})
===========================================================================
