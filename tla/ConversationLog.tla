-------------------------- MODULE ConversationLog --------------------------
(***************************************************************************)
(* What an agent promises about the conversations it keeps, with no word   *)
(* on runners, locks, files or coroutines.  One conversation is active.  A *)
(* conversation that takes its place is a later one and begins empty.  An  *)
(* answered exchange is kept once, in one conversation, and stays there.   *)
(* The promise ends for a conversation that is broken.                     *)
(***************************************************************************)
EXTENDS Naturals

CONSTANTS
    Msg,
    Session,     \* the conversations, numbers in the order they begin
    None

VARIABLES
    active,      \* the conversation a new message joins, or None
    kept,        \* the exchanges of a conversation that is not broken
    broken       \* the conversations nothing is promised about any more

vars == <<active, kept, broken>>

Init ==
    /\ active = None
    /\ kept = [s \in Session |-> {}]
    /\ broken = {}

\* Some conversations are broken, or none.
Break ==
    /\ broken' \in SUBSET Session /\ broken \subseteq broken'
    /\ kept' = [s \in Session |-> IF s \in broken' THEN {} ELSE kept[s]]

\* A conversation begins, and what it replaces may be broken by it.
Begin(s) ==
    /\ active' = s
    /\ active # None => s > active
    /\ kept[s] = {}
    /\ Break

Keep(m, s) ==
    /\ s \notin broken /\ active # None /\ s <= active
    /\ UNCHANGED <<active, broken>>
    /\ \A t \in Session : m \notin kept[t]
    /\ kept' = [kept EXCEPT ![s] = @ \cup {m}]

Next ==
    \/ Break /\ UNCHANGED active
    \/ \E s \in Session : Begin(s) \/ \E m \in Msg : Keep(m, s)

Spec == Init /\ [][Next]_vars
=============================================================================
