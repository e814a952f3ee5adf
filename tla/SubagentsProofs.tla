-------------------------- MODULE SubagentsProofs --------------------------
(***************************************************************************)
(* Proofs about Subagents for every number of subagents, tasks and         *)
(* messages.                                                               *)
(***************************************************************************)
EXTENDS Subagents, TLAPS

---------------------------------------------------------------------------
(* Queues of messages.                                                     *)

\* A queue is its first message and the others.
LEMMA ElementsTail ==
    ASSUME NEW q \in Seq(Msg), q # <<>>
    PROVE  /\ Head(q) \in Msg /\ Tail(q) \in Seq(Msg)
           /\ Elements(q) = {Head(q)} \cup Elements(Tail(q))
<1>1. /\ Head(q) \in Msg /\ Tail(q) \in Seq(Msg) /\ Head(q) = q[1]
      /\ Len(q) \in Nat \ {0} /\ Len(Tail(q)) = Len(q) - 1
      /\ \A i \in 1 .. Len(q) - 1 : Tail(q)[i] = q[i + 1]
  OBVIOUS
<1>2. ASSUME NEW i \in 1 .. Len(q)
      PROVE  q[i] \in {Head(q)} \cup Elements(Tail(q))
  <2>1. CASE i = 1
    BY <1>1, <2>1
  <2>2. CASE i # 1
    <3>1. i - 1 \in 1 .. Len(Tail(q)) /\ Tail(q)[i - 1] = q[i]
      BY <1>1, <2>2
    <3> QED BY <3>1 DEF Elements
  <2> QED BY <2>1, <2>2
<1>3. ASSUME NEW i \in 1 .. Len(Tail(q))
      PROVE  Tail(q)[i] \in Elements(q)
  <2>1. i + 1 \in 1 .. Len(q) /\ Tail(q)[i] = q[i + 1]
    BY <1>1
  <2> QED BY <2>1 DEF Elements
<1>4. q[1] \in Elements(q)
  BY <1>1 DEF Elements
<1> QED BY <1>1, <1>2, <1>3, <1>4 DEF Elements

\* Elements of a queue are messages; appending adds one.
LEMMA ElementsAppend ==
    ASSUME NEW S, NEW q \in Seq(S), NEW m \in S
    PROVE  /\ Append(q, m) \in Seq(S)
           /\ Elements(q) \subseteq S
           /\ Elements(Append(q, m)) = Elements(q) \cup {m}
BY DEF Elements

\* Concatenation joins the elements.
LEMMA ElementsConcat ==
    ASSUME NEW q \in Seq(Msg), NEW r \in Seq(Msg)
    PROVE  /\ q \o r \in Seq(Msg)
           /\ Elements(q \o r) = Elements(q) \cup Elements(r)
<1>1. q \o r \in Seq(Msg) /\ Len(q \o r) = Len(q) + Len(r)
  OBVIOUS
<1>2. ASSUME NEW i \in 1 .. Len(q \o r)
      PROVE  (q \o r)[i] \in Elements(q) \cup Elements(r)
  <2>1. CASE i <= Len(q)
    BY <2>1 DEF Elements
  <2>2. CASE i > Len(q)
    <3>1. i - Len(q) \in 1 .. Len(r) /\ (q \o r)[i] = r[i - Len(q)]
      BY <2>2
    <3> QED BY <3>1 DEF Elements
  <2> QED BY <2>1, <2>2
<1>3. Elements(q) \subseteq Elements(q \o r)
  BY DEF Elements
<1>4. ASSUME NEW i \in 1 .. Len(r)
      PROVE  r[i] \in Elements(q \o r)
  <2>1. i + Len(q) \in 1 .. Len(q \o r) /\ (q \o r)[i + Len(q)] = r[i]
    OBVIOUS
  <2> QED BY <2>1 DEF Elements
<1> QED BY <1>1, <1>2, <1>3, <1>4 DEF Elements

\* An empty queue has no elements.
LEMMA ElementsEmpty == Elements(<<>>) = {}
BY DEF Elements

---------------------------------------------------------------------------
(* The inductive invariant.                                                *)

\* Tasks and subagents are numbered as they are created, and a handle is one
\* of a task of that subagent.
Numbered ==
    /\ \A t \in Task : phase[t] = "none" <=> t > started
    /\ \A t \in Task : phase[t] # "none" => job[t] \in 1 .. spawned
    /\ registered \cup running \cup results \cup killed \cup again \subseteq 1 .. spawned
    /\ \A s \in Sub : handle[s] # None => handle[s] <= started /\ job[handle[s]] = s

\* A subagent not run by hand has one task, its handle is kept until the task
\* is through, and it is registered as long as the handle is kept.
Single ==
    \A t, u \in Task :
        phase[t] # "none" /\ phase[u] # "none" /\ job[t] = job[u] /\ job[t] \notin again => t = u

Handled ==
    \A t \in Task :
        phase[t] \in {"created"} \cup Body /\ job[t] \notin again => handle[job[t]] = t

Owned == \A s \in Sub \ again : handle[s] # None => s \in registered

\* A follow-up's turn has a follow-up, and a delivery an answer.
Following ==
    \A t \in Task :
        /\ phase[t] = "followup" => batch[t] # <<>>
        /\ phase[t] = "delivering" => answer[t] # None

Tables == Numbered /\ Single /\ Handled /\ Owned /\ RunningIsTrue /\ OneOutcome

IInv == TypeOK /\ Following /\ Tables

---------------------------------------------------------------------------
(* Types.                                                                   *)

\* A message queue dropped leaves every message a fate.
LEMMA DropType ==
    ASSUME NEW f \in [Msg -> Fate], NEW q
    PROVE  Drop(f, q) \in [Msg -> Fate]
BY DEF Drop, Fate

\* A new task keeps the types of the tables and of the tasks.
LEMMA NewTaskType ==
    ASSUME TypeOK, NEW s \in Sub, NEW handles \in [Sub -> Task \cup {None}],
           NEW phases \in [Task -> Phase], NewTask(s, handles, phases)
    PROVE  /\ started' \in 0 .. MaxTasks /\ started' = started + 1 /\ started' \in Task
           /\ handle' \in [Sub -> Task \cup {None}]
           /\ job' \in [Task -> Sub \cup {None}]
           /\ phase' \in [Task -> Phase]
<1>1. started \in Nat /\ started + 1 \in 1 .. MaxTasks
  BY SubagentsAssumption DEF NewTask, TypeOK
<1>2. started' = started + 1 /\ started' \in Task
  BY <1>1 DEF NewTask, Task
<1>3. handle' = [handles EXCEPT ![s] = started + 1] /\ job' = [job EXCEPT ![started + 1] = s]
      /\ phase' = [phases EXCEPT ![started + 1] = "created"]
  BY DEF NewTask
<1>4. job \in [Task -> Sub \cup {None}] /\ "created" \in Phase
  BY DEF TypeOK, Phase
<1> QED BY <1>1, <1>2, <1>3, <1>4, SubagentsAssumption DEF Task

\* So does a new subagent.
LEMMA NewSubType ==
    ASSUME TypeOK, NEW p \in Task \cup {Chat, None}, NEW f \in BOOLEAN,
           NEW handles \in [Sub -> Task \cup {None}],
           NEW phases \in [Task -> Phase], NEW kept \in SUBSET Sub,
           NewSub(p, f, handles, phases, kept)
    PROVE  /\ spawned' \in 0 .. MaxSubs /\ spawned' = spawned + 1 /\ spawned' \in Sub
           /\ registered' \subseteq Sub
           /\ parent' \in [Sub -> Task \cup {Chat, None}]
           /\ fallback' \in [Sub -> BOOLEAN]
           /\ started' \in 0 .. MaxTasks
           /\ handle' \in [Sub -> Task \cup {None}]
           /\ job' \in [Task -> Sub \cup {None}]
           /\ phase' \in [Task -> Phase]
<1>1. spawned \in Nat /\ spawned + 1 \in Sub /\ spawned + 1 \in 0 .. MaxSubs
  BY SubagentsAssumption DEF NewSub, TypeOK, Sub
<1>2. NewTask(spawned + 1, handles, phases)
  BY DEF NewSub
<1>3. parent \in [Sub -> Task \cup {Chat, None}] /\ fallback \in [Sub -> BOOLEAN]
  BY DEF TypeOK
<1>4. /\ spawned' = spawned + 1 /\ registered' = kept \cup {spawned + 1}
      /\ parent' = [parent EXCEPT ![spawned + 1] = p]
      /\ fallback' = [fallback EXCEPT ![spawned + 1] = f]
  BY DEF NewSub
<1> HIDE DEF NewSub
<1> QED BY <1>1, <1>2, <1>3, <1>4, NewTaskType

\* A cancelled task unwinds, or ends when it had not started.
LEMMA CancelledType ==
    ASSUME NEW p \in Phase, NEW q \in Cancelled(p)
    PROVE  q \in {"ended"} \cup Unwinding /\ q \in Phase
           /\ (q = "ended" => p = "created")
BY DEF Cancelled, Unwinding, Phase, Cleaning

\* The finally clause keeps the types.
LEMMA FinallyType ==
    ASSUME TypeOK, NEW t \in Task, NEW rest, Finally(t, rest)
    PROVE  /\ phase' \in [Task -> Phase] /\ running' \subseteq Sub
           /\ handle' \in [Sub -> Task \cup {None}]
           /\ queue' \in [Sub -> Seq(Msg)]
           /\ batch' \in [Task -> Seq(Msg)]
           /\ answer' \in [Task -> Answer \cup {None}]
           /\ fate' \in [Msg -> Fate]
           /\ UNCHANGED <<spawned, started, requests, outside, past>>
<1>1. phase' \in [Task -> Phase]
  BY DEF TypeOK, Finally, Phase
<1>2. fate' \in [Msg -> Fate]
  BY DropType DEF TypeOK, Finally
<1>3. <<>> \in Seq(Msg)
  OBVIOUS
<1> QED BY <1>1, <1>2, <1>3 DEF TypeOK, Finally

\* Where the executor goes on with rest, and that other tasks do not.
LEMMA ProceedType ==
    ASSUME TypeOK, NEW t \in Task, NEW rest \in Seq(Msg), NEW a \in Answer \cup {None},
           Proceed(t, rest, a)
    PROVE  /\ phase' \in [Task -> Phase]
           /\ batch' \in [Task -> Seq(Msg)]
           /\ answer' \in [Task -> Answer \cup {None}]
           /\ \A u \in Task : u # t => /\ batch'[u] = batch[u] /\ phase'[u] = phase[u]
                                       /\ answer'[u] = answer[u]
           /\ phase'[t] \in {"followup", "delivering", "evicting"}
           /\ phase'[t] = "delivering" => answer'[t] # None
           /\ phase'[t] = "followup" <=> batch'[t] # <<>>
           /\ batch'[t] = rest
BY DEF TypeOK, Proceed, Phase

\* The same after a delivery.
LEMMA DeliveredType ==
    ASSUME TypeOK, NEW t \in Task, Delivered(t)
    PROVE  /\ phase' \in [Task -> Phase]
           /\ batch' \in [Task -> Seq(Msg)]
           /\ answer' \in [Task -> Answer \cup {None}]
           /\ \A u \in Task : u # t => /\ batch'[u] = batch[u] /\ phase'[u] = phase[u]
                                       /\ answer'[u] = answer[u]
           /\ phase'[t] \in {"followup", "delivering", "evicting"}
           /\ phase'[t] = "delivering" => answer'[t] # None
           /\ phase'[t] = "followup" <=> batch'[t] # <<>>
           /\ batch[t] = <<>> => batch'[t] = <<>>
           /\ batch[t] # <<>> => batch'[t] = Tail(batch[t])
<1>1. batch[t] \in Seq(Msg) /\ answer[t] \in Answer \cup {None}
  BY DEF TypeOK
<1>2. CASE batch[t] = <<>>
  BY <1>2 DEF TypeOK, Delivered, Phase
<1>3. CASE batch[t] # <<>>
  <2>1. Tail(batch[t]) \in Seq(Msg)
    BY <1>1, <1>3
  <2>2. Proceed(t, Tail(batch[t]), answer[t])
    BY <1>3 DEF Delivered
  <2> QED BY <1>1, <1>3, <2>1, <2>2, ProceedType
<1> QED BY <1>2, <1>3

\* Every step keeps the types, and the batches and answers of tasks under way.
LEMMA TypeNext ==
    ASSUME TypeOK, Following, Numbered, [Next]_vars
    PROVE  TypeOK' /\ Following'
<1> USE SubagentsAssumption
<1>a. \A t \in Task : phase[t] # "none" => job[t] \in Sub
  BY DEF Numbered, TypeOK, Sub
<1>1. CASE Spawn
  <2>1. PICK p \in {Chat} \cup Task, f \in BOOLEAN : NewSub(p, f, handle, phase, registered)
    BY <1>1 DEF Spawn
  <2>a. /\ handle \in [Sub -> Task \cup {None}] /\ phase \in [Task -> Phase]
        /\ registered \in SUBSET Sub
    BY DEF TypeOK
  <2>b. /\ spawned' \in 0 .. MaxSubs /\ registered' \subseteq Sub
        /\ parent' \in [Sub -> Task \cup {Chat, None}] /\ fallback' \in [Sub -> BOOLEAN]
        /\ started' \in 0 .. MaxTasks /\ handle' \in [Sub -> Task \cup {None}]
        /\ job' \in [Task -> Sub \cup {None}] /\ phase' \in [Task -> Phase]
    BY <2>1, <2>a, NewSubType
  <2>2. TypeOK'
    BY <1>1, <2>b DEF TypeOK, Spawn, outside, mail, past
  <2>3. \A t \in Task : phase'[t] \in {"followup", "delivering"} => phase'[t] = phase[t]
    BY <2>1 DEF NewSub, NewTask, TypeOK
  <2> QED BY <1>1, <2>2, <2>3 DEF Following, Spawn
<1>2. CASE CloseChat
  BY <1>2 DEF TypeOK, Following, CloseChat, registry, requests, execution, mail, past
<1>3. ASSUME NEW s \in Sub, RunNow(s) PROVE TypeOK' /\ Following'
  <2>1. NewTask(s, handle, phase)
    BY <1>3 DEF RunNow
  <2>2. TypeOK'
    BY <1>3, <2>1, NewTaskType DEF TypeOK, RunNow, outside, mail
  <2>3. \A t \in Task : phase'[t] \in {"followup", "delivering"} => phase'[t] = phase[t]
    BY <2>1 DEF NewTask, TypeOK
  <2> QED BY <1>3, <2>2, <2>3 DEF Following, RunNow
<1>4. ASSUME NEW s \in Sub, Kill(s) PROVE TypeOK' /\ Following'
  <2>1. PICK p \in Cancelled(phase[handle[s]]) : phase' = [phase EXCEPT ![handle[s]] = p]
    BY <1>4 DEF Kill
  <2>2. handle[s] \in Task /\ phase[handle[s]] \in Phase
    BY <1>4 DEF Kill, Killable, TypeOK
  <2>3. p \in Phase /\ p \notin {"followup", "delivering"}
    BY <2>1, <2>2, CancelledType DEF Unwinding
  <2>4. fate' \in [Msg -> Fate]
    BY <1>4, DropType DEF Kill, KillSteps, TypeOK
  <2>5. <<>> \in Seq(Msg)
    OBVIOUS
  <2>6. TypeOK'
    BY <1>4, <2>1, <2>3, <2>4, <2>5 DEF Kill, KillSteps, TypeOK, requests, outside
  <2> QED BY <1>4, <2>1, <2>2, <2>3, <2>6 DEF Following, Kill, TypeOK
<1>5. ASSUME NEW s \in Sub, Interrupt(s) PROVE TypeOK' /\ Following'
  <2>0. parent[s] \in Task \cup {Chat, None}
    BY DEF TypeOK
  <2>1. CASE Killable(s)
    <3>1. PICK p \in Cancelled(phase[handle[s]]) :
             NewSub(parent[s], FALSE, [handle EXCEPT ![s] = None],
                    [phase EXCEPT ![handle[s]] = p], registered \ {s})
      BY <1>5, <2>1 DEF Interrupt
    <3>2. handle[s] \in Task /\ phase[handle[s]] \in Phase
      BY <2>1 DEF Killable, TypeOK
    <3>3. p \in Phase /\ p \notin {"followup", "delivering"}
      BY <3>1, <3>2, CancelledType DEF Unwinding
    <3>a. KillSteps(s)
      BY <1>5, <2>1 DEF Interrupt
    <3>4. fate' \in [Msg -> Fate]
      BY <3>a, DropType DEF KillSteps, TypeOK
    <3>5. <<>> \in Seq(Msg)
      OBVIOUS
    <3>6. /\ [handle EXCEPT ![s] = None] \in [Sub -> Task \cup {None}]
          /\ [phase EXCEPT ![handle[s]] = p] \in [Task -> Phase]
          /\ registered \ {s} \in SUBSET Sub
      BY <3>3 DEF TypeOK
    <3>7. TypeOK'
      <4>1. /\ spawned' \in 0 .. MaxSubs /\ registered' \subseteq Sub
            /\ parent' \in [Sub -> Task \cup {Chat, None}] /\ fallback' \in [Sub -> BOOLEAN]
            /\ started' \in 0 .. MaxTasks /\ handle' \in [Sub -> Task \cup {None}]
            /\ job' \in [Task -> Sub \cup {None}] /\ phase' \in [Task -> Phase]
        BY <2>0, <3>1, <3>6, NewSubType
      <4>2. /\ killed' \subseteq Sub /\ running' \subseteq Sub
            /\ queue' \in [Sub -> Seq(Msg)]
        BY <3>a, <3>5 DEF KillSteps, TypeOK
      <4> QED BY <1>5, <3>4, <4>1, <4>2 DEF Interrupt, TypeOK, outside
    <3>8. \A t \in Task : phase'[t] \in {"followup", "delivering"} => phase'[t] = phase[t]
      BY <3>1, <3>2, <3>3 DEF NewSub, NewTask, TypeOK
    <3> QED BY <1>5, <3>7, <3>8 DEF Following, Interrupt
  <2>2. CASE ~ Killable(s)
    <3>1. NewSub(parent[s], FALSE, handle, phase, registered)
      BY <1>5, <2>2 DEF Interrupt
    <3>2. TypeOK'
      BY <1>5, <2>0, <2>2, <3>1, NewSubType DEF Interrupt, TypeOK, outside, mail
    <3>3. \A t \in Task : phase'[t] \in {"followup", "delivering"} => phase'[t] = phase[t]
      BY <3>1 DEF NewSub, NewTask, TypeOK
    <3> QED BY <1>5, <3>2, <3>3 DEF Following, Interrupt
  <2> QED BY <2>1, <2>2
<1>6. ASSUME NEW s \in Sub, NEW m \in Msg, Send(s, m) PROVE TypeOK' /\ Following'
  <2>1. Append(queue[s], m) \in Seq(Msg)
    BY DEF TypeOK
  <2> QED BY <1>6, <2>1 DEF TypeOK, Following, Send, Fate, registry, requests, execution, outside, past
<1>7. ASSUME NEW t \in Task, Begin(t) PROVE TypeOK' /\ Following'
  <2>1. job[t] \in Sub
    BY <1>7, <1>a DEF Begin
  <2>2. /\ phase' \in [Task -> Phase] /\ running' \subseteq Sub /\ status' \in [Sub -> Status]
        /\ \A u \in Task : phase'[u] \in {"followup", "delivering"} => phase'[u] = phase[u]
    <3>1. CASE job[t] \in running
      BY <1>7, <3>1 DEF Begin, TypeOK, Phase
    <3>2. CASE job[t] \notin running
      <4>1. /\ phase' = [phase EXCEPT ![t] = "opening"]
            /\ running' = running \cup {job[t]}
            /\ status' = [status EXCEPT ![job[t]] = "running"]
        BY <1>7, <3>2 DEF Begin
      <4>2. "opening" \in Phase /\ "running" \in Status
        BY DEF Phase, Status
      <4> QED BY <2>1, <4>1, <4>2 DEF TypeOK
    <3> QED BY <3>1, <3>2
  <2>3. TypeOK'
    BY <1>7, <2>2 DEF TypeOK, Begin, requests, outside, mail, past
  <2> QED BY <1>7, <2>2, <2>3 DEF Following, Begin
<1>8. ASSUME NEW t \in Task, Open(t) PROVE TypeOK' /\ Following'
  BY <1>8 DEF TypeOK, Following, Open, Phase, registry, requests, outside, mail, past
<1>9. ASSUME NEW t \in Task, FailRun(t), sessions' \in SUBSET Task PROVE TypeOK' /\ Following'
  <2>1. Finally(t, batch[t])
    BY <1>9 DEF FailRun
  <2>2. TypeOK'
    BY <1>9, <2>1, FinallyType DEF TypeOK, FailRun, Status, requests, outside, past
  <2> QED BY <2>1, <2>2 DEF Following, Finally, TypeOK
<1>10. ASSUME NEW t \in Task, TurnEnds(t) PROVE TypeOK' /\ Following'
  <2>1. PICK a \in {"task", None} : Proceed(t, queue[job[t]], a)
    BY <1>10 DEF TurnEnds
  <2>2. job[t] \in Sub /\ queue[job[t]] \in Seq(Msg) /\ a \in Answer \cup {None} /\ <<>> \in Seq(Msg)
    BY <1>10, <1>a DEF TurnEnds, TypeOK, Answer
  <2>3. TypeOK'
    BY <1>10, <2>1, <2>2, ProceedType DEF TypeOK, TurnEnds, Fate, registry, requests, outside, past
  <2> QED BY <2>1, <2>2, <2>3, ProceedType DEF Following
<1>11. ASSUME NEW t \in Task, TurnRaises(t) PROVE TypeOK' /\ Following'
  BY <1>11 DEF TypeOK, Following, TurnRaises, Phase, registry, requests, outside, mail, past
<1>12. ASSUME NEW t \in Task, FollowUpEnds(t) PROVE TypeOK' /\ Following'
  <2>1. /\ batch[t] \in Seq(Msg) /\ batch[t] # <<>>
        /\ Head(batch[t]) \in Msg /\ Tail(batch[t]) \in Seq(Msg)
    BY <1>12 DEF FollowUpEnds, Following, TypeOK
  <2>2. fate' \in [Msg -> Fate]
    BY <1>12, <2>1 DEF FollowUpEnds, TypeOK, Fate
  <2>3. PICK a \in {Head(batch[t]), None} :
          IF a # None /\ Deliverable(job[t])
          THEN /\ phase' = [phase EXCEPT ![t] = "delivering"]
               /\ answer' = [answer EXCEPT ![t] = a]
               /\ UNCHANGED batch
          ELSE Proceed(t, Tail(batch[t]), a)
    BY <1>12 DEF FollowUpEnds
  <2>4. a \in Answer \cup {None}
    BY <2>1 DEF Answer
  <2>5. /\ phase' \in [Task -> Phase] /\ batch' \in [Task -> Seq(Msg)]
        /\ answer' \in [Task -> Answer \cup {None}] /\ Following'
    <3>1. CASE a # None /\ Deliverable(job[t])
      <4>1. /\ phase' = [phase EXCEPT ![t] = "delivering"]
            /\ answer' = [answer EXCEPT ![t] = a] /\ batch' = batch /\ a # None
        BY <2>3, <3>1
      <4> QED BY <2>4, <4>1 DEF TypeOK, Phase, Following
    <3>2. CASE ~ (a # None /\ Deliverable(job[t]))
      <4>1. Proceed(t, Tail(batch[t]), a)
        BY <2>3, <3>2
      <4> QED BY <4>1, <2>1, <2>4, ProceedType DEF Following
    <3> QED BY <3>1, <3>2
  <2> QED BY <1>12, <2>2, <2>5 DEF TypeOK, FollowUpEnds, registry, requests, outside, past
<1>13. ASSUME NEW t \in Task, FollowUpRaises(t) PROVE TypeOK' /\ Following'
  <2>1. /\ batch[t] \in Seq(Msg) /\ batch[t] # <<>>
        /\ Head(batch[t]) \in Msg /\ Tail(batch[t]) \in Seq(Msg)
        /\ answer[t] \in Answer \cup {None}
    BY <1>13 DEF FollowUpRaises, Following, TypeOK
  <2>2. fate' \in [Msg -> Fate]
    BY <1>13, <2>1 DEF FollowUpRaises, TypeOK, Fate
  <2>3. Proceed(t, Tail(batch[t]), answer[t])
    BY <1>13 DEF FollowUpRaises
  <2>4. TypeOK'
    BY <1>13, <2>1, <2>2, <2>3, ProceedType DEF TypeOK, FollowUpRaises, registry, requests, outside, past
  <2> QED BY <2>1, <2>3, <2>4, ProceedType DEF Following
<1>14. ASSUME NEW t \in Task, Deliver(t) PROVE TypeOK' /\ Following'
  <2>1. Delivered(t) /\ job[t] \in Sub
    BY <1>14, <1>a DEF Deliver
  <2>2. told' \in [Sub -> Seq(Answer)]
    <3>1. answer[t] \in Answer
      BY <1>14 DEF Deliver, Following, TypeOK
    <3> QED BY <1>14, <2>1, <3>1 DEF Deliver, TypeOK
  <2> QED BY <1>14, <2>1, <2>2, DeliveredType DEF TypeOK, Following, Deliver, registry, requests, mail, past
<1>15. ASSUME NEW t \in Task, DeliveryRaises(t) PROVE TypeOK' /\ Following'
  <2>1. Delivered(t)
    BY <1>15 DEF DeliveryRaises
  <2> QED BY <1>15, <2>1, DeliveredType DEF TypeOK, Following, DeliveryRaises, registry, requests, outside, mail
<1>16. ASSUME NEW t \in Task, Complete(t) PROVE TypeOK' /\ Following'
  <2>1. Finally(t, <<>>) /\ job[t] \in Sub
    BY <1>16, <1>a DEF Complete
  <2>2. TypeOK'
    BY <1>16, <2>1, FinallyType DEF TypeOK, Complete, Status, requests, outside, past
  <2> QED BY <2>1, <2>2 DEF Following, Finally, TypeOK
<1>17. ASSUME NEW t \in Task, Timeout(t) PROVE TypeOK' /\ Following'
  <2>1. CASE phase[t] \in Suspended /\ phase' = [phase EXCEPT ![t] = "timing"]
             /\ UNCHANGED <<registry, requests, batch, answer, outside, mail, sessions, past>>
    BY <2>1 DEF TypeOK, Following, Phase, registry, requests, outside, mail, past
  <2>2. CASE FailRun(t) /\ UNCHANGED sessions
    BY <2>2, <1>9 DEF TypeOK
  <2> QED BY <1>17, <2>1, <2>2 DEF Timeout
<1>18. ASSUME NEW t \in Task, Unwind(t) PROVE TypeOK' /\ Following'
  <2>1. Finally(t, batch[t])
    BY <1>18 DEF Unwind
  <2>2. TypeOK'
    BY <1>18, <2>1, FinallyType DEF TypeOK, Unwind, requests, outside, past
  <2> QED BY <2>1, <2>2 DEF Following, Finally, TypeOK
<1>19. CASE UNCHANGED vars
  BY <1>19 DEF TypeOK, Following, vars, registry, requests, execution, outside, mail, past
<1>20. ASSUME NEW t \in Task, Run(t) PROVE TypeOK' /\ Following'
  <2>1. CASE OpenFails(t)
    BY <2>1, <1>9 DEF OpenFails, TypeOK
  <2>2. CASE Fail(t)
    BY <2>2, <1>9 DEF Fail, TypeOK
  <2>3. CASE TimedOut(t)
    BY <2>3, <1>9 DEF TimedOut, TypeOK
  <2> QED
    BY <1>20, <2>1, <2>2, <2>3, <1>7, <1>8, <1>10, <1>11, <1>12, <1>13, <1>14, <1>15, <1>16, <1>17, <1>18
       DEF Run
<1> QED
  BY <1>1, <1>2, <1>3, <1>4, <1>5, <1>6, <1>19, <1>20 DEF Next

---------------------------------------------------------------------------
(* The scheduler's tables.                                                  *)

ledger == <<spawned, started, registered, running, handle, results, job, killed, again>>

\* A task that goes on inside its run.
LEMMA TablesMove ==
    ASSUME TypeOK, Tables, NEW t \in Task, phase[t] \in Body, NEW p \in Body,
           phase' = [phase EXCEPT ![t] = p], UNCHANGED ledger
    PROVE  Tables'
<1>1. \A u \in Task : /\ phase'[u] \in Body <=> phase[u] \in Body
                      /\ phase'[u] = "none" <=> phase[u] = "none"
                      /\ phase'[u] = "created" <=> phase[u] = "created"
  BY DEF TypeOK, Body, Suspended, InTurn, Cleaning
<1>2. \A u \in Task, s \in Sub : InBody(u, s)' <=> InBody(u, s)
  BY <1>1 DEF InBody, ledger
<1>3. \A s \in Sub : handle[s] # None => handle[s] \in Task
  BY DEF TypeOK
<1>4. Numbered' /\ Single' /\ Owned' /\ OneOutcome'
  BY <1>1 DEF Tables, Numbered, Single, Owned, OneOutcome, ledger
<1>5. Handled'
  BY <1>1 DEF Tables, Handled, ledger
<1>6. RunningIsTrue'
  BY <1>2, <1>3 DEF Tables, RunningIsTrue, ledger
<1> QED BY <1>4, <1>5, <1>6 DEF Tables

\* A step that touches neither the tables nor a task.
LEMMA TablesStay ==
    ASSUME Tables, UNCHANGED <<ledger, phase>>
    PROVE  Tables'
BY DEF Tables, ledger, Numbered, Single, Handled, Owned, OneOutcome, RunningIsTrue, InBody

\* What the invariant says of a task that has begun and was not killed.
LEMMA Held ==
    ASSUME TypeOK, Tables, NEW t \in Task, phase[t] \in {"created"} \cup Body, job[t] \notin again
    PROVE  /\ handle[job[t]] = t /\ job[t] \in registered /\ job[t] \notin killed \cup results
           /\ \A u \in Task : phase[u] # "none" /\ job[u] = job[t] => u = t
           /\ phase[t] \in Body => job[t] \in running
<1>1. phase[t] # "none"
  BY DEF Body, Suspended, InTurn, Cleaning
<1>2. job[t] \in Sub
  BY <1>1, SubagentsAssumption DEF Tables, Numbered, TypeOK, Sub
<1>3. handle[job[t]] = t /\ handle[job[t]] # None
  BY SubagentsAssumption DEF Tables, Handled
<1>4. job[t] \in registered
  BY <1>2, <1>3 DEF Tables, Owned
<1>5. job[t] \notin killed \cup results
  BY <1>4 DEF Tables, OneOutcome
<1>6. \A u \in Task : phase[u] # "none" /\ job[u] = job[t] => u = t
  BY <1>1 DEF Tables, Single
<1>7. phase[t] \in Body => job[t] \in running
  BY <1>2 DEF Tables, RunningIsTrue, InBody
<1> QED BY <1>3, <1>4, <1>5, <1>6, <1>7

\* The finally clause of a run leaves the tables as they should be, whether the
\* subagent stays registered or its answer is cached instead.
LEMMA TablesFinally ==
    ASSUME TypeOK, Tables, NEW t \in Task, NEW rest, Finally(t, rest),
           phase[t] \in Body \cup Unwinding,
           \/ UNCHANGED <<registered, results>>
           \/ /\ phase[t] \in Body
              /\ registered' = registered \ {job[t]}
              /\ results' = results \cup {job[t]}
    PROVE  Tables'
<1> DEFINE s == job[t]
<1>1. phase[t] \notin {"none", "ended"}
  BY DEF Body, Suspended, InTurn, Cleaning, Unwinding
<1>2. s \in 1 .. spawned /\ s \in Sub
  BY <1>1, SubagentsAssumption DEF Tables, Numbered, TypeOK, Sub
<1>3. /\ phase' = [phase EXCEPT ![t] = "ended"]
      /\ running' = running \ {s}
      /\ handle' = [handle EXCEPT ![s] = None]
      /\ UNCHANGED <<spawned, started, job, killed, again>>
  BY DEF Finally, requests, past
<1>4. \A u \in Task : u # t => phase'[u] = phase[u]
  BY <1>3 DEF TypeOK
<1>5. phase'[t] = "ended" /\ "ended" \notin {"none", "created"} \cup Body
  BY <1>3 DEF TypeOK, Body, Suspended, InTurn, Cleaning
<1>6. /\ handle'[s] = None
      /\ \A r \in Sub : r # s => handle'[r] = handle[r]
  BY <1>2, <1>3 DEF TypeOK
<1>7. Numbered'
  <2>1. (registered \cup running \cup results \cup killed \cup again)' \subseteq 1 .. spawned
    BY <1>2, <1>3 DEF Tables, Numbered
  <2>2. \A r \in Sub : handle'[r] # None => handle[r] <= started /\ job[handle[r]] = r /\ handle'[r] = handle[r]
    BY <1>6 DEF Tables, Numbered
  <2> QED BY <1>1, <1>2, <1>3, <1>4, <1>5, <2>1, <2>2 DEF Tables, Numbered
<1>8. Single'
  <2>1. \A u \in Task : phase'[u] # "none" => phase[u] # "none"
    BY <1>1, <1>4
  <2> QED BY <1>3, <2>1 DEF Tables, Single
<1>9. \A u \in Task : u # t /\ phase[u] # "none" /\ job[u] = s => s \in again
  BY <1>1 DEF Tables, Single
<1>10. Handled'
  <2> SUFFICES ASSUME NEW u \in Task, phase'[u] \in {"created"} \cup Body, job[u] \notin again
               PROVE  handle'[job[u]] = u
    BY <1>3 DEF Handled
  <2>1. u # t /\ phase[u] \in {"created"} \cup Body /\ phase[u] # "none"
    BY <1>4, <1>5 DEF Body, Suspended, InTurn, Cleaning
  <2>2. job[u] # s
    BY <1>9, <2>1
  <2>3. job[u] \in Sub
    BY <2>1, SubagentsAssumption DEF Tables, Numbered, TypeOK, Sub
  <2> QED BY <1>6, <2>1, <2>2, <2>3 DEF Tables, Handled
<1>11. Owned'
  <2> SUFFICES ASSUME NEW r \in Sub \ again, handle'[r] # None
               PROVE  r \in registered'
    BY <1>3 DEF Owned
  <2>1. r # s /\ handle[r] # None
    BY <1>6
  <2> QED BY <2>1 DEF Tables, Owned
<1>12. OneOutcome'
  <2>1. CASE UNCHANGED <<registered, results>>
    BY <2>1, <1>3 DEF Tables, OneOutcome
  <2>2. CASE /\ phase[t] \in Body
             /\ registered' = registered \ {s}
             /\ results' = results \cup {s}
    <3>1. s \notin again => s \notin killed
      BY <2>2, Held
    <3> QED BY <2>2, <3>1, <1>3 DEF Tables, OneOutcome
  <2> QED BY <2>1, <2>2
<1>13. RunningIsTrue'
  <2> SUFFICES ASSUME NEW r \in Sub \ again
               PROVE  /\ r \in running' <=> \E u \in Task : InBody(u, r)'
                      /\ r \in running' => handle'[r] # None /\ InBody(handle[r], r)'
                      /\ \A u, v \in Task : InBody(u, r)' /\ InBody(v, r)' => u = v
    BY <1>3 DEF RunningIsTrue
  <2>1. \A u \in Task : InBody(u, r)' => InBody(u, r) /\ u # t
    BY <1>3, <1>4, <1>5 DEF InBody
  <2>2. \A u \in Task : InBody(u, r) /\ u # t => InBody(u, r)'
    BY <1>3, <1>4 DEF InBody
  <2>3. CASE r = s
    <3>1. \A u \in Task : ~ InBody(u, r)'
      BY <2>1, <2>3, <1>9 DEF InBody, Body, Suspended, InTurn, Cleaning
    <3> QED BY <3>1, <1>3, <2>3
  <2>4. CASE r # s
    <3>1. ~ InBody(t, r)
      BY <2>4 DEF InBody
    <3>2. handle'[r] = handle[r] /\ (handle[r] # None => handle[r] \in Task)
      BY <1>6, <2>4 DEF TypeOK
    <3>3. r \in running' <=> r \in running
      BY <1>3, <2>4
    <3>4. /\ r \in running <=> \E u \in Task : InBody(u, r)
          /\ r \in running => handle[r] # None /\ InBody(handle[r], r)
          /\ \A u, v \in Task : InBody(u, r) /\ InBody(v, r) => u = v
      BY DEF Tables, RunningIsTrue
    <3>5. \A u \in Task : InBody(u, r)' <=> InBody(u, r)
      BY <2>1, <2>2, <3>1
    <3>6. r \in running => handle'[r] # None /\ InBody(handle[r], r)'
      BY <3>2, <3>4, <3>5 DEF InBody
    <3> QED BY <3>3, <3>4, <3>5, <3>6
  <2> QED BY <2>3, <2>4
<1> QED BY <1>7, <1>8, <1>10, <1>11, <1>12, <1>13 DEF Tables

---------------------------------------------------------------------------
(* Killing and starting.  With says of given tables what Tables says of     *)
(* those of the state, so that an interrupt can be taken as a kill followed *)
(* by a spawn.                                                              *)

With(reg, run, h, ph, dead) ==
    /\ \A u \in Task : ph[u] = "none" <=> u > started
    /\ \A u \in Task : ph[u] # "none" => job[u] \in 1 .. spawned
    /\ reg \cup run \cup results \cup dead \cup again \subseteq 1 .. spawned
    /\ \A r \in Sub : h[r] # None => h[r] \in Task /\ h[r] <= started /\ job[h[r]] = r
    /\ \A t, u \in Task :
         ph[t] # "none" /\ ph[u] # "none" /\ job[t] = job[u] /\ job[t] \notin again => t = u
    /\ \A t \in Task : ph[t] \in {"created"} \cup Body /\ job[t] \notin again => h[job[t]] = t
    /\ \A r \in Sub \ again : h[r] # None => r \in reg
    /\ (1 .. spawned) \ again \subseteq reg \cup dead \cup results
    /\ (reg \cap dead) \cup (dead \cap results) \cup (results \cap reg) \subseteq again
    /\ \A r \in Sub \ again :
         /\ r \in run <=> \E u \in Task : job[u] = r /\ ph[u] \in Body
         /\ r \in run => h[r] # None /\ job[h[r]] = r /\ ph[h[r]] \in Body

\* The phases are disjoint where the proofs need it.
LEMMA NoBody == "none" \notin Body /\ "created" \notin Body /\ "ended" \notin Body
                /\ Body \cap Unwinding = {}
BY DEF Body, Suspended, InTurn, Cleaning, Unwinding

\* Tables is With at the current values of the variables, ...
LEMMA TablesWith ==
    ASSUME TypeOK, Tables
    PROVE  With(registered, running, handle, phase, killed)
<1>1. \A r \in Sub : handle[r] # None => handle[r] \in Task
  BY DEF TypeOK
<1> QED
  BY <1>1 DEF Tables, Numbered, Single, Handled, Owned, OneOutcome, RunningIsTrue, InBody, With

\* ... and at the next ones.
LEMMA WithTables ==
    ASSUME UNCHANGED <<spawned, started, job, results, again>>,
           With(registered', running', handle', phase', killed')
    PROVE  Tables'
<1>1. Numbered' /\ Single' /\ Handled' /\ Owned' /\ OneOutcome'
  BY DEF With, Numbered, Single, Handled, Owned, OneOutcome
<1>2. \A t, u \in Task, r \in Sub \ again :
        job[t] = r /\ phase'[t] \in Body /\ job[u] = r /\ phase'[u] \in Body => t = u
  BY NoBody DEF With
<1>3. RunningIsTrue'
  BY <1>2 DEF With, RunningIsTrue, InBody
<1> QED BY <1>1, <1>3 DEF Tables

\* What kill_subagent makes of the tables.
LEMMA KillWith ==
    ASSUME TypeOK, Tables, NEW s \in Sub, Killable(s), NEW q \in Cancelled(phase[handle[s]])
    PROVE  With(registered \ {s}, running \ {s}, [handle EXCEPT ![s] = None],
                [phase EXCEPT ![handle[s]] = q], killed \cup {s})
<1> DEFINE t == handle[s]
           h == [handle EXCEPT ![s] = None]
           ph == [phase EXCEPT ![t] = q]
<1>1. With(registered, running, handle, phase, killed)
  BY TablesWith
<1>2. t \in Task /\ job[t] = s /\ t <= started /\ phase[t] # "ended" /\ phase[t] # "none"
  <2>1. t # None
    BY DEF Killable
  <2>2. t \in Task /\ job[t] = s /\ t <= started
    BY <1>1, <2>1 DEF With
  <2>3. phase[t] # "none"
    BY <1>1, <2>2 DEF With, Task, TypeOK
  <2> QED BY <2>2, <2>3 DEF Killable
<1>3. phase[t] \in Phase
  BY <1>2 DEF TypeOK
<1>4. q \in {"ended"} \cup Unwinding
  BY <1>3, CancelledType
<1>5. q # "none" /\ q # "created" /\ q \notin Body
  BY <1>4, NoBody DEF Unwinding
<1>6. ph[t] = q /\ \A u \in Task : u # t => ph[u] = phase[u]
  BY <1>2 DEF TypeOK
<1>7. h[s] = None /\ \A r \in Sub : r # s => h[r] = handle[r]
  BY DEF TypeOK
<1>8. s \in 1 .. spawned
  BY <1>1, <1>2 DEF With
<1>9. \A u \in Task : u # t /\ phase[u] # "none" /\ job[u] = s => s \in again
  BY <1>1, <1>2 DEF With
<1>10. s \notin again => s \in registered /\ s \notin killed \cup results
  BY <1>1, <1>2, SubagentsAssumption DEF With, Killable
<1>11. \A u \in Task : ph[u] = "none" <=> phase[u] = "none"
  BY <1>2, <1>5, <1>6
<1>12. \A u \in Task : ph[u] \in {"created"} \cup Body => u # t /\ ph[u] = phase[u]
  BY <1>5, <1>6
<1>13. \A r \in Sub : h[r] # None => r # s /\ h[r] = handle[r]
  BY <1>7
<1> HIDE DEF h, ph
<1>14. /\ \A u \in Task : ph[u] = "none" <=> u > started
       /\ \A u \in Task : ph[u] # "none" => job[u] \in 1 .. spawned
       /\ (registered \ {s}) \cup (running \ {s}) \cup results \cup (killed \cup {s}) \cup again \subseteq 1 .. spawned
       /\ \A r \in Sub : h[r] # None => h[r] \in Task /\ h[r] <= started /\ job[h[r]] = r
       /\ \A v, u \in Task :
            ph[v] # "none" /\ ph[u] # "none" /\ job[v] = job[u] /\ job[v] \notin again => v = u
  BY <1>1, <1>8, <1>11, <1>13 DEF With
<1>15. \A u \in Task : ph[u] \in {"created"} \cup Body /\ job[u] \notin again => h[job[u]] = u
  <2> SUFFICES ASSUME NEW u \in Task, ph[u] \in {"created"} \cup Body, job[u] \notin again
               PROVE  h[job[u]] = u
    OBVIOUS
  <2>1. u # t /\ phase[u] = ph[u] /\ phase[u] # "none"
    BY <1>12, NoBody
  <2>2. job[u] # s
    BY <1>9, <2>1
  <2>3. job[u] \in Sub
    BY <1>1, <2>1, SubagentsAssumption DEF With, TypeOK, Sub
  <2> QED BY <1>1, <1>7, <2>1, <2>2, <2>3 DEF With
<1>16. /\ \A r \in Sub \ again : h[r] # None => r \in registered \ {s}
       /\ (1 .. spawned) \ again \subseteq (registered \ {s}) \cup (killed \cup {s}) \cup results
       /\ ((registered \ {s}) \cap (killed \cup {s})) \cup ((killed \cup {s}) \cap results)
            \cup (results \cap (registered \ {s})) \subseteq again
  BY <1>1, <1>10, <1>13 DEF With
<1>17. ASSUME NEW r \in Sub \ again
       PROVE  /\ r \in running \ {s} <=> \E u \in Task : job[u] = r /\ ph[u] \in Body
              /\ r \in running \ {s} => h[r] # None /\ job[h[r]] = r /\ ph[h[r]] \in Body
  <2>1. CASE r = s
    <3>1. \A u \in Task : job[u] = r => ph[u] \notin Body
      BY <2>1, <1>9, <1>12, NoBody
    <3> QED BY <2>1, <3>1
  <2>2. CASE r # s
    <3>1. \A u \in Task : job[u] = r => ph[u] = phase[u]
      BY <1>2, <1>6, <2>2
    <3>2. h[r] = handle[r] /\ (handle[r] # None => handle[r] \in Task)
      BY <1>1, <1>7, <2>2 DEF With
    <3> QED BY <1>1, <2>2, <3>1, <3>2 DEF With
  <2> QED BY <2>1, <2>2
<1> QED BY <1>14, <1>15, <1>16, <1>17 DEF With, h, ph

\* A spawn on top of tables that are as they should be.
LEMMA NewSubTables ==
    ASSUME TypeOK, NEW p \in Task \cup {Chat, None}, NEW f \in BOOLEAN,
           NEW handles \in [Sub -> Task \cup {None}],
           NEW phases \in [Task -> Phase], NEW kept \in SUBSET Sub,
           With(kept, running', handles, phases, killed'),
           NewSub(p, f, handles, phases, kept), UNCHANGED <<results, again>>
    PROVE  Tables'
<1> DEFINE s == spawned + 1
           t == started + 1
<1>1. /\ spawned \in Nat /\ started \in Nat /\ s \in Sub /\ t \in Task
      /\ s \notin 1 .. spawned /\ 1 .. spawned \subseteq 1 .. s /\ s \in 1 .. s
  BY SubagentsAssumption DEF NewSub, NewTask, TypeOK, Sub, Task
<1>2. /\ spawned' = s /\ registered' = kept \cup {s} /\ started' = t
      /\ handle' = [handles EXCEPT ![s] = t] /\ job' = [job EXCEPT ![t] = s]
      /\ phase' = [phases EXCEPT ![t] = "created"]
  BY DEF NewSub, NewTask
<1>3. /\ handle'[s] = t /\ \A r \in Sub : r # s => handle'[r] = handles[r]
      /\ job'[t] = s /\ \A u \in Task : u # t => job'[u] = job[u]
      /\ phase'[t] = "created" /\ \A u \in Task : u # t => phase'[u] = phases[u]
  BY <1>1, <1>2 DEF TypeOK
<1>4. phases[t] = "none"
  BY <1>1 DEF With
<1>5. \A u \in Task : u <= t <=> u <= started \/ u = t
  BY <1>1 DEF Task
<1>6. t # None
  BY <1>1, SubagentsAssumption
<1> HIDE DEF s, t
<1>7. Numbered'
  <2>1. \A u \in Task : phase'[u] = "none" <=> u > started'
    <3> SUFFICES ASSUME NEW u \in Task PROVE phase'[u] = "none" <=> u > t
      BY <1>2
    <3>1. CASE u = t
      <4>1. ~ (t > t)
        BY <1>1 DEF Task
      <4> QED BY <3>1, <4>1, <1>3
    <3>2. CASE u # t
      <4>1. u > t <=> u > started
        BY <3>2, <1>1 DEF t, Task
      <4> QED BY <3>2, <4>1, <1>3 DEF With
    <3> QED BY <3>1, <3>2
  <2>2. \A u \in Task : phase'[u] # "none" => job'[u] \in 1 .. s
    BY <1>1, <1>3 DEF With
  <2>3. (registered \cup running \cup results \cup killed \cup again)' \subseteq 1 .. s
    BY <1>1, <1>2 DEF With
  <2>4. \A r \in Sub : handle'[r] # None => handle'[r] <= t /\ job'[handle'[r]] = r
    <3> SUFFICES ASSUME NEW r \in Sub, handle'[r] # None
                 PROVE  handle'[r] <= t /\ job'[handle'[r]] = r
      OBVIOUS
    <3>1. CASE r = s
      BY <3>1, <1>1, <1>3 DEF t
    <3>2. CASE r # s
      <4>1. handles[r] \in Task /\ handles[r] <= started /\ job[handles[r]] = r /\ handle'[r] = handles[r]
        BY <3>2, <1>3 DEF With
      <4>2. handles[r] # t
        BY <4>1, <1>1 DEF t
      <4> QED BY <4>1, <4>2, <1>1, <1>3 DEF t, Task
    <3> QED BY <3>1, <3>2
  <2> QED BY <1>2, <2>1, <2>2, <2>3, <2>4 DEF Numbered
<1>8. \A u \in Task : u # t /\ phase'[u] # "none" => job'[u] # s
  BY <1>1, <1>3 DEF With
<1>9. s \notin again /\ again' = again
  BY <1>1 DEF With
<1>10. Single'
  BY <1>3, <1>8, <1>9 DEF Single, With
<1>11. Handled'
  <2> SUFFICES ASSUME NEW u \in Task, phase'[u] \in {"created"} \cup Body, job'[u] \notin again
               PROVE  handle'[job'[u]] = u
    BY <1>9 DEF Handled
  <2>1. CASE u = t
    BY <2>1, <1>3
  <2>2. CASE u # t
    <3>1. job'[u] # s /\ job'[u] = job[u] /\ phase'[u] = phases[u] /\ phases[u] # "none"
      BY <2>2, <1>3, <1>8, NoBody
    <3>2. job[u] \in Sub
      BY <3>1, SubagentsAssumption DEF With, TypeOK, Sub
    <3> QED BY <3>1, <3>2, <1>3 DEF With
  <2> QED BY <2>1, <2>2
<1>12. Owned'
  BY <1>2, <1>3, <1>9 DEF Owned, With
<1>13. OneOutcome'
  <2>1. (1 .. s) = (1 .. spawned) \cup {s}
    BY <1>1 DEF s
  <2>2. s \notin killed' \cup results
    BY <1>1 DEF With
  <2> QED BY <1>2, <1>9, <2>1, <2>2 DEF OneOutcome, With
<1>14. RunningIsTrue'
  <2> SUFFICES ASSUME NEW r \in Sub \ again
               PROVE  /\ r \in running' <=> \E u \in Task : InBody(u, r)'
                      /\ r \in running' => handle'[r] # None /\ InBody(handle[r], r)'
                      /\ \A u, v \in Task : InBody(u, r)' /\ InBody(v, r)' => u = v
    BY <1>9 DEF RunningIsTrue
  <2>1. \A u \in Task : InBody(u, r)' <=> job[u] = r /\ phases[u] \in Body
    BY <1>3, <1>4, NoBody DEF InBody
  <2>2. \A u, v \in Task : InBody(u, r)' /\ InBody(v, r)' => u = v
    BY <2>1, NoBody DEF With
  <2>3. ASSUME r \in running' PROVE handle'[r] # None /\ InBody(handle[r], r)'
    <3>1. r # s
      BY <2>3, <1>1 DEF With
    <3>2. handle'[r] = handles[r] /\ handles[r] \in Task
      BY <2>3, <3>1, <1>3 DEF With
    <3>3. handles[r] # None /\ job[handles[r]] = r /\ phases[handles[r]] \in Body
      BY <2>3 DEF With
    <3>4. handles[r] # t
      BY <3>3, <1>4, NoBody
    <3> QED BY <3>2, <3>3, <3>4, <1>3 DEF InBody
  <2> QED BY <2>1, <2>2, <2>3 DEF With
<1> QED BY <1>7, <1>10, <1>11, <1>12, <1>13, <1>14 DEF Tables

\* The same subagent again: nothing is claimed of it any more.
LEMMA RunNowTables ==
    ASSUME TypeOK, Tables, NEW s \in Sub, RunNow(s)
    PROVE  Tables'
<1> DEFINE t == started + 1
<1>1. /\ started \in Nat /\ t \in Task /\ s \in 1 .. spawned
  BY SubagentsAssumption DEF RunNow, NewTask, TypeOK, Task, Tables, Numbered
<1>2. /\ started' = t /\ again' = again \cup {s}
      /\ handle' = [handle EXCEPT ![s] = t] /\ job' = [job EXCEPT ![t] = s]
      /\ phase' = [phase EXCEPT ![t] = "created"]
      /\ UNCHANGED <<spawned, registered, running, results, killed>>
  BY DEF RunNow, NewTask
<1>3. /\ handle'[s] = t /\ \A r \in Sub : r # s => handle'[r] = handle[r]
      /\ job'[t] = s /\ \A u \in Task : u # t => job'[u] = job[u]
      /\ phase'[t] = "created" /\ \A u \in Task : u # t => phase'[u] = phase[u]
  BY <1>1, <1>2 DEF TypeOK
<1>4. phase[t] = "none" /\ t # None
  BY <1>1, SubagentsAssumption DEF Tables, Numbered
<1>5. \A r \in Sub : handle[r] # None => handle[r] \in Task /\ handle[r] # t /\ job[handle[r]] = r /\ handle[r] <= t
  BY <1>1 DEF Tables, Numbered, TypeOK, Task
<1>6. \A u \in Task : u > t <=> u > started /\ u # t
  BY <1>1 DEF Task
<1>7. t <= t
  BY <1>1
<1> HIDE DEF t
<1>8. Numbered'
  <2>1. \A u \in Task : phase'[u] = "none" <=> u > t
    BY <1>3, <1>4, <1>6 DEF Tables, Numbered
  <2>2. \A u \in Task : phase'[u] # "none" => job'[u] \in 1 .. spawned
    BY <1>1, <1>3 DEF Tables, Numbered
  <2>3. (registered \cup running \cup results \cup killed \cup again)' \subseteq 1 .. spawned
    BY <1>1, <1>2 DEF Tables, Numbered
  <2>4. \A r \in Sub : handle'[r] # None => handle'[r] <= t /\ job'[handle'[r]] = r
    BY <1>3, <1>5, <1>7
  <2> QED BY <1>2, <2>1, <2>2, <2>3, <2>4 DEF Numbered
<1>9. Single' /\ Owned' /\ OneOutcome'
  BY <1>2, <1>3 DEF Tables, Single, Owned, OneOutcome
<1>10. Handled'
  <2> SUFFICES ASSUME NEW u \in Task, phase'[u] \in {"created"} \cup Body, job'[u] \notin again'
               PROVE  handle'[job'[u]] = u
    BY DEF Handled
  <2>1. u # t /\ job'[u] = job[u] /\ job[u] # s /\ phase'[u] = phase[u] /\ phase[u] # "none"
    BY <1>2, <1>3, NoBody
  <2>2. job[u] \in Sub
    BY <2>1, SubagentsAssumption DEF Tables, Numbered, TypeOK, Sub
  <2> QED BY <1>2, <1>3, <2>1, <2>2 DEF Tables, Handled
<1>11. RunningIsTrue'
  <2> SUFFICES ASSUME NEW r \in Sub \ again'
               PROVE  /\ r \in running' <=> \E u \in Task : InBody(u, r)'
                      /\ r \in running' => handle'[r] # None /\ InBody(handle[r], r)'
                      /\ \A u, v \in Task : InBody(u, r)' /\ InBody(v, r)' => u = v
    BY DEF RunningIsTrue
  <2>1. r \in Sub \ again /\ r # s
    BY <1>2
  <2>2. \A u \in Task : InBody(u, r)' <=> InBody(u, r)
    BY <1>3, <1>4, <2>1, NoBody DEF InBody
  <2>3. r \in running => handle[r] # None /\ handle[r] \in Task /\ InBody(handle[r], r)'
    BY <1>3, <1>5, <2>1, <2>2 DEF Tables, RunningIsTrue, InBody
  <2> QED BY <1>2, <2>1, <2>2, <2>3 DEF Tables, RunningIsTrue
<1> QED BY <1>8, <1>9, <1>10, <1>11 DEF Tables

\* The first step of a task: it is marked, or it finds the mark set.
LEMMA BeginTables ==
    ASSUME TypeOK, Tables, NEW t \in Task, Begin(t)
    PROVE  Tables'
<1> DEFINE s == job[t]
<1>1. /\ phase[t] = "created"
      /\ UNCHANGED <<spawned, started, registered, handle, results, job, killed, again>>
      /\ s \in 1 .. spawned /\ s \in Sub
  BY SubagentsAssumption DEF Begin, requests, past, Tables, Numbered, TypeOK, Sub
<1>2. s \notin again => /\ handle[s] = t
                        /\ \A u \in Task : phase[u] # "none" /\ job[u] = s => u = t
  BY <1>1, Held
<1>a. \/ phase' = [phase EXCEPT ![t] = "ended"] /\ s \in running /\ running' = running
      \/ phase' = [phase EXCEPT ![t] = "opening"] /\ s \notin running /\ running' = running \cup {s}
  <2>1. CASE s \in running
    BY <2>1 DEF Begin
  <2>2. CASE s \notin running
    BY <2>2 DEF Begin
  <2> QED BY <2>1, <2>2
<1>b. \E q \in {"ended", "opening"} :
        /\ phase' = [phase EXCEPT ![t] = q]
        /\ q = "ended" => s \in running /\ running' = running
        /\ q = "opening" => s \notin running /\ running' = running \cup {s}
  BY <1>a
<1>4. PICK q \in {"ended", "opening"} :
        /\ phase' = [phase EXCEPT ![t] = q]
        /\ q = "ended" => s \in running /\ running' = running
        /\ q = "opening" => s \notin running /\ running' = running \cup {s}
  BY <1>b
<1>5. \A u \in Task : phase'[u] = IF u = t THEN q ELSE phase[u]
  BY <1>4 DEF TypeOK
<1>6. "opening" \in Body /\ q # "none" /\ q # "created"
  BY <1>4 DEF Body
<1>7. Numbered'
  <2>1. running' \subseteq 1 .. spawned
    BY <1>1, <1>4 DEF Tables, Numbered
  <2> QED BY <1>1, <1>5, <1>6, <2>1 DEF Tables, Numbered
<1>8. Single' /\ Owned' /\ OneOutcome'
  BY <1>1, <1>5 DEF Tables, Single, Owned, OneOutcome
<1>9. Handled'
  BY <1>1, <1>2, <1>5 DEF Tables, Handled
<1>10. RunningIsTrue'
  <2> SUFFICES ASSUME NEW r \in Sub \ again
               PROVE  /\ r \in running' <=> \E u \in Task : InBody(u, r)'
                      /\ r \in running' => handle'[r] # None /\ InBody(handle[r], r)'
                      /\ \A u, v \in Task : InBody(u, r)' /\ InBody(v, r)' => u = v
    BY <1>1 DEF RunningIsTrue
  <2>1. /\ r \in running <=> \E u \in Task : InBody(u, r)
        /\ r \in running => handle[r] # None /\ InBody(handle[r], r)
        /\ \A u, v \in Task : InBody(u, r) /\ InBody(v, r) => u = v
    BY DEF Tables, RunningIsTrue
  <2>2. handle[r] # None => handle[r] \in Task
    BY DEF TypeOK
  <2>3. ~ InBody(t, r)
    BY <1>1, NoBody DEF InBody
  <2>4. CASE r # s \/ q = "ended"
    <3>1. \A u \in Task : InBody(u, r)' <=> InBody(u, r)
      BY <1>1, <1>5, <2>3, <2>4, NoBody DEF InBody
    <3>2. r \in running' <=> r \in running
      BY <1>4, <2>4
    <3>3. r \in running => InBody(handle[r], r)'
      BY <1>1, <2>1, <2>2, <3>1 DEF InBody
    <3> QED BY <1>1, <2>1, <3>1, <3>2, <3>3
  <2>5. CASE r = s /\ q = "opening"
    <3>1. \A u \in Task : InBody(u, r)' <=> u = t
      BY <1>1, <1>2, <1>5, <1>6, <2>5, NoBody DEF InBody
    <3>2. handle'[r] = t /\ t # None /\ r \in running'
      BY <1>1, <1>2, <1>4, <2>5, SubagentsAssumption
    <3>3. InBody(handle[r], r)'
      BY <3>1, <3>2 DEF InBody
    <3> QED BY <3>1, <3>2, <3>3
  <2> QED BY <1>4, <2>4, <2>5
<1> QED BY <1>7, <1>8, <1>9, <1>10 DEF Tables

\* Every step keeps the tables.
LEMMA TablesNext ==
    ASSUME TypeOK, Following, Tables, [Next]_vars
    PROVE  Tables'
<1> USE DEF ledger
<1>1. CASE Spawn
  <2>1. PICK p \in {Chat} \cup Task, f \in BOOLEAN : NewSub(p, f, handle, phase, registered)
    BY <1>1 DEF Spawn
  <2>2. /\ handle \in [Sub -> Task \cup {None}] /\ phase \in [Task -> Phase]
        /\ registered \in SUBSET Sub /\ p \in Task \cup {Chat, None}
    BY DEF TypeOK
  <2>3. running' = running /\ killed' = killed /\ UNCHANGED <<results, again>>
    BY <1>1 DEF Spawn, past
  <2>4. With(registered, running', handle, phase, killed')
    BY <2>3, TablesWith
  <2> QED BY <2>1, <2>2, <2>3, <2>4, NewSubTables
<1>2. CASE CloseChat
  BY <1>2, TablesStay DEF CloseChat, registry, requests, execution, past
<1>3. ASSUME NEW s \in Sub, RunNow(s) PROVE Tables'
  BY <1>3, RunNowTables
<1>4. ASSUME NEW s \in Sub, Kill(s) PROVE Tables'
  <2>1. PICK p \in Cancelled(phase[handle[s]]) : phase' = [phase EXCEPT ![handle[s]] = p]
    BY <1>4 DEF Kill
  <2>2. /\ Killable(s) /\ registered' = registered \ {s} /\ running' = running \ {s}
        /\ handle' = [handle EXCEPT ![s] = None] /\ killed' = killed \cup {s}
        /\ UNCHANGED <<spawned, started, job, results, again>>
    BY <1>4 DEF Kill, KillSteps, requests
  <2>3. With(registered', running', handle', phase', killed')
    BY <2>1, <2>2, KillWith
  <2> QED BY <2>2, <2>3, WithTables
<1>5. ASSUME NEW s \in Sub, Interrupt(s) PROVE Tables'
  <2>0. parent[s] \in Task \cup {Chat, None} /\ FALSE \in BOOLEAN /\ UNCHANGED <<results, again>>
    BY <1>5 DEF TypeOK, Interrupt
  <2>1. CASE Killable(s)
    <3>1. PICK p \in Cancelled(phase[handle[s]]) :
             NewSub(parent[s], FALSE, [handle EXCEPT ![s] = None],
                    [phase EXCEPT ![handle[s]] = p], registered \ {s})
      BY <1>5, <2>1 DEF Interrupt
    <3>2. running' = running \ {s} /\ killed' = killed \cup {s}
      BY <1>5, <2>1 DEF Interrupt, KillSteps
    <3>3. With(registered \ {s}, running', [handle EXCEPT ![s] = None],
               [phase EXCEPT ![handle[s]] = p], killed')
      BY <2>1, <3>1, <3>2, KillWith
    <3>4. handle[s] \in Task /\ phase[handle[s]] \in Phase
      BY <2>1 DEF Killable, TypeOK
    <3>5. p \in Phase
      BY <3>1, <3>4, CancelledType
    <3>6. /\ [handle EXCEPT ![s] = None] \in [Sub -> Task \cup {None}]
          /\ [phase EXCEPT ![handle[s]] = p] \in [Task -> Phase]
          /\ registered \ {s} \in SUBSET Sub
      BY <3>5 DEF TypeOK
    <3> QED BY <2>0, <3>1, <3>3, <3>6, NewSubTables
  <2>2. CASE ~ Killable(s)
    <3>1. NewSub(parent[s], FALSE, handle, phase, registered) /\ running' = running /\ killed' = killed
      BY <1>5, <2>2 DEF Interrupt
    <3>2. With(registered, running', handle, phase, killed')
      BY <3>1, TablesWith
    <3>3. /\ handle \in [Sub -> Task \cup {None}] /\ phase \in [Task -> Phase]
          /\ registered \in SUBSET Sub
      BY DEF TypeOK
    <3> QED BY <2>0, <3>1, <3>2, <3>3, NewSubTables
  <2> QED BY <2>1, <2>2
<1>6. ASSUME NEW s \in Sub, NEW m \in Msg, Send(s, m) PROVE Tables'
  BY <1>6, TablesStay DEF Send, registry, requests, execution, past
<1>7. ASSUME NEW t \in Task, Begin(t) PROVE Tables'
  BY <1>7, BeginTables
<1>8. ASSUME NEW t \in Task, phase[t] \in Body, phase'[t] \in Body, phase' \in [Task -> Phase],
             \A u \in Task : u # t => phase'[u] = phase[u], UNCHANGED ledger
      PROVE  Tables'
  <2>1. phase' = [phase EXCEPT ![t] = phase'[t]]
    BY <1>8 DEF TypeOK
  <2> QED BY <1>8, <2>1, TablesMove
<1>9. "opening" \in Body /\ InTurn \subseteq Body /\ Suspended \subseteq Body /\ Cleaning \subseteq Body
      /\ {"turn", "timing", "failing", "followup", "delivering", "evicting"} \subseteq Body
  BY DEF Body, Suspended, InTurn, Cleaning
<1>10. ASSUME NEW t \in Task, FailRun(t), phase[t] \in Body PROVE Tables'
  <2>1. Finally(t, batch[t]) /\ UNCHANGED <<registered, results>>
    BY <1>10 DEF FailRun
  <2> QED BY <1>10, <2>1, TablesFinally
<1>11. ASSUME NEW t \in Task, Open(t) PROVE Tables'
  <2>1. phase' = [phase EXCEPT ![t] = "turn"] /\ phase[t] = "opening" /\ UNCHANGED ledger
    BY <1>11 DEF Open, registry, requests, past
  <2> QED BY <1>9, <2>1, TablesMove
<1>12. ASSUME NEW t \in Task, TurnEnds(t) PROVE Tables'
  <2>1. phase[t] = "turn" /\ UNCHANGED ledger
    BY <1>12 DEF TurnEnds, registry, requests, past
  <2>2. PICK a \in {"task", None} : Proceed(t, queue[job[t]], a)
    BY <1>12 DEF TurnEnds
  <2>3. phase'[t] \in Body /\ phase' \in [Task -> Phase] /\ \A u \in Task : u # t => phase'[u] = phase[u]
    <3>1. job[t] \in Sub
      BY <2>1, SubagentsAssumption DEF Tables, Numbered, TypeOK, Sub
    <3>2. queue[job[t]] \in Seq(Msg) /\ a \in Answer \cup {None}
      BY <2>2, <3>1 DEF TypeOK, Answer
    <3> QED BY <1>9, <2>2, <3>2, ProceedType
  <2> QED BY <1>8, <1>9, <2>1, <2>3
<1>13. ASSUME NEW t \in Task, TurnRaises(t) PROVE Tables'
  <2>1. phase' = [phase EXCEPT ![t] = "failing"] /\ phase[t] = "turn" /\ UNCHANGED ledger
    BY <1>13 DEF TurnRaises, registry, requests, past
  <2> QED BY <1>9, <2>1, TablesMove
<1>14. ASSUME NEW t \in Task, FollowUpEnds(t) PROVE Tables'
  <2>1. phase[t] = "followup" /\ UNCHANGED ledger
    BY <1>14 DEF FollowUpEnds, registry, requests, past
  <2>2. /\ Head(batch[t]) \in Msg /\ Tail(batch[t]) \in Seq(Msg)
    BY <2>1 DEF Following, TypeOK
  <2>3. PICK a \in {Head(batch[t]), None} :
          IF a # None /\ Deliverable(job[t])
          THEN /\ phase' = [phase EXCEPT ![t] = "delivering"]
               /\ answer' = [answer EXCEPT ![t] = a]
               /\ UNCHANGED batch
          ELSE Proceed(t, Tail(batch[t]), a)
    BY <1>14 DEF FollowUpEnds
  <2>4. CASE a # None /\ Deliverable(job[t])
    <3>1. phase' = [phase EXCEPT ![t] = "delivering"]
      BY <2>3, <2>4
    <3> QED BY <1>9, <2>1, <3>1, TablesMove
  <2>5. CASE ~ (a # None /\ Deliverable(job[t]))
    <3>1. Proceed(t, Tail(batch[t]), a) /\ a \in Answer \cup {None}
      BY <2>2, <2>3, <2>5 DEF Answer
    <3>2. phase'[t] \in Body /\ phase' \in [Task -> Phase] /\ \A u \in Task : u # t => phase'[u] = phase[u]
      BY <1>9, <2>2, <3>1, ProceedType
    <3> QED BY <1>8, <1>9, <2>1, <3>2
  <2> QED BY <2>4, <2>5
<1>15. ASSUME NEW t \in Task, FollowUpRaises(t) PROVE Tables'
  <2>1. phase[t] = "followup" /\ UNCHANGED ledger
    BY <1>15 DEF FollowUpRaises, registry, requests, past
  <2>2. Tail(batch[t]) \in Seq(Msg) /\ answer[t] \in Answer \cup {None}
    BY <2>1 DEF Following, TypeOK
  <2>3. Proceed(t, Tail(batch[t]), answer[t])
    BY <1>15 DEF FollowUpRaises
  <2>4. phase'[t] \in Body /\ phase' \in [Task -> Phase] /\ \A u \in Task : u # t => phase'[u] = phase[u]
    BY <1>9, <2>2, <2>3, ProceedType
  <2> QED BY <1>8, <1>9, <2>1, <2>4
<1>16. ASSUME NEW t \in Task, Deliver(t) \/ DeliveryRaises(t) PROVE Tables'
  <2>1. phase[t] = "delivering" /\ UNCHANGED ledger /\ Delivered(t)
    BY <1>16 DEF Deliver, DeliveryRaises, registry, requests, past
  <2>2. phase'[t] \in Body /\ phase' \in [Task -> Phase] /\ \A u \in Task : u # t => phase'[u] = phase[u]
    BY <1>9, <2>1, DeliveredType
  <2> QED BY <1>8, <1>9, <2>1, <2>2
<1>17. ASSUME NEW t \in Task, Complete(t) PROVE Tables'
  <2>1. /\ phase[t] = "evicting" /\ Finally(t, <<>>)
        /\ registered' = registered \ {job[t]} /\ results' = results \cup {job[t]}
    BY <1>17 DEF Complete
  <2> QED BY <1>9, <2>1, TablesFinally
<1>18. ASSUME NEW t \in Task, Timeout(t) PROVE Tables'
  <2>1. CASE /\ phase[t] \in Suspended /\ phase' = [phase EXCEPT ![t] = "timing"]
             /\ UNCHANGED <<registry, requests, batch, answer, outside, mail, sessions, past>>
    <3>1. UNCHANGED ledger
      BY <2>1 DEF registry, requests, past
    <3> QED BY <1>9, <2>1, <3>1, TablesMove
  <2>2. CASE phase[t] \in Cleaning \cup {"opening"} /\ FailRun(t)
    BY <1>9, <1>10, <2>2
  <2> QED BY <1>18, <2>1, <2>2 DEF Timeout
<1>19. ASSUME NEW t \in Task, Unwind(t) PROVE Tables'
  <2>1. phase[t] \in Unwinding /\ Finally(t, batch[t]) /\ UNCHANGED <<registered, results>>
    BY <1>19 DEF Unwind
  <2> QED BY <2>1, TablesFinally
<1>20. CASE UNCHANGED vars
  BY <1>20, TablesStay DEF vars, registry, requests, execution, past
<1>21. ASSUME NEW t \in Task, Run(t) PROVE Tables'
  <2>1. CASE OpenFails(t) \/ Fail(t) \/ TimedOut(t)
    BY <1>9, <1>10, <2>1 DEF OpenFails, Fail, TimedOut
  <2> QED
    BY <1>21, <2>1, <1>7, <1>11, <1>12, <1>13, <1>14, <1>15, <1>16, <1>17, <1>18, <1>19 DEF Run
<1> QED
  BY <1>1, <1>2, <1>3, <1>4, <1>5, <1>6, <1>20, <1>21 DEF Next

\* In the beginning there are no subagents.
LEMMA InitIInv == Init => IInv
<1> SUFFICES ASSUME Init PROVE IInv
  OBVIOUS
<1>1. TypeOK
  <2>1. <<>> \in Seq(Msg) /\ <<>> \in Seq(Answer)
    OBVIOUS
  <2> QED BY <2>1, SubagentsAssumption DEF Init, TypeOK, Status, Phase, Fate
<1>2. Following
  BY DEF Init, Following
<1>3. \A t \in Task : t > 0
  BY SubagentsAssumption DEF Task
<1>4. 1 .. 0 = {}
  OBVIOUS
<1>5. Tables
  BY <1>3, <1>4, NoBody DEF Init, Tables, Numbered, Single, Handled, Owned, OneOutcome, RunningIsTrue, InBody
<1> QED BY <1>1, <1>2, <1>5 DEF IInv

\* The invariant is inductive.
THEOREM Inductive == Spec => []IInv
<1>1. IInv /\ [Next]_vars => IInv'
  BY TypeNext, TablesNext DEF IInv, Tables
<1> QED BY InitIInv, <1>1, PTL DEF Spec

\* The variables of JobScheduler and of the executor keep their types.
THEOREM TypeCorrect == Spec => []TypeOK
<1>1. IInv => TypeOK
  BY DEF IInv
<1> QED BY Inductive, <1>1, PTL

\* What _running_jobs says is running is running, once, and its handle is in
\* _running_tasks for kill_subagent to find.
THEOREM RunningIsRight == Spec => []RunningIsTrue
<1>1. IInv => RunningIsTrue
  BY DEF IInv, Tables
<1> QED BY Inductive, <1>1, PTL

\* A subagent is registered, or was killed, or its answer is cached: never two
\* of these and never none.
THEOREM OutcomeIsOne == Spec => []OneOutcome
<1>1. IInv => OneOutcome
  BY DEF IInv, Tables
<1> QED BY Inductive, <1>1, PTL

\* A step delivers nothing of a killed subagent and caches no answer of it:
\* its task has left the body of the run, and nothing brings it back.
LEMMA QuietStep ==
    ASSUME IInv, [Next]_vars, NEW s \in killed \ again
    PROVE  told'[s] = told[s] /\ (s \in results' => s \in results)
<1> USE DEF IInv
<1>1. ASSUME NEW t \in Task, phase[t] \in Body PROVE job[t] # s
  <2> SUFFICES ASSUME job[t] = s PROVE FALSE
    OBVIOUS
  <2>1. job[t] \notin again /\ job[t] \in killed /\ phase[t] \in {"created"} \cup Body
    BY <1>1
  <2> QED BY <2>1, Held
<1>2. s \in Sub
  BY DEF TypeOK
<1>3. "delivering" \in Body /\ "evicting" \in Body
  BY DEF Body, Suspended, Cleaning
<1>4. CASE \E t \in Task : Deliver(t)
  <2>1. PICK t \in Task : Deliver(t)
    BY <1>4
  <2>2. job[t] # s /\ told' = [told EXCEPT ![job[t]] = Append(@, answer[t])] /\ results' = results
    BY <1>1, <1>3, <2>1 DEF Deliver, registry
  <2> QED BY <1>2, <2>2 DEF TypeOK
<1>5. CASE \E t \in Task : Complete(t)
  BY <1>1, <1>3, <1>5 DEF Complete, Finally, outside
<1>6. CASE UNCHANGED <<told, results>>
  BY <1>6
<1>7. ASSUME NEW t \in Task, Run(t), ~ Deliver(t), ~ Complete(t)
      PROVE  UNCHANGED <<told, results>>
  <2>1. FailRun(t) => UNCHANGED <<told, results>>
    BY DEF FailRun, Finally, outside
  <2>2. Timeout(t) => UNCHANGED <<told, results>>
    BY <2>1 DEF Timeout, registry, outside
  <2>3. Unwind(t) => UNCHANGED <<told, results>>
    BY DEF Unwind, Finally, outside
  <2>4. OpenFails(t) \/ Fail(t) \/ TimedOut(t) => UNCHANGED <<told, results>>
    BY <2>1 DEF OpenFails, Fail, TimedOut
  <2>5. Begin(t) \/ Open(t) \/ TurnEnds(t) \/ TurnRaises(t) => UNCHANGED <<told, results>>
    BY DEF Begin, Open, TurnEnds, TurnRaises, registry, outside
  <2>6. FollowUpEnds(t) \/ FollowUpRaises(t) \/ DeliveryRaises(t) => UNCHANGED <<told, results>>
    BY DEF FollowUpEnds, FollowUpRaises, DeliveryRaises, registry, outside
  <2> QED BY <1>7, <2>2, <2>3, <2>4, <2>5, <2>6 DEF Run
<1>8. Spawn \/ CloseChat => UNCHANGED <<told, results>>
  BY DEF Spawn, CloseChat, registry, outside
<1>9. \A r \in Sub : RunNow(r) \/ Kill(r) \/ Interrupt(r) => UNCHANGED <<told, results>>
  BY DEF RunNow, Kill, Interrupt, outside
<1>10. \A r \in Sub, m \in Msg : Send(r, m) => UNCHANGED <<told, results>>
  BY DEF Send, registry, outside
<1>11. UNCHANGED vars => UNCHANGED <<told, results>>
  BY DEF vars, registry, outside
<1> QED BY <1>4, <1>5, <1>6, <1>7, <1>8, <1>9, <1>10, <1>11 DEF Next

\* A killed subagent is quiet.
THEOREM KilledStaysQuiet == Spec => KilledIsQuiet
<1>1. IInv /\ [Next]_vars
      => [\A s \in killed \ again : /\ told'[s] = told[s]
                                    /\ s \in results' => s \in results]_vars
  BY QuietStep
<1> QED BY Inductive, <1>1, PTL DEF Spec, KilledIsQuiet

---------------------------------------------------------------------------
(* The follow-up messages.                                                  *)

Emptied == {"none", "created", "opening", "turn", "evicting", "ended"}

\* A message waits in a queue or is in a batch or neither, a task between its
\* batches has none, and what is being delivered answers the first of a batch.
Sorted ==
    /\ \A s \in Sub : \A m \in Elements(queue[s]) : fate[m] = "queued"
    /\ \A r, s \in Sub : \A m \in Elements(queue[r]) : m \in Elements(queue[s]) => r = s
    /\ \A t \in Task : \A m \in Elements(batch[t]) : fate[m] \notin {"unsent", "queued"}
    /\ \A t \in Task : phase[t] \in Emptied => batch[t] = <<>>
    /\ \A t \in Task : phase[t] = "delivering" /\ batch[t] # <<>> => fate[Head(batch[t])] # "taken"

Mail == Sorted /\ TakenIsServed

\* Steps of tasks that leave the messages where they are.
Calm ==
    /\ \A t \in Task : phase'[t] \in Emptied => phase[t] \in Emptied
    /\ \A t \in Task : phase'[t] = "delivering" => phase[t] = "delivering"
    /\ \A t \in Task : phase[t] \in Body \cup Unwinding /\ batch[t] # <<>>
                         => phase'[t] \in Body \cup Unwinding
    /\ UNCHANGED batch

\* A step that moves tasks and leaves the messages alone keeps Mail.
LEMMA MailStay ==
    ASSUME Mail, Calm, UNCHANGED <<queue, fate>>
    PROVE  Mail'
<1>1. Sorted'
  BY DEF Mail, Sorted, Calm
<1>2. TakenIsServed'
  <2> SUFFICES ASSUME NEW m \in Msg, fate[m] = "taken"
               PROVE  \E t \in Task : phase'[t] \in Body \cup Unwinding /\ m \in Elements(batch'[t])
    BY DEF TakenIsServed
  <2>1. PICK t \in Task : phase[t] \in Body \cup Unwinding /\ m \in Elements(batch[t])
    BY DEF Mail, TakenIsServed
  <2>2. batch[t] # <<>>
    BY <2>1, ElementsEmpty
  <2> QED BY <2>1, <2>2 DEF Calm
<1> QED BY <1>1, <1>2 DEF Mail

\* A queue is thrown away.
LEMMA MailKill ==
    ASSUME TypeOK, Mail, Calm, NEW s \in Sub, KillSteps(s)
    PROVE  Mail'
<1>1. /\ fate' = Drop(fate, queue[s]) /\ queue' = [queue EXCEPT ![s] = <<>>] /\ batch' = batch
  BY DEF KillSteps, Calm
<1>2. \A m \in Msg : fate'[m] = IF m \in Elements(queue[s]) THEN "discarded" ELSE fate[m]
  BY <1>1 DEF Drop
<1>3. \A r \in Sub : queue'[r] = IF r = s THEN <<>> ELSE queue[r]
  BY <1>1 DEF TypeOK
<1>4. \A r \in Sub : Elements(queue[r]) \subseteq Msg
  BY DEF TypeOK, Elements
<1>5. \A t \in Task : Elements(batch[t]) \subseteq Msg /\ batch[t] \in Seq(Msg)
  BY DEF TypeOK, Elements
<1>6. \A r \in Sub : \A m \in Elements(queue'[r]) : fate'[m] = "queued"
  <2> SUFFICES ASSUME NEW r \in Sub, NEW m \in Elements(queue'[r]) PROVE fate'[m] = "queued"
    OBVIOUS
  <2>1. r # s /\ m \in Elements(queue[r])
    BY <1>3, ElementsEmpty
  <2>2. m \in Msg /\ fate[m] = "queued"
    BY <1>4, <2>1 DEF Mail, Sorted
  <2>3. m \notin Elements(queue[s])
    BY <2>1 DEF Mail, Sorted
  <2> QED BY <1>2, <2>2, <2>3
<1>a. \A r, u \in Sub : \A m \in Elements(queue'[r]) : m \in Elements(queue'[u]) => r = u
  BY <1>3, ElementsEmpty DEF Mail, Sorted
<1>b. \A t \in Task : \A m \in Elements(batch'[t]) : fate'[m] \notin {"unsent", "queued"}
  BY <1>1, <1>2, <1>5 DEF Mail, Sorted
<1>c. \A t \in Task : phase'[t] \in Emptied => batch'[t] = <<>>
  BY <1>1 DEF Mail, Sorted, Calm
<1>d. \A t \in Task : phase'[t] = "delivering" /\ batch'[t] # <<>> => fate'[Head(batch'[t])] # "taken"
  BY <1>1, <1>2, <1>5 DEF Mail, Sorted, Calm
<1>7. Sorted'
  BY <1>6, <1>a, <1>b, <1>c, <1>d DEF Sorted
<1>8. TakenIsServed'
  <2> SUFFICES ASSUME NEW m \in Msg, fate'[m] = "taken"
               PROVE  \E t \in Task : phase'[t] \in Body \cup Unwinding /\ m \in Elements(batch'[t])
    BY DEF TakenIsServed
  <2>1. PICK t \in Task : phase[t] \in Body \cup Unwinding /\ m \in Elements(batch[t])
    BY <1>2 DEF Mail, TakenIsServed
  <2>2. batch[t] # <<>>
    BY <2>1, ElementsEmpty
  <2> QED BY <2>1, <2>2 DEF Calm
<1> QED BY <1>7, <1>8 DEF Mail

\* A run ends and throws away the queue and what is left of its batch.
LEMMA MailFinally ==
    ASSUME TypeOK, Mail, NEW t \in Task, job[t] \in Sub, NEW rest \in Seq(Msg), Finally(t, rest),
           Elements(batch[t]) \subseteq Elements(rest),
           \A m \in Elements(rest) : fate[m] \notin {"unsent", "queued"}
    PROVE  Mail'
<1> DEFINE s == job[t]
           q == queue[s] \o rest
<1>1. /\ fate' = Drop(fate, q) /\ queue' = [queue EXCEPT ![s] = <<>>]
      /\ batch' = [batch EXCEPT ![t] = <<>>] /\ phase' = [phase EXCEPT ![t] = "ended"]
  BY DEF Finally
<1>2. Elements(q) = Elements(queue[s]) \cup Elements(rest)
  BY ElementsConcat DEF TypeOK
<1>3. \A m \in Msg : fate'[m] = IF m \in Elements(q) THEN "discarded" ELSE fate[m]
  BY <1>1 DEF Drop
<1>4. \A r \in Sub : /\ queue'[r] = IF r = s THEN <<>> ELSE queue[r]
                     /\ Elements(queue[r]) \subseteq Msg
  BY <1>1 DEF TypeOK, Elements
<1>5. \A u \in Task : /\ batch'[u] = IF u = t THEN <<>> ELSE batch[u]
                      /\ phase'[u] = IF u = t THEN "ended" ELSE phase[u]
                      /\ Elements(batch[u]) \subseteq Msg /\ batch[u] \in Seq(Msg)
  BY <1>1 DEF TypeOK, Elements
<1> HIDE DEF s, q
<1>6. \A r \in Sub : \A m \in Elements(queue'[r]) : fate'[m] = "queued"
  <2> SUFFICES ASSUME NEW r \in Sub, NEW m \in Elements(queue'[r]) PROVE fate'[m] = "queued"
    OBVIOUS
  <2>1. r # s /\ m \in Elements(queue[r]) /\ m \in Msg
    BY <1>4, ElementsEmpty
  <2>2. fate[m] = "queued"
    BY <2>1 DEF Mail, Sorted
  <2>3. m \notin Elements(queue[s])
    BY <2>1 DEF Mail, Sorted, s
  <2> QED BY <1>2, <1>3, <2>1, <2>2, <2>3
<1>7. \A r, u \in Sub : \A m \in Elements(queue'[r]) : m \in Elements(queue'[u]) => r = u
  BY <1>4, ElementsEmpty DEF Mail, Sorted
<1>8. \A u \in Task : \A m \in Elements(batch'[u]) : fate'[m] \notin {"unsent", "queued"}
  BY <1>3, <1>5, ElementsEmpty DEF Mail, Sorted
<1>9. \A u \in Task : phase'[u] \in Emptied => batch'[u] = <<>>
  BY <1>5 DEF Mail, Sorted
<1>10. \A u \in Task : phase'[u] = "delivering" /\ batch'[u] # <<>> => fate'[Head(batch'[u])] # "taken"
  BY <1>3, <1>5 DEF Mail, Sorted
<1>11. TakenIsServed'
  <2> SUFFICES ASSUME NEW m \in Msg, fate'[m] = "taken"
               PROVE  \E u \in Task : phase'[u] \in Body \cup Unwinding /\ m \in Elements(batch'[u])
    BY DEF TakenIsServed
  <2>1. m \notin Elements(q) /\ fate[m] = "taken"
    BY <1>3
  <2>2. PICK u \in Task : phase[u] \in Body \cup Unwinding /\ m \in Elements(batch[u])
    BY <2>1 DEF Mail, TakenIsServed
  <2>3. u # t
    BY <1>2, <2>1, <2>2
  <2> QED BY <1>5, <2>2, <2>3
<1> QED BY <1>6, <1>7, <1>8, <1>9, <1>10, <1>11 DEF Mail, Sorted

\* The first message of a batch has been dealt with and the rest is next.
LEMMA MailNext ==
    ASSUME TypeOK, Mail, NEW t \in Task, phase[t] \in Body, batch[t] # <<>>,
           phase' \in [Task -> Phase], batch' \in [Task -> Seq(Msg)],
           \A u \in Task : u # t => batch'[u] = batch[u] /\ phase'[u] = phase[u],
           phase'[t] \in {"followup", "delivering", "evicting"},
           phase'[t] = "followup" <=> batch'[t] # <<>>,
           batch'[t] = Tail(batch[t]),
           fate' \in [Msg -> Fate], fate'[Head(batch[t])] \notin {"unsent", "queued", "taken"},
           \A m \in Msg : m # Head(batch[t]) => fate'[m] = fate[m],
           UNCHANGED queue
    PROVE  Mail'
<1>1. /\ Head(batch[t]) \in Msg /\ Tail(batch[t]) \in Seq(Msg)
      /\ Elements(batch[t]) = {Head(batch[t])} \cup Elements(Tail(batch[t]))
  BY ElementsTail DEF TypeOK
<1>2. /\ \A r \in Sub : Elements(queue[r]) \subseteq Msg
      /\ \A u \in Task : Elements(batch[u]) \subseteq Msg /\ batch[u] \in Seq(Msg)
  BY DEF TypeOK, Elements
<1>3. fate[Head(batch[t])] # "queued"
  BY <1>1 DEF Mail, Sorted
<1>4. \A r \in Sub : \A m \in Elements(queue'[r]) : fate'[m] = "queued"
  BY <1>1, <1>2, <1>3 DEF Mail, Sorted
<1>5. \A r, u \in Sub : \A m \in Elements(queue'[r]) : m \in Elements(queue'[u]) => r = u
  BY DEF Mail, Sorted
<1>6. \A u \in Task : \A m \in Elements(batch'[u]) : fate'[m] \notin {"unsent", "queued"}
  <2> SUFFICES ASSUME NEW u \in Task, NEW m \in Elements(batch'[u])
               PROVE  fate'[m] \notin {"unsent", "queued"}
    OBVIOUS
  <2>1. m \in Elements(batch[u])
    BY <1>1
  <2> QED BY <1>2, <2>1 DEF Mail, Sorted
<1>7. \A u \in Task : phase'[u] \in Emptied => batch'[u] = <<>>
  BY DEF Mail, Sorted, Emptied
<1>8. \A u \in Task : phase'[u] = "delivering" /\ batch'[u] # <<>> => fate'[Head(batch'[u])] # "taken"
  <2> SUFFICES ASSUME NEW u \in Task, phase'[u] = "delivering", batch'[u] # <<>>
               PROVE  fate'[Head(batch'[u])] # "taken"
    OBVIOUS
  <2>1. u # t /\ phase[u] = "delivering" /\ batch[u] = batch'[u]
    OBVIOUS
  <2>2. Head(batch[u]) \in Msg /\ fate[Head(batch[u])] # "taken"
    BY <1>2, <2>1 DEF Mail, Sorted
  <2> QED BY <2>1, <2>2
<1>9. TakenIsServed'
  <2> SUFFICES ASSUME NEW m \in Msg, fate'[m] = "taken"
               PROVE  \E u \in Task : phase'[u] \in Body \cup Unwinding /\ m \in Elements(batch'[u])
    BY DEF TakenIsServed
  <2>1. m # Head(batch[t]) /\ fate[m] = "taken"
    OBVIOUS
  <2>2. PICK u \in Task : phase[u] \in Body \cup Unwinding /\ m \in Elements(batch[u])
    BY <2>1 DEF Mail, TakenIsServed
  <2>3. m \in Elements(batch'[u])
    BY <1>1, <2>1, <2>2
  <2>4. phase'[t] \in Body
    BY DEF Body, Suspended, InTurn, Cleaning
  <2> QED BY <2>2, <2>3, <2>4
<1> QED BY <1>4, <1>5, <1>6, <1>7, <1>8, <1>9 DEF Mail, Sorted

\* The turn of the task has ended: the queue becomes the batch.
LEMMA MailTurnEnds ==
    ASSUME TypeOK, Mail, NEW t \in Task, job[t] \in Sub, TurnEnds(t)
    PROVE  Mail'
<1> DEFINE q == queue[job[t]]
<1>1. q \in Seq(Msg)
  BY DEF TypeOK
<1>2. PICK a \in {"task", None} : Proceed(t, q, a)
  BY DEF TurnEnds
<1>3. /\ \A u \in Task : u # t => batch'[u] = batch[u] /\ phase'[u] = phase[u]
      /\ phase'[t] \in {"followup", "delivering", "evicting"}
      /\ phase'[t] = "followup" <=> q # <<>>
      /\ batch'[t] = q
  BY <1>1, <1>2, ProceedType DEF Answer
<1>4. \A m \in Msg : fate'[m] = IF m \in Elements(q) THEN "taken" ELSE fate[m]
  BY DEF TurnEnds
<1>5. \A r \in Sub : /\ queue'[r] = IF r = job[t] THEN <<>> ELSE queue[r]
                     /\ Elements(queue[r]) \subseteq Msg
  BY DEF TurnEnds, TypeOK, Elements
<1>6. /\ \A u \in Task : Elements(batch[u]) \subseteq Msg /\ batch[u] \in Seq(Msg)
      /\ batch[t] = <<>>
  BY DEF TurnEnds, TypeOK, Elements, Mail, Sorted, Emptied
<1>7. \A m \in Elements(q) : fate[m] = "queued" /\ m \in Msg
  BY <1>5 DEF Mail, Sorted
<1> HIDE DEF q
<1>8. \A r \in Sub : \A m \in Elements(queue'[r]) : fate'[m] = "queued"
  <2> SUFFICES ASSUME NEW r \in Sub, NEW m \in Elements(queue'[r]) PROVE fate'[m] = "queued"
    OBVIOUS
  <2>1. r # job[t] /\ m \in Elements(queue[r]) /\ m \in Msg
    BY <1>5, ElementsEmpty
  <2>2. m \notin Elements(q)
    BY <2>1 DEF Mail, Sorted, q
  <2> QED BY <1>4, <2>1, <2>2 DEF Mail, Sorted
<1>9. \A r, u \in Sub : \A m \in Elements(queue'[r]) : m \in Elements(queue'[u]) => r = u
  BY <1>5, ElementsEmpty DEF Mail, Sorted
<1>10. \A u \in Task : \A m \in Elements(batch'[u]) : fate'[m] \notin {"unsent", "queued"}
  BY <1>3, <1>4, <1>6, <1>7 DEF Mail, Sorted
<1>11. \A u \in Task : phase'[u] \in Emptied => batch'[u] = <<>>
  BY <1>3 DEF Mail, Sorted, Emptied
<1>12. \A u \in Task : phase'[u] = "delivering" /\ batch'[u] # <<>> => fate'[Head(batch'[u])] # "taken"
  <2> SUFFICES ASSUME NEW u \in Task, phase'[u] = "delivering", batch'[u] # <<>>
               PROVE  fate'[Head(batch'[u])] # "taken"
    OBVIOUS
  <2>1. u # t /\ phase[u] = "delivering" /\ batch[u] = batch'[u]
    BY <1>3
  <2>2. Head(batch[u]) \in Elements(batch[u])
    BY <1>6, <2>1, ElementsTail
  <2>3. Head(batch[u]) \in Msg /\ fate[Head(batch[u])] \notin {"taken", "queued"}
    BY <1>6, <2>1, <2>2 DEF Mail, Sorted
  <2> QED BY <1>4, <1>7, <2>1, <2>3
<1>13. TakenIsServed'
  <2> SUFFICES ASSUME NEW m \in Msg, fate'[m] = "taken"
               PROVE  \E u \in Task : phase'[u] \in Body \cup Unwinding /\ m \in Elements(batch'[u])
    BY DEF TakenIsServed
  <2>1. CASE m \in Elements(q)
    BY <1>3, <2>1 DEF Body, Suspended, InTurn, Cleaning
  <2>2. CASE m \notin Elements(q)
    <3>1. PICK u \in Task : phase[u] \in Body \cup Unwinding /\ m \in Elements(batch[u])
      BY <1>4, <2>2 DEF Mail, TakenIsServed
    <3>2. u # t
      BY <1>6, <3>1, ElementsEmpty
    <3> QED BY <1>3, <3>1, <3>2
  <2> QED BY <2>1, <2>2
<1> QED BY <1>8, <1>9, <1>10, <1>11, <1>12, <1>13 DEF Mail, Sorted

\* A new message is in one queue.
LEMMA MailSend ==
    ASSUME TypeOK, Mail, NEW s \in Sub, NEW m \in Msg, Send(s, m)
    PROVE  Mail'
<1>1. /\ queue' = [queue EXCEPT ![s] = Append(@, m)] /\ fate' = [fate EXCEPT ![m] = "queued"]
      /\ fate[m] = "unsent" /\ UNCHANGED <<phase, batch>>
  BY DEF Send, execution
<1>2. \A r \in Sub : Elements(queue'[r]) = IF r = s THEN Elements(queue[r]) \cup {m} ELSE Elements(queue[r])
  <2>1. queue[s] \in Seq(Msg)
    BY DEF TypeOK
  <2>2. Elements(Append(queue[s], m)) = Elements(queue[s]) \cup {m}
    BY <2>1, ElementsAppend
  <2>3. \A r \in Sub : queue'[r] = IF r = s THEN Append(queue[s], m) ELSE queue[r]
    BY <1>1 DEF TypeOK
  <2> QED BY <2>2, <2>3
<1>3. \A n \in Msg : fate'[n] = IF n = m THEN "queued" ELSE fate[n]
  BY <1>1 DEF TypeOK
<1>4. /\ \A r \in Sub : Elements(queue[r]) \subseteq Msg /\ m \notin Elements(queue[r])
      /\ \A u \in Task : Elements(batch[u]) \subseteq Msg /\ m \notin Elements(batch[u])
  <2>1. /\ \A r \in Sub : Elements(queue[r]) \subseteq Msg
        /\ \A u \in Task : Elements(batch[u]) \subseteq Msg
    BY DEF TypeOK, Elements
  <2>2. \A r \in Sub : \A n \in Elements(queue[r]) : fate[n] = "queued"
    BY DEF Mail, Sorted
  <2>3. \A u \in Task : \A n \in Elements(batch[u]) : fate[n] # "unsent"
    BY DEF Mail, Sorted
  <2> QED BY <1>1, <2>1, <2>2, <2>3
<1>5. \A u \in Task : batch[u] # <<>> => Head(batch[u]) \in Elements(batch[u])
  BY ElementsTail DEF TypeOK
<1>6. \A r \in Sub : \A n \in Elements(queue'[r]) : fate'[n] = "queued"
  <2> SUFFICES ASSUME NEW r \in Sub, NEW n \in Elements(queue'[r]) PROVE fate'[n] = "queued"
    OBVIOUS
  <2>1. n \in Elements(queue[r]) \/ n = m
    BY <1>2
  <2>2. n \in Elements(queue[r]) => fate[n] = "queued" /\ n \in Msg
    BY <1>4 DEF Mail, Sorted
  <2> QED BY <1>3, <2>1, <2>2
<1>7. \A r, u \in Sub : \A n \in Elements(queue'[r]) : n \in Elements(queue'[u]) => r = u
  <2> SUFFICES ASSUME NEW r \in Sub, NEW u \in Sub,
                      NEW n \in Elements(queue'[r]), n \in Elements(queue'[u])
               PROVE  r = u
    OBVIOUS
  <2>1. CASE n = m
    <3>1. n \notin Elements(queue[r]) /\ n \notin Elements(queue[u])
      BY <1>4, <2>1
    <3>2. r # s => Elements(queue'[r]) = Elements(queue[r])
      BY <1>2
    <3>3. u # s => Elements(queue'[u]) = Elements(queue[u])
      BY <1>2
    <3> QED BY <3>1, <3>2, <3>3
  <2>2. CASE n # m
    <3>1. /\ Elements(queue'[r]) \subseteq Elements(queue[r]) \cup {m}
          /\ Elements(queue'[u]) \subseteq Elements(queue[u]) \cup {m}
      BY <1>2
    <3>2. n \in Elements(queue[r]) /\ n \in Elements(queue[u])
      BY <2>2, <3>1
    <3> QED BY <3>2 DEF Mail, Sorted
  <2> QED BY <2>1, <2>2
<1>8. \A u \in Task : \A n \in Elements(batch'[u]) : fate'[n] \notin {"unsent", "queued"}
  BY <1>1, <1>3, <1>4 DEF Mail, Sorted
<1>9. /\ \A u \in Task : phase'[u] \in Emptied => batch'[u] = <<>>
      /\ \A u \in Task : phase'[u] = "delivering" /\ batch'[u] # <<>> => fate'[Head(batch'[u])] # "taken"
  BY <1>1, <1>3, <1>4, <1>5 DEF Mail, Sorted
<1>10. TakenIsServed'
  BY <1>1, <1>3 DEF Mail, TakenIsServed
<1> QED BY <1>6, <1>7, <1>8, <1>9, <1>10 DEF Mail, Sorted

\* Every step keeps the messages sorted.
LEMMA MailStep ==
    ASSUME IInv, Mail, [Next]_vars
    PROVE  Mail'
<1> USE DEF IInv
<1>a. ASSUME NEW t \in Task, phase[t] # "none" PROVE job[t] \in Sub
  BY <1>a, SubagentsAssumption DEF Tables, Numbered, TypeOK, Sub
<1>b. ASSUME NEW t \in Task, NEW p \in Phase \ (Emptied \cup {"delivering"}),
             phase' = [phase EXCEPT ![t] = p], phase[t] # "none",
             p \in Body \cup Unwinding, UNCHANGED <<batch, queue, fate>>
      PROVE  Mail'
  BY <1>b, MailStay DEF Calm, TypeOK
<1>c. ASSUME NEW t \in Task, FailRun(t), phase[t] # "none" PROVE Mail'
  <2>1. Finally(t, batch[t]) /\ batch[t] \in Seq(Msg)
    BY <1>c DEF FailRun, TypeOK
  <2>2. \A m \in Elements(batch[t]) : fate[m] \notin {"unsent", "queued"}
    BY DEF Mail, Sorted
  <2> QED BY <1>a, <1>c, <2>1, <2>2, MailFinally
<1>d. ASSUME NEW s \in Sub, NEW handles, NEW phases \in [Task -> Phase], NewTask(s, handles, phases)
      PROVE  \A t \in Task : phase'[t] = "created" \/ phase'[t] = phases[t]
  BY <1>d DEF NewTask
<1>e. ASSUME NEW t \in Task, NEW s \in Sub, NEW q \in Cancelled(phase[t]), phase[t] \in Phase
      PROVE  /\ q \notin {"none", "created", "opening", "turn", "evicting", "delivering"}
             /\ q = "ended" => phase[t] = "created"
             /\ q \in Unwinding \/ phase[t] = "created"
  BY <1>e, CancelledType DEF Unwinding
<1>1. CASE Spawn
  <2>1. PICK p \in {Chat} \cup Task, f \in BOOLEAN : NewSub(p, f, handle, phase, registered)
    BY <1>1 DEF Spawn
  <2>2. /\ phase' = [phase EXCEPT ![started + 1] = "created"] /\ UNCHANGED <<batch, queue, fate>>
        /\ phase[started + 1] = "none" \/ started + 1 \notin Task
    BY <1>1, <2>1 DEF Spawn, NewSub, NewTask, mail, Tables, Numbered, TypeOK
  <2>3. Calm
    BY <2>2, NoBody DEF Calm, Emptied, TypeOK, Unwinding
  <2> QED BY <2>2, <2>3, MailStay
<1>2. CASE CloseChat
  BY <1>2, MailStay DEF CloseChat, execution, mail, Calm
<1>3. ASSUME NEW s \in Sub, RunNow(s) PROVE Mail'
  <2>1. /\ phase' = [phase EXCEPT ![started + 1] = "created"] /\ UNCHANGED <<batch, queue, fate>>
        /\ phase[started + 1] = "none" \/ started + 1 \notin Task
    BY <1>3 DEF RunNow, NewTask, mail, Tables, Numbered, TypeOK
  <2>2. Calm
    BY <2>1, NoBody DEF Calm, Emptied, TypeOK, Unwinding
  <2> QED BY <2>1, <2>2, MailStay
<1>4. ASSUME NEW s \in Sub, Killable(s) PROVE handle[s] \in Task /\ phase[handle[s]] \in Phase
  BY <1>4 DEF Killable, TypeOK
<1>5. ASSUME NEW s \in Sub, Kill(s) PROVE Mail'
  <2>1. PICK q \in Cancelled(phase[handle[s]]) : phase' = [phase EXCEPT ![handle[s]] = q]
    BY <1>5 DEF Kill
  <2>2. Killable(s) /\ KillSteps(s) /\ UNCHANGED batch
    BY <1>5 DEF Kill
  <2>3. \A t \in Task : phase'[t] = IF t = handle[s] THEN q ELSE phase[t]
    BY <2>1 DEF TypeOK
  <2>4. Calm
    BY <1>4, <1>e, <2>1, <2>2, <2>3, NoBody DEF Calm, Emptied, Mail, Sorted, Unwinding
  <2> QED BY <2>2, <2>4, MailKill
<1>6. ASSUME NEW s \in Sub, Interrupt(s) PROVE Mail'
  <2>1. CASE Killable(s)
    <3>1. PICK q \in Cancelled(phase[handle[s]]) :
             NewSub(parent[s], FALSE, [handle EXCEPT ![s] = None],
                    [phase EXCEPT ![handle[s]] = q], registered \ {s})
      BY <1>6, <2>1 DEF Interrupt
    <3>2. KillSteps(s) /\ UNCHANGED batch
      BY <1>6, <2>1 DEF Interrupt
    <3>3. handle[s] \in Task /\ phase[handle[s]] \in Phase /\ phase[handle[s]] # "none"
      BY <1>4, <2>1, TablesWith DEF With, Killable, Task, TypeOK
    <3>4. phase[started + 1] = "none" \/ started + 1 \notin Task
      BY DEF Tables, Numbered, TypeOK
    <3>5. \A t \in Task : phase'[t] = IF t = started + 1 THEN "created"
                                      ELSE IF t = handle[s] THEN q ELSE phase[t]
      BY <3>1 DEF NewSub, NewTask, TypeOK
    <3>6. /\ q \notin {"none", "created", "opening", "turn", "evicting", "delivering"}
          /\ q = "ended" => phase[handle[s]] = "created"
          /\ q \in Unwinding \/ phase[handle[s]] = "created"
      BY <1>e, <3>1, <3>3
    <3>7. \A t \in Task : \/ t = started + 1 /\ phase[t] = "none" /\ phase'[t] = "created"
                          \/ t = handle[s] /\ phase'[t] = q
                          \/ phase'[t] = phase[t]
      <4> TAKE t \in Task
      <4>1. CASE t = started + 1
        <5>1. phase'[t] = "created"
          BY <3>5, <4>1
        <5>2. phase[t] = "none"
          BY <3>4, <4>1
        <5> QED BY <4>1, <5>1, <5>2
      <4>2. CASE t # started + 1
        <5>1. phase'[t] = IF t = handle[s] THEN q ELSE phase[t]
          BY <3>5, <4>2
        <5> QED BY <5>1
      <4> QED BY <4>1, <4>2
    <3>8. \A t \in Task : phase'[t] \in Emptied => phase[t] \in Emptied
      BY <3>6, <3>7 DEF Emptied, Unwinding
    <3>9. \A t \in Task : phase'[t] = "delivering" => phase[t] = "delivering"
      BY <3>6, <3>7 DEF Unwinding
    <3>10. \A t \in Task : phase[t] \in Body \cup Unwinding => phase'[t] \in Body \cup Unwinding
      BY <3>6, <3>7, NoBody DEF Unwinding
    <3>11. Calm
      BY <3>2, <3>8, <3>9, <3>10 DEF Calm
    <3> QED BY <3>2, <3>11, MailKill
  <2>2. CASE ~ Killable(s)
    <3>1. /\ phase' = [phase EXCEPT ![started + 1] = "created"] /\ UNCHANGED <<batch, queue, fate>>
          /\ phase[started + 1] = "none" \/ started + 1 \notin Task
      BY <1>6, <2>2 DEF Interrupt, NewSub, NewTask, mail, Tables, Numbered, TypeOK
    <3>2. Calm
      BY <3>1, NoBody DEF Calm, Emptied, TypeOK, Unwinding
    <3> QED BY <3>1, <3>2, MailStay
  <2> QED BY <2>1, <2>2
<1>7. ASSUME NEW s \in Sub, NEW m \in Msg, Send(s, m) PROVE Mail'
  BY <1>7, MailSend
<1>8. ASSUME NEW t \in Task, Begin(t) PROVE Mail'
  <2>1. phase[t] = "created" /\ UNCHANGED <<batch, queue, fate>>
    BY <1>8 DEF Begin, mail
  <2>2. \/ phase' = [phase EXCEPT ![t] = "ended"]
        \/ phase' = [phase EXCEPT ![t] = "opening"]
    BY <1>8 DEF Begin
  <2>3. \A u \in Task : \/ phase'[u] = phase[u]
                        \/ u = t /\ phase'[u] \in {"ended", "opening"}
    BY <2>2 DEF TypeOK
  <2>4. Calm
    BY <2>1, <2>3, NoBody DEF Calm, Emptied, Unwinding
  <2> QED BY <2>1, <2>4, MailStay
<1>9. ASSUME NEW t \in Task, Open(t) PROVE Mail'
  <2>1. phase[t] = "opening" /\ UNCHANGED <<batch, queue, fate>> /\ phase' = [phase EXCEPT ![t] = "turn"]
    BY <1>9 DEF Open, mail
  <2>2. Calm
    BY <2>1 DEF Calm, Emptied, TypeOK, Body, InTurn, Suspended
  <2> QED BY <2>1, <2>2, MailStay
<1>10. ASSUME NEW t \in Task, OpenFails(t) \/ Fail(t) \/ TimedOut(t) PROVE Mail'
  BY <1>10, <1>c DEF OpenFails, Fail, TimedOut
<1>11. ASSUME NEW t \in Task, TurnEnds(t) PROVE Mail'
  BY <1>11, <1>a, MailTurnEnds DEF TurnEnds
<1>12. ASSUME NEW t \in Task, TurnRaises(t) PROVE Mail'
  <2>1. phase[t] = "turn" /\ UNCHANGED <<batch, queue, fate>> /\ phase' = [phase EXCEPT ![t] = "failing"]
    BY <1>12 DEF TurnRaises, mail
  <2> QED BY <1>b, <2>1 DEF Phase, Emptied, Body, Cleaning
<1>13. ASSUME NEW t \in Task, FollowUpEnds(t) PROVE Mail'
  <2>1. /\ phase[t] = "followup" /\ batch[t] \in Seq(Msg) /\ batch[t] # <<>>
        /\ Head(batch[t]) \in Msg /\ Tail(batch[t]) \in Seq(Msg)
        /\ Elements(batch[t]) = {Head(batch[t])} \cup Elements(Tail(batch[t]))
    BY <1>13, ElementsTail DEF FollowUpEnds, Following, TypeOK
  <2>2. fate' = [fate EXCEPT ![Head(batch[t])] = "answered"] /\ queue' = queue
    BY <1>13 DEF FollowUpEnds
  <2>3. /\ fate' \in [Msg -> Fate] /\ fate'[Head(batch[t])] = "answered"
        /\ \A m \in Msg : m # Head(batch[t]) => fate'[m] = fate[m]
    BY <2>1, <2>2 DEF TypeOK, Fate
  <2>4. PICK a \in {Head(batch[t]), None} :
          IF a # None /\ Deliverable(job[t])
          THEN /\ phase' = [phase EXCEPT ![t] = "delivering"]
               /\ answer' = [answer EXCEPT ![t] = a]
               /\ UNCHANGED batch
          ELSE Proceed(t, Tail(batch[t]), a)
    BY <1>13 DEF FollowUpEnds
  <2>5. CASE a # None /\ Deliverable(job[t])
    <3>1. phase' = [phase EXCEPT ![t] = "delivering"] /\ batch' = batch
      BY <2>4, <2>5
    <3>2. \A u \in Task : phase'[u] = IF u = t THEN "delivering" ELSE phase[u]
      BY <3>1 DEF TypeOK
    <3>3. /\ \A r \in Sub : Elements(queue[r]) \subseteq Msg /\ Head(batch[t]) \notin Elements(queue[r])
          /\ \A u \in Task : /\ Elements(batch[u]) \subseteq Msg
                             /\ batch[u] # <<>> => Head(batch[u]) \in Msg
      <4>1. /\ \A r \in Sub : Elements(queue[r]) \subseteq Msg
            /\ \A u \in Task : Elements(batch[u]) \subseteq Msg
        BY DEF TypeOK, Elements
      <4>2. fate[Head(batch[t])] # "queued"
        BY <2>1 DEF Mail, Sorted
      <4>3. \A r \in Sub : Head(batch[t]) \notin Elements(queue[r])
        BY <4>2 DEF Mail, Sorted
      <4>4. \A u \in Task : batch[u] # <<>> => Head(batch[u]) \in Msg
        BY ElementsTail DEF TypeOK
      <4> QED BY <4>1, <4>3, <4>4
    <3>4. \A r \in Sub : \A m \in Elements(queue'[r]) : fate'[m] = "queued"
      BY <2>2, <2>3, <3>3 DEF Mail, Sorted
    <3>5. \A r, u \in Sub : \A m \in Elements(queue'[r]) : m \in Elements(queue'[u]) => r = u
      BY <2>2 DEF Mail, Sorted
    <3>6. \A u \in Task : \A m \in Elements(batch'[u]) : fate'[m] \notin {"unsent", "queued"}
      BY <2>3, <3>1, <3>3 DEF Mail, Sorted
    <3>7. \A u \in Task : phase'[u] \in Emptied => batch'[u] = <<>>
      BY <3>1, <3>2 DEF Mail, Sorted, Emptied
    <3>8. \A u \in Task : phase'[u] = "delivering" /\ batch'[u] # <<>> => fate'[Head(batch'[u])] # "taken"
      BY <2>3, <3>1, <3>2, <3>3 DEF Mail, Sorted
    <3>9. TakenIsServed'
      <4> SUFFICES ASSUME NEW m \in Msg, fate'[m] = "taken"
                   PROVE  \E u \in Task : phase'[u] \in Body \cup Unwinding /\ m \in Elements(batch'[u])
        BY DEF TakenIsServed
      <4>1. fate[m] = "taken"
        BY <2>3
      <4>2. PICK u \in Task : phase[u] \in Body \cup Unwinding /\ m \in Elements(batch[u])
        BY <4>1 DEF Mail, TakenIsServed
      <4> QED BY <3>1, <3>2, <4>2 DEF Body, Suspended
    <3> QED BY <3>4, <3>5, <3>6, <3>7, <3>8, <3>9 DEF Mail, Sorted
  <2>6. CASE ~ (a # None /\ Deliverable(job[t]))
    <3>1. Proceed(t, Tail(batch[t]), a) /\ a \in Answer \cup {None}
      BY <2>1, <2>4, <2>6 DEF Answer
    <3>2. phase[t] \in Body
      BY <2>1 DEF Body, Suspended, InTurn
    <3>3. /\ phase' \in [Task -> Phase] /\ batch' \in [Task -> Seq(Msg)]
          /\ \A v \in Task : v # t => batch'[v] = batch[v] /\ phase'[v] = phase[v]
          /\ phase'[t] \in {"followup", "delivering", "evicting"}
          /\ phase'[t] = "followup" <=> batch'[t] # <<>>
          /\ batch'[t] = Tail(batch[t])
      BY <2>1, <3>1, ProceedType
    <3>4. fate'[Head(batch[t])] \notin {"unsent", "queued", "taken"}
      BY <2>3
    <3> QED BY <2>1, <2>2, <2>3, <3>2, <3>3, <3>4, MailNext
  <2> QED BY <2>5, <2>6
<1>14. ASSUME NEW t \in Task, FollowUpRaises(t) PROVE Mail'
  <2>1. /\ phase[t] = "followup" /\ batch[t] \in Seq(Msg) /\ batch[t] # <<>>
        /\ Head(batch[t]) \in Msg /\ Tail(batch[t]) \in Seq(Msg)
        /\ answer[t] \in Answer \cup {None}
    BY <1>14 DEF FollowUpRaises, Following, TypeOK
  <2>2. fate' = [fate EXCEPT ![Head(batch[t])] = "discarded"] /\ queue' = queue
    BY <1>14 DEF FollowUpRaises
  <2>3. /\ fate' \in [Msg -> Fate] /\ fate'[Head(batch[t])] = "discarded"
        /\ \A m \in Msg : m # Head(batch[t]) => fate'[m] = fate[m]
    BY <2>1, <2>2 DEF TypeOK, Fate
  <2>4. Proceed(t, Tail(batch[t]), answer[t])
    BY <1>14 DEF FollowUpRaises
  <2>5. phase[t] \in Body
    BY <2>1 DEF Body, Suspended, InTurn
  <2>6. /\ phase' \in [Task -> Phase] /\ batch' \in [Task -> Seq(Msg)]
        /\ \A v \in Task : v # t => batch'[v] = batch[v] /\ phase'[v] = phase[v]
        /\ phase'[t] \in {"followup", "delivering", "evicting"}
        /\ phase'[t] = "followup" <=> batch'[t] # <<>>
        /\ batch'[t] = Tail(batch[t])
    BY <2>1, <2>4, ProceedType
  <2>7. fate'[Head(batch[t])] \notin {"unsent", "queued", "taken"}
    BY <2>3
  <2> QED BY <2>1, <2>2, <2>3, <2>5, <2>6, <2>7, MailNext
<1>15. ASSUME NEW t \in Task, Deliver(t) \/ DeliveryRaises(t) PROVE Mail'
  <2>1. /\ phase[t] = "delivering" /\ Delivered(t) /\ UNCHANGED <<queue, fate>>
    BY <1>15 DEF Deliver, DeliveryRaises, mail
  <2>2. CASE batch[t] = <<>>
    <3>1. phase' = [phase EXCEPT ![t] = "evicting"] /\ batch' = batch
      BY <2>1, <2>2 DEF Delivered
    <3>2. \A u \in Task : phase'[u] = IF u = t THEN "evicting" ELSE phase[u]
      BY <3>1 DEF TypeOK
    <3>3. Sorted'
      BY <2>1, <2>2, <3>1, <3>2 DEF Mail, Sorted, Emptied
    <3>4. TakenIsServed'
      BY <2>1, <3>1, <3>2 DEF Mail, TakenIsServed, Body, Cleaning
    <3> QED BY <3>3, <3>4 DEF Mail
  <2>3. CASE batch[t] # <<>>
    <3>1. /\ Head(batch[t]) \in Msg /\ Tail(batch[t]) \in Seq(Msg)
          /\ answer[t] \in Answer \cup {None} /\ fate \in [Msg -> Fate]
          /\ Head(batch[t]) \in Elements(batch[t])
      BY <2>3, ElementsTail DEF TypeOK
    <3>2. fate[Head(batch[t])] \notin {"unsent", "queued", "taken"}
      BY <2>1, <2>3, <3>1 DEF Mail, Sorted
    <3>3. Proceed(t, Tail(batch[t]), answer[t])
      BY <2>1, <2>3 DEF Delivered
    <3>4. phase[t] \in Body
      BY <2>1 DEF Body, Suspended, InTurn
    <3> QED BY <2>1, <2>3, <3>1, <3>2, <3>3, <3>4, ProceedType, MailNext
  <2> QED BY <2>2, <2>3
<1>16. ASSUME NEW t \in Task, Complete(t) PROVE Mail'
  <2>1. phase[t] = "evicting" /\ Finally(t, <<>>) /\ batch[t] = <<>> /\ <<>> \in Seq(Msg)
    BY <1>16 DEF Complete, Mail, Sorted, Emptied
  <2> QED BY <1>a, <2>1, ElementsEmpty, MailFinally
<1>17. ASSUME NEW t \in Task, Timeout(t) PROVE Mail'
  <2>1. CASE /\ phase[t] \in Suspended /\ phase' = [phase EXCEPT ![t] = "timing"]
             /\ UNCHANGED <<registry, requests, batch, answer, outside, mail, sessions, past>>
    <3>1. /\ phase[t] # "none" /\ "timing" \in Phase \ (Emptied \cup {"delivering"}) /\ "timing" \in Body
          /\ UNCHANGED <<batch, queue, fate>>
      BY <2>1 DEF Suspended, InTurn, Phase, Emptied, Body, mail
    <3> QED BY <1>b, <2>1, <3>1
  <2>2. CASE phase[t] \in Cleaning \cup {"opening"} /\ FailRun(t)
    BY <1>c, <2>2 DEF Cleaning
  <2> QED BY <1>17, <2>1, <2>2 DEF Timeout
<1>18. ASSUME NEW t \in Task, Unwind(t) PROVE Mail'
  <2>1. phase[t] # "none" /\ Finally(t, batch[t]) /\ batch[t] \in Seq(Msg)
    BY <1>18 DEF Unwind, Unwinding, TypeOK
  <2>2. \A m \in Elements(batch[t]) : fate[m] \notin {"unsent", "queued"}
    BY DEF Mail, Sorted
  <2> QED BY <1>a, <2>1, <2>2, MailFinally
<1>19. CASE UNCHANGED vars
  BY <1>19, MailStay DEF vars, execution, mail, Calm
<1>20. ASSUME NEW t \in Task, Run(t) PROVE Mail'
  BY <1>20, <1>8, <1>9, <1>10, <1>11, <1>12, <1>13, <1>14, <1>15, <1>16, <1>17, <1>18 DEF Run
<1> QED
  BY <1>1, <1>2, <1>3, <1>5, <1>6, <1>7, <1>19, <1>20 DEF Next

\* A message that a run has taken from the queue is in the batch of a run that
\* is still going on: nothing is taken and forgotten.
THEOREM TakenIsKept == Spec => []TakenIsServed
<1>1. Init => Mail
  BY ElementsEmpty DEF Init, Mail, Sorted, TakenIsServed
<1>2. IInv /\ Mail /\ [Next]_vars => Mail'
  BY MailStep
<1>3. Mail => TakenIsServed
  BY DEF Mail
<1> QED BY Inductive, <1>1, <1>2, <1>3, PTL DEF Spec

---------------------------------------------------------------------------
(* The last answer.                                                         *)

Waiting == {"none", "created", "opening"}

\* The job session of a run that spawned another is in the index or has left it
\* for good.
Parents == \A s \in Sub : parent[s] \in Task => phase[parent[s]] \notin Waiting

\* Spawning makes a parent of a session that is open.
LEMMA ParentsNewSub ==
    ASSUME TypeOK, Numbered, Parents, NEW p \in Task \cup {Chat, None}, NEW f \in BOOLEAN,
           NEW handles, NEW phases \in [Task -> Phase], NEW kept,
           NewSub(p, f, handles, phases, kept),
           \A t \in Task : phases[t] \in Waiting => phase[t] \in Waiting,
           \A t \in Task : phase[t] = "none" => phases[t] = "none",
           p \in Task => phases[p] \notin Waiting
    PROVE  /\ Parents'
           /\ \A t \in Task : phase'[t] = IF t = started + 1 THEN "created" ELSE phases[t]
           /\ \A t \in Task : job'[t] = IF t = started + 1 THEN spawned + 1 ELSE job[t]
           /\ \A s \in Sub : s <= spawned => parent'[s] = parent[s] /\ fallback'[s] = fallback[s]
<1>1. /\ spawned + 1 \in Sub /\ started + 1 \in Task /\ spawned \in Nat
      /\ phase[started + 1] = "none" /\ phases[started + 1] = "none"
  BY SubagentsAssumption DEF NewSub, NewTask, TypeOK, Sub, Task, Numbered
<1>2. /\ parent' = [parent EXCEPT ![spawned + 1] = p]
      /\ fallback' = [fallback EXCEPT ![spawned + 1] = f]
      /\ phase' = [phases EXCEPT ![started + 1] = "created"]
      /\ job' = [job EXCEPT ![started + 1] = spawned + 1]
  BY DEF NewSub, NewTask
<1>3. /\ \A t \in Task : phase'[t] = IF t = started + 1 THEN "created" ELSE phases[t]
      /\ \A t \in Task : job'[t] = IF t = started + 1 THEN spawned + 1 ELSE job[t]
      /\ \A s \in Sub : parent'[s] = IF s = spawned + 1 THEN p ELSE parent[s]
      /\ \A s \in Sub : s # spawned + 1 => fallback'[s] = fallback[s]
  BY <1>2 DEF TypeOK
<1>4. Parents'
  <2> SUFFICES ASSUME NEW s \in Sub, parent'[s] \in Task
               PROVE  phase'[parent'[s]] \notin Waiting
    BY DEF Parents
  <2>1. phases[parent'[s]] \notin Waiting
    BY <1>3 DEF Parents
  <2>2. parent'[s] # started + 1
    BY <1>1, <2>1 DEF Waiting
  <2> QED BY <1>3, <2>1, <2>2
<1>5. \A s \in Sub : s <= spawned => s # spawned + 1
  BY <1>1 DEF Sub
<1> QED BY <1>3, <1>4, <1>5

\* A step after which a run that is at its end has told its answer before, tells
\* it now, or has nobody to tell.
LEMMA ToldStep ==
    ASSUME TypeOK, TypeOK', Numbered, Parents, LastAnswerTold,
           \A s \in Sub : s <= spawned => parent'[s] = parent[s] /\ fallback'[s] = fallback[s],
           chat' => chat,
           \A t \in Task : t \in sessions' => t \in sessions \/ phase[t] = "opening",
           \A s \in Sub : Elements(told[s]) \subseteq Elements(told'[s]),
           raised \subseteq raised',
           \A t \in Task : phase'[t] = "evicting" /\ answer'[t] # None /\ t \notin raised' =>
               /\ phase[t] # "none" /\ job'[t] = job[t]
               /\ \/ phase[t] = "evicting" /\ answer'[t] = answer[t]
                  \/ ~ Deliverable(job[t])
                  \/ answer'[t] \in Elements(told'[job[t]])
    PROVE  LastAnswerTold'
<1> SUFFICES ASSUME NEW t \in Task, phase'[t] = "evicting", answer'[t] # None,
                    Deliverable(job[t])', t \notin raised'
             PROVE  answer'[t] \in Elements(told'[job'[t]])
  BY DEF LastAnswerTold
<1>1. /\ phase[t] # "none" /\ job'[t] = job[t]
      /\ \/ phase[t] = "evicting" /\ answer'[t] = answer[t]
         \/ ~ Deliverable(job[t])
         \/ answer'[t] \in Elements(told'[job[t]])
  OBVIOUS
<1>2. job[t] \in Sub /\ job[t] <= spawned
  BY <1>1, SubagentsAssumption DEF Numbered, TypeOK, Sub
<1>3. parent'[job[t]] = parent[job[t]] /\ fallback'[job[t]] = fallback[job[t]]
      /\ parent[job[t]] \in Task \cup {Chat, None}
  BY <1>2 DEF TypeOK
<1>4. parent[job[t]] \in sessions' => parent[job[t]] \in sessions
  <2> SUFFICES ASSUME parent[job[t]] \in sessions' PROVE parent[job[t]] \in sessions
    OBVIOUS
  <2>1. parent[job[t]] \in Task
    BY DEF TypeOK
  <2> QED BY <1>2, <2>1 DEF Parents, Waiting
<1>5. Deliverable(job[t])
  BY <1>1, <1>3, <1>4 DEF Deliverable
<1>6. CASE phase[t] = "evicting" /\ answer'[t] = answer[t]
  <2>1. answer[t] \in Elements(told[job[t]])
    BY <1>5, <1>6 DEF LastAnswerTold
  <2> QED BY <1>1, <1>2, <1>6, <2>1
<1> QED BY <1>1, <1>5, <1>6

\* Nobody comes to the end of a run, no session opens and nobody is spawned.
LEMMA ToldStay ==
    ASSUME IInv, TypeOK', Parents, LastAnswerTold,
           UNCHANGED <<parent, fallback, told>>, chat' => chat, sessions' \subseteq sessions,
           raised \subseteq raised',
           \A t \in Task : phase'[t] \in Waiting => phase[t] \in Waiting,
           \A t \in Task : phase'[t] = "evicting" /\ answer'[t] # None =>
               phase[t] = "evicting" /\ answer'[t] = answer[t] /\ job'[t] = job[t]
    PROVE  Parents' /\ LastAnswerTold'
<1>1. Parents'
  BY DEF Parents
<1>2. LastAnswerTold'
  BY ToldStep DEF IInv, Tables
<1> QED BY <1>1, <1>2

\* The executor goes on with an answer a that is not the last or that nobody is
\* there for, with the answer that was told.
LEMMA ToldProceed ==
    ASSUME IInv, TypeOK', Parents, LastAnswerTold, NEW t \in Task, phase[t] \in Body,
           UNCHANGED <<parent, fallback, job, chat, sessions>>, raised \subseteq raised',
           \A s \in Sub : Elements(told[s]) \subseteq Elements(told'[s]),
           \A u \in Task : u # t => phase'[u] = phase[u] /\ answer'[u] = answer[u],
           phase'[t] \notin Waiting,
           phase'[t] = "evicting" /\ answer'[t] # None /\ t \notin raised' =>
               ~ Deliverable(job[t]) \/ answer'[t] \in Elements(told'[job[t]])
    PROVE  Parents' /\ LastAnswerTold'
<1>1. Parents'
  BY DEF Parents
<1>2. phase[t] # "none"
  BY NoBody
<1>3. LastAnswerTold'
  BY <1>2, ToldStep DEF IInv, Tables
<1> QED BY <1>1, <1>3

\* Proceed ends a run with an answer only when there is nobody to tell it.
LEMMA ProceedEnds ==
    ASSUME TypeOK, NEW t \in Task, NEW rest \in Seq(Msg), NEW a \in Answer \cup {None},
           Proceed(t, rest, a), phase'[t] = "evicting", answer'[t] # None
    PROVE  ~ Deliverable(job[t])
BY DEF Proceed, TypeOK

\* Every step keeps what has been told.
LEMMA ToldNext ==
    ASSUME IInv, Parents, LastAnswerTold, [Next]_vars
    PROVE  Parents' /\ LastAnswerTold'
<1> USE DEF IInv
<1>a. TypeOK'
  BY TypeNext DEF Tables
<1>c. ASSUME NEW s \in Sub, Killable(s), NEW q \in Cancelled(phase[handle[s]])
      PROVE  /\ handle[s] \in Task /\ phase[handle[s]] # "none"
             /\ q \notin Waiting \cup {"evicting"}
  <2>1. handle[s] \in Task /\ phase[handle[s]] \in Phase /\ phase[handle[s]] # "none"
    BY <1>c, TablesWith DEF With, Killable, Task, TypeOK
  <2>2. q \in {"ended"} \cup Unwinding
    BY <1>c, <2>1, CancelledType
  <2> QED BY <2>1, <2>2 DEF Waiting, Unwinding
<1>d. ASSUME NEW t \in Task, NEW rest, Finally(t, rest), UNCHANGED fallback, sessions' \subseteq sessions
      PROVE  Parents' /\ LastAnswerTold'
  <2>1. /\ phase' = [phase EXCEPT ![t] = "ended"] /\ answer' = [answer EXCEPT ![t] = None]
        /\ UNCHANGED <<parent, job, chat, told, raised>>
    BY <1>d DEF Finally, requests, outside, past
  <2>2. \A u \in Task : /\ phase'[u] \in Waiting => phase[u] \in Waiting
                        /\ phase'[u] = "evicting" => phase[u] = "evicting" /\ answer'[u] = answer[u]
    BY <2>1 DEF TypeOK, Waiting
  <2> QED BY <1>a, <1>d, <2>1, <2>2, ToldStay
<1>e. ASSUME NEW t \in Task, FailRun(t), sessions' \subseteq sessions PROVE Parents' /\ LastAnswerTold'
  <2>1. Finally(t, batch[t]) /\ UNCHANGED fallback
    BY <1>e DEF FailRun, Finally, requests
  <2> QED BY <1>d, <1>e, <2>1
<1>f. ASSUME NEW t \in Task, NEW q \in Phase \ (Waiting \cup {"evicting"}),
             phase' = [phase EXCEPT ![t] = q],
             UNCHANGED <<requests, answer, told, chat, raised>>, sessions' \subseteq sessions
      PROVE  Parents' /\ LastAnswerTold'
  <2>1. /\ UNCHANGED <<parent, fallback, job>>
        /\ \A u \in Task : phase'[u] = IF u = t THEN q ELSE phase[u]
    BY <1>f DEF requests, TypeOK
  <2> QED BY <1>a, <1>f, <2>1, ToldStay
<1>1. CASE Spawn
  <2>1. PICK p \in {Chat} \cup Task, f \in BOOLEAN :
           /\ IF p = Chat THEN chat /\ f ELSE phase[p] \in InTurn
           /\ NewSub(p, f, handle, phase, registered)
    BY <1>1 DEF Spawn
  <2>2. p \in Task => phase[p] \notin Waiting
    BY <2>1, SubagentsAssumption DEF InTurn, Waiting
  <2>3. /\ Parents'
        /\ \A t \in Task : phase'[t] = IF t = started + 1 THEN "created" ELSE phase[t]
        /\ \A t \in Task : job'[t] = IF t = started + 1 THEN spawned + 1 ELSE job[t]
        /\ \A s \in Sub : s <= spawned => parent'[s] = parent[s] /\ fallback'[s] = fallback[s]
    BY <2>1, <2>2, ParentsNewSub DEF Tables, TypeOK
  <2>4. UNCHANGED <<answer, chat, told, sessions, raised>>
    BY <1>1 DEF Spawn, outside, past
  <2> QED BY <1>a, <2>3, <2>4, ToldStep DEF Tables
<1>2. CASE CloseChat
  <2>1. ~ chat' /\ UNCHANGED <<parent, fallback, job, phase, answer, told, sessions, raised>>
    BY <1>2 DEF CloseChat, requests, execution, past
  <2> QED BY <1>a, <2>1, ToldStay
<1>3. ASSUME NEW s \in Sub, RunNow(s) PROVE Parents' /\ LastAnswerTold'
  <2>1. /\ phase' = [phase EXCEPT ![started + 1] = "created"]
        /\ job' = [job EXCEPT ![started + 1] = s]
        /\ UNCHANGED <<parent, fallback, answer, chat, told, sessions, raised>>
        /\ started + 1 \in Task => phase[started + 1] = "none"
    BY <1>3 DEF RunNow, NewTask, outside, Tables, Numbered, TypeOK
  <2>2. \A t \in Task : /\ phase'[t] = IF t = started + 1 THEN "created" ELSE phase[t]
                        /\ job'[t] = IF t = started + 1 THEN s ELSE job[t]
    BY <2>1 DEF TypeOK
  <2> QED BY <1>a, <2>1, <2>2, ToldStay DEF Waiting
<1>4. ASSUME NEW s \in Sub, Kill(s) PROVE Parents' /\ LastAnswerTold'
  <2>1. PICK q \in Cancelled(phase[handle[s]]) : phase' = [phase EXCEPT ![handle[s]] = q]
    BY <1>4 DEF Kill
  <2>2. Killable(s) /\ UNCHANGED <<requests, answer, told, chat, raised, sessions>>
    BY <1>4 DEF Kill, outside
  <2>3. handle[s] \in Task /\ q \in Phase \ (Waiting \cup {"evicting"})
    BY <1>c, <2>1, <2>2, CancelledType DEF TypeOK
  <2> QED BY <1>f, <2>1, <2>2, <2>3
<1>5. ASSUME NEW s \in Sub, Interrupt(s) PROVE Parents' /\ LastAnswerTold'
  <2>1. UNCHANGED <<answer, chat, told, sessions, raised>>
    BY <1>5 DEF Interrupt, outside
  <2>2. parent[s] \in Task \cup {Chat, None} /\ (parent[s] \in Task => phase[parent[s]] \notin Waiting)
    BY DEF TypeOK, Parents
  <2>3. CASE Killable(s)
    <3>1. PICK q \in Cancelled(phase[handle[s]]) :
             NewSub(parent[s], FALSE, [handle EXCEPT ![s] = None],
                    [phase EXCEPT ![handle[s]] = q], registered \ {s})
      BY <1>5, <2>3 DEF Interrupt
    <3> DEFINE ph == [phase EXCEPT ![handle[s]] = q]
    <3>2. /\ handle[s] \in Task /\ phase[handle[s]] # "none" /\ q \in Phase
          /\ q \notin Waiting \cup {"evicting"}
      BY <1>c, <2>3, CancelledType DEF TypeOK
    <3>3. /\ ph \in [Task -> Phase]
          /\ \A t \in Task : ph[t] = IF t = handle[s] THEN q ELSE phase[t]
      BY <3>2 DEF TypeOK
    <3>4. NewSub(parent[s], FALSE, [handle EXCEPT ![s] = None], ph, registered \ {s})
      BY <3>1
    <3> HIDE DEF ph
    <3>5. /\ Parents'
          /\ \A t \in Task : phase'[t] = IF t = started + 1 THEN "created" ELSE ph[t]
          /\ \A t \in Task : job'[t] = IF t = started + 1 THEN spawned + 1 ELSE job[t]
          /\ \A r \in Sub : r <= spawned => parent'[r] = parent[r] /\ fallback'[r] = fallback[r]
      BY <2>2, <3>2, <3>3, <3>4, ParentsNewSub DEF Tables
    <3> QED BY <1>a, <2>1, <3>2, <3>3, <3>5, ToldStep DEF Tables
  <2>4. CASE ~ Killable(s)
    <3>1. NewSub(parent[s], FALSE, handle, phase, registered)
      BY <1>5, <2>4 DEF Interrupt
    <3>2. /\ Parents'
          /\ \A t \in Task : phase'[t] = IF t = started + 1 THEN "created" ELSE phase[t]
          /\ \A t \in Task : job'[t] = IF t = started + 1 THEN spawned + 1 ELSE job[t]
          /\ \A r \in Sub : r <= spawned => parent'[r] = parent[r] /\ fallback'[r] = fallback[r]
      BY <2>2, <3>1, ParentsNewSub DEF Tables, TypeOK
    <3> QED BY <1>a, <2>1, <3>2, ToldStep DEF Tables
  <2> QED BY <2>3, <2>4
<1>6. ASSUME NEW s \in Sub, NEW m \in Msg, Send(s, m) PROVE Parents' /\ LastAnswerTold'
  <2>1. UNCHANGED <<parent, fallback, job, phase, answer, chat, told, sessions, raised>>
    BY <1>6 DEF Send, requests, execution, outside, past
  <2> QED BY <1>a, <2>1, ToldStay
<1>7. ASSUME NEW t \in Task, Begin(t) PROVE Parents' /\ LastAnswerTold'
  <2>1. /\ phase[t] = "created" /\ UNCHANGED <<requests, answer, told, chat, sessions, raised>>
        /\ \/ phase' = [phase EXCEPT ![t] = "ended"]
           \/ phase' = [phase EXCEPT ![t] = "opening"]
    BY <1>7 DEF Begin, outside, past
  <2>2. \A u \in Task : /\ phase'[u] \in Waiting => phase[u] \in Waiting
                        /\ phase'[u] = "evicting" => phase[u] = "evicting"
    BY <2>1 DEF TypeOK, Waiting
  <2> QED BY <1>a, <2>1, <2>2, ToldStay DEF requests
<1>8. ASSUME NEW t \in Task, Open(t) PROVE Parents' /\ LastAnswerTold'
  <2>1. /\ phase[t] = "opening" /\ phase' = [phase EXCEPT ![t] = "turn"] /\ sessions' = sessions \cup {t}
        /\ UNCHANGED <<parent, fallback, job, answer, chat, told, raised>>
    BY <1>8 DEF Open, requests, outside, past
  <2>2. \A u \in Task : phase'[u] = IF u = t THEN "turn" ELSE phase[u]
    BY <2>1 DEF TypeOK
  <2>3. Parents'
    BY <2>1, <2>2 DEF Parents, Waiting
  <2> QED BY <1>a, <2>1, <2>2, <2>3, ToldStep DEF Tables
<1>9. ASSUME NEW t \in Task, TurnRaises(t) PROVE Parents' /\ LastAnswerTold'
  <2>1. "failing" \in Phase \ (Waiting \cup {"evicting"})
    BY DEF Phase, Waiting
  <2> QED BY <1>9, <1>f, <2>1 DEF TurnRaises, outside, past
<1>10. ASSUME NEW t \in Task, NEW rest \in Seq(Msg), NEW a \in Answer \cup {None}, Proceed(t, rest, a),
              phase[t] \in Body,
              UNCHANGED <<parent, fallback, job, chat, sessions>>, raised \subseteq raised',
              \A s \in Sub : Elements(told[s]) \subseteq Elements(told'[s])
       PROVE  Parents' /\ LastAnswerTold'
  <2>1. /\ \A u \in Task : u # t => phase'[u] = phase[u] /\ answer'[u] = answer[u]
        /\ phase'[t] \in {"followup", "delivering", "evicting"}
    BY <1>10, ProceedType
  <2>2. phase'[t] = "evicting" /\ answer'[t] # None => ~ Deliverable(job[t])
    BY <1>10, ProceedEnds
  <2>3. phase'[t] \notin Waiting
    BY <2>1 DEF Waiting
  <2> QED BY <1>a, <1>10, <2>1, <2>2, <2>3, ToldProceed
<1>11. ASSUME NEW t \in Task, TurnEnds(t) PROVE Parents' /\ LastAnswerTold'
  <2>1. PICK a \in {"task", None} : Proceed(t, queue[job[t]], a)
    BY <1>11 DEF TurnEnds
  <2>2. /\ phase[t] = "turn" /\ phase[t] \in Body
        /\ UNCHANGED <<parent, fallback, job, chat, sessions, told, raised>>
    BY <1>11 DEF TurnEnds, Body, Suspended, InTurn, requests, outside, past
  <2>3. job[t] \in Sub
    BY <2>2, SubagentsAssumption DEF Tables, Numbered, TypeOK, Sub
  <2>4. queue[job[t]] \in Seq(Msg) /\ a \in Answer \cup {None}
    BY <2>3 DEF TypeOK, Answer
  <2> QED BY <1>10, <2>1, <2>2, <2>4
<1>12. ASSUME NEW t \in Task, FollowUpEnds(t) PROVE Parents' /\ LastAnswerTold'
  <2>1. /\ phase[t] = "followup" /\ phase[t] \in Body
        /\ UNCHANGED <<parent, fallback, job, chat, sessions, told, raised>>
    BY <1>12 DEF FollowUpEnds, Body, Suspended, InTurn, requests, outside, past
  <2>2. Head(batch[t]) \in Msg /\ Tail(batch[t]) \in Seq(Msg)
    BY <2>1, ElementsTail DEF Following, TypeOK
  <2>3. PICK a \in {Head(batch[t]), None} :
           IF a # None /\ Deliverable(job[t])
           THEN /\ phase' = [phase EXCEPT ![t] = "delivering"]
                /\ answer' = [answer EXCEPT ![t] = a]
           ELSE Proceed(t, Tail(batch[t]), a)
    BY <1>12 DEF FollowUpEnds
  <2>4. CASE a # None /\ Deliverable(job[t])
    <3>1. /\ phase'[t] = "delivering"
          /\ \A u \in Task : u # t => phase'[u] = phase[u] /\ answer'[u] = answer[u]
      BY <2>3, <2>4 DEF TypeOK
    <3>2. phase'[t] \notin Waiting \cup {"evicting"}
      BY <3>1 DEF Waiting
    <3> QED BY <1>a, <2>1, <3>1, <3>2, ToldProceed
  <2>5. CASE ~ (a # None /\ Deliverable(job[t]))
    <3>1. Proceed(t, Tail(batch[t]), a) /\ a \in Answer \cup {None}
      BY <2>2, <2>3, <2>5 DEF Answer
    <3> QED BY <1>10, <2>1, <2>2, <3>1
  <2> QED BY <2>4, <2>5
<1>13. ASSUME NEW t \in Task, FollowUpRaises(t) PROVE Parents' /\ LastAnswerTold'
  <2>1. /\ phase[t] = "followup" /\ phase[t] \in Body /\ Proceed(t, Tail(batch[t]), answer[t])
        /\ UNCHANGED <<parent, fallback, job, chat, sessions, told, raised>>
    BY <1>13 DEF FollowUpRaises, Body, Suspended, InTurn, requests, outside, past
  <2>2. Tail(batch[t]) \in Seq(Msg) /\ answer[t] \in Answer \cup {None}
    BY <2>1, ElementsTail DEF Following, TypeOK
  <2> QED BY <1>10, <2>1, <2>2
<1>14. ASSUME NEW t \in Task, Deliver(t) \/ DeliveryRaises(t) PROVE Parents' /\ LastAnswerTold'
  <2>1. /\ phase[t] = "delivering" /\ phase[t] \in Body /\ Delivered(t)
        /\ UNCHANGED <<parent, fallback, job, chat, sessions>> /\ raised \subseteq raised'
    BY <1>14 DEF Deliver, DeliveryRaises, Body, Suspended, InTurn, requests, outside, past
  <2>2. job[t] \in Sub /\ answer[t] \in Answer
    BY <2>1, SubagentsAssumption DEF Tables, Numbered, Following, TypeOK, Sub
  <2>3. /\ \A s \in Sub : Elements(told[s]) \subseteq Elements(told'[s])
        /\ answer[t] \in Elements(told'[job[t]]) \/ t \in raised'
    <3>1. CASE Deliver(t)
      <4>1. told' = [told EXCEPT ![job[t]] = Append(@, answer[t])]
        BY <3>1 DEF Deliver
      <4>2. /\ \A s \in Sub : told'[s] = IF s = job[t] THEN Append(told[s], answer[t]) ELSE told[s]
            /\ told[job[t]] \in Seq(Answer)
        BY <2>2, <4>1 DEF TypeOK
      <4>3. Elements(Append(told[job[t]], answer[t])) = Elements(told[job[t]]) \cup {answer[t]}
        BY <2>2, <4>2, ElementsAppend
      <4> QED BY <2>2, <4>2, <4>3
    <3>2. CASE DeliveryRaises(t)
      BY <3>2 DEF DeliveryRaises, outside
    <3> QED BY <1>14, <3>1, <3>2
  <2>4. CASE batch[t] = <<>>
    <3>1. /\ phase'[t] = "evicting" /\ answer' = answer
          /\ \A u \in Task : u # t => phase'[u] = phase[u]
      BY <2>1, <2>4 DEF Delivered, TypeOK
    <3>2. phase'[t] \notin Waiting
      BY <3>1 DEF Waiting
    <3> QED BY <1>a, <2>1, <2>3, <3>1, <3>2, ToldProceed
  <2>5. CASE batch[t] # <<>>
    <3>1. Proceed(t, Tail(batch[t]), answer[t])
      BY <2>1, <2>5 DEF Delivered
    <3>2. Tail(batch[t]) \in Seq(Msg) /\ answer[t] \in Answer \cup {None}
      BY <2>2, <2>5, ElementsTail DEF TypeOK
    <3> QED BY <1>10, <2>1, <2>3, <3>1, <3>2
  <2> QED BY <2>4, <2>5
<1>15. ASSUME NEW t \in Task, Complete(t) PROVE Parents' /\ LastAnswerTold'
  <2>1. Finally(t, <<>>) /\ UNCHANGED fallback /\ sessions' \subseteq sessions
    BY <1>15 DEF Complete, Finally, requests
  <2> QED BY <1>d, <2>1
<1>16. ASSUME NEW t \in Task, OpenFails(t) \/ Fail(t) \/ TimedOut(t) PROVE Parents' /\ LastAnswerTold'
  <2>1. FailRun(t) /\ sessions' \subseteq sessions
    BY <1>16 DEF OpenFails, Fail, TimedOut
  <2> QED BY <1>e, <2>1
<1>17. ASSUME NEW t \in Task, Timeout(t) PROVE Parents' /\ LastAnswerTold'
  <2>1. CASE /\ phase' = [phase EXCEPT ![t] = "timing"]
             /\ UNCHANGED <<registry, requests, batch, answer, outside, mail, sessions, past>>
    <3>1. "timing" \in Phase \ (Waiting \cup {"evicting"})
      BY DEF Phase, Waiting
    <3> QED BY <1>f, <2>1, <3>1 DEF outside, past
  <2>2. CASE FailRun(t) /\ UNCHANGED sessions
    BY <1>e, <2>2
  <2> QED BY <1>17, <2>1, <2>2 DEF Timeout
<1>18. ASSUME NEW t \in Task, Unwind(t) PROVE Parents' /\ LastAnswerTold'
  <2>1. Finally(t, batch[t]) /\ UNCHANGED fallback /\ sessions' \subseteq sessions
    BY <1>18 DEF Unwind, Finally, requests
  <2> QED BY <1>d, <2>1
<1>19. CASE UNCHANGED vars
  <2>1. UNCHANGED <<parent, fallback, job, phase, answer, chat, told, sessions, raised>>
    BY <1>19 DEF vars, requests, execution, outside, past
  <2> QED BY <1>a, <2>1, ToldStay
<1>20. ASSUME NEW t \in Task, Run(t) PROVE Parents' /\ LastAnswerTold'
  BY <1>20, <1>7, <1>8, <1>9, <1>11, <1>12, <1>13, <1>14, <1>15, <1>16, <1>17, <1>18 DEF Run
<1> QED
  BY <1>1, <1>2, <1>3, <1>4, <1>5, <1>6, <1>19, <1>20 DEF Next

\* A run that is at its end has told its last answer to a spawner who is still
\* there, unless the delivery itself failed.
THEOREM LastIsTold == Spec => []LastAnswerTold
<1>1. Init => Parents /\ LastAnswerTold
  BY SubagentsAssumption DEF Init, Parents, LastAnswerTold
<1>2. IInv /\ Parents /\ LastAnswerTold /\ [Next]_vars => Parents' /\ LastAnswerTold'
  BY ToldNext
<1> QED BY Inductive, <1>1, <1>2, PTL DEF Spec

---------------------------------------------------------------------------
(* The status, and what the tables say of a subagent together.              *)

\* What Job.status says of a subagent, beside the scheduler's tables.
Mark(s) ==
    /\ s > spawned => status[s] = "pending"
    /\ status[s] = "running" <=> s \in running
    /\ s \in registered => status[s] # "completed"
    /\ s \in results => status[s] = "completed"
    /\ handle[s] # None => status[s] \in {"pending", "running"}

Marks == \A s \in Sub \ (again \cup killed) : Mark(s)

\* Nothing that is recorded of s changes, but that its task may end.
Same(s) ==
    /\ s \in again' <=> s \in again
    /\ s \in killed' <=> s \in killed
    /\ s \in registered' <=> s \in registered
    /\ s \in running' <=> s \in running
    /\ s \in results' <=> s \in results
    /\ s > spawned' <=> s > spawned
    /\ status'[s] = status[s]
    /\ handle'[s] # None => handle[s] # None

\* The cases of Standing over their conditions.
Choice(a, n, k, c, r, st) ==
    CASE a -> "by hand"
      [] ~ a /\ n -> "new"
      [] ~ a /\ k -> "killed"
      [] ~ a /\ c -> "completed"
      [] ~ a /\ r -> st
      [] OTHER -> "astray"

\* Then its standing is the same.
LEMMA SameStands ==
    ASSUME NEW s \in Sub, Same(s)
    PROVE  Standing(s)' = Standing(s)
<1> DEFINE K == s \in killed \ (registered \cup running \cup results)
           C == s \in results \ (registered \cup running \cup killed) /\ status[s] = "completed"
           R == /\ s \in registered \ (results \cup killed)
                /\ s \in running <=> status[s] = "running"
                /\ status[s] # "completed"
<1>1. K' = K /\ C' = C /\ R' = R
  BY DEF Same
<1>2. /\ (s \in again') = (s \in again) /\ (s > spawned') = (s > spawned)
      /\ status'[s] = status[s]
  BY DEF Same
<1>3. Standing(s) = Choice(s \in again, s > spawned, K, C, R, status[s])
  BY Zenon DEF Standing, Choice
<1>4. Standing(s)' = Choice(s \in again', s > spawned', K', C', R', status'[s])
  BY Zenon DEF Standing, Choice
<1> HIDE DEF K, C, R
<1> QED BY <1>1, <1>2, <1>3, <1>4, Zenon

\* The standing of a subagent not run by hand, read off the tables.
LEMMA Stands ==
    ASSUME IInv, Marks, NEW s \in Sub \ again
    PROVE  /\ s > spawned => Standing(s) = "new"
           /\ s \in killed => Standing(s) = "killed"
           /\ s \in results => Standing(s) = "completed"
           /\ s \in registered => Standing(s) = status[s]
           /\ s > spawned \/ s \in killed \/ s \in results \/ s \in registered
<1>1. /\ registered \cup running \cup results \cup killed \subseteq 1 .. spawned
      /\ s \notin 1 .. spawned <=> s > spawned
  BY SubagentsAssumption DEF IInv, Tables, Numbered, TypeOK, Sub
<1>2. /\ s \in 1 .. spawned => s \in registered \cup killed \cup results
      /\ s \in registered => s \notin killed \cup results
      /\ s \in killed => s \notin results
  BY DEF IInv, Tables, OneOutcome
<1>3. s \in running => s \in registered
  BY DEF IInv, Tables, RunningIsTrue, Owned
<1>4. s \notin killed => Mark(s)
  BY DEF Marks
<1> QED BY <1>1, <1>2, <1>3, <1>4 DEF Standing, Mark

\* The same of the next state.
LEMMA StandsNext ==
    ASSUME IInv', Marks', NEW s \in Sub \ again'
    PROVE  /\ s > spawned' => Standing(s)' = "new"
           /\ s \in killed' => Standing(s)' = "killed"
           /\ s \in results' => Standing(s)' = "completed"
           /\ s \in registered' => Standing(s)' = status'[s]
<1>1. /\ (registered \cup running \cup results \cup killed)' \subseteq 1 .. spawned'
      /\ s \notin 1 .. spawned' <=> s > spawned'
  BY SubagentsAssumption DEF IInv, Tables, Numbered, TypeOK, Sub
<1>2. /\ s \in registered' => s \notin (killed \cup results)'
      /\ s \in killed' => s \notin results'
  BY DEF IInv, Tables, OneOutcome
<1>3. s \in running' => s \in registered'
  BY DEF IInv, Tables, RunningIsTrue, Owned
<1>4. s \notin killed' => Mark(s)'
  BY DEF Marks
<1> QED BY <1>1, <1>2, <1>3, <1>4 DEF Standing, Mark

\* What SubagentService sees.
Shown == [s \in Sub |-> Standing(s)]
Heard == [s \in Sub |-> IF s \in again THEN <<>> ELSE told[s]]
Served == Marks' /\ [Service!Next]_(Service!vars)

\* Nothing is recorded of anybody.
LEMMA NobodyMoves ==
    ASSUME Marks, \A s \in Sub : Same(s), told' = told
    PROVE  Served
<1>1. Marks'
  BY DEF Marks, Mark, Same
<1>2. \A s \in Sub : Standing(s)' = Standing(s)
  BY SameStands
<1>3. Shown' = Shown
  BY <1>2 DEF Shown
<1>4. Heard' = Heard
  BY DEF Heard, Same
<1> QED BY <1>1, <1>3, <1>4 DEF Served, Service!vars, Shown, Heard

\* Something is recorded of s only.
LEMMA OneMoves ==
    ASSUME Marks, NEW s \in Sub, \A r \in Sub \ {s} : Same(r),
           s \notin again' \cup killed' => Mark(s)'
    PROVE  /\ Marks'
           /\ Shown' = [Shown EXCEPT ![s] = Standing(s)']
           /\ Shown[s] = Standing(s)
           /\ \A from, to : Standing(s) \in from /\ Standing(s)' = to => Service!Move(s, from, to)
           /\ told' = told /\ (s \in again <=> s \in again') => Heard' = Heard
<1>1. \A r \in Sub \ {s} : (r \in again' <=> r \in again) /\ (r \in killed' <=> r \in killed)
  BY DEF Same
<1>2. \A r \in Sub \ {s} : r \notin again \cup killed => Mark(r)'
  BY DEF Marks, Mark, Same
<1>3. Marks'
  BY <1>1, <1>2 DEF Marks
<1>4. \A r \in Sub \ {s} : Standing(r)' = Standing(r)
  BY SameStands
<1>5. Shown' = [Shown EXCEPT ![s] = Standing(s)'] /\ Shown[s] = Standing(s)
  BY <1>4 DEF Shown
<1>6. \A from, to : Standing(s) \in from /\ Standing(s)' = to => Service!Move(s, from, to)
  BY <1>5 DEF Service!Move, Shown
<1>7. told' = told /\ (s \in again <=> s \in again') => Heard' = Heard
  BY <1>1 DEF Heard
<1> QED BY <1>3, <1>5, <1>6, <1>7

\* A subagent run by hand before may do anything.
LEMMA StrayMoves ==
    ASSUME Marks, NEW s \in Sub, s \in again, again' = again, \A r \in Sub \ {s} : Same(r),
           \A r \in Sub \ {s} : told'[r] = told[r]
    PROVE  Served
<1>1. Marks' /\ Shown' = [Shown EXCEPT ![s] = Standing(s)'] /\ Shown[s] = Standing(s)
  BY OneMoves
<1>2. Standing(s)' = Standing(s)
  BY DEF Standing
<1>3. Shown' = Shown
  BY <1>1, <1>2 DEF Shown
<1>4. Heard' = Heard
  BY DEF Heard
<1> QED BY <1>1, <1>3, <1>4 DEF Served, Service!vars, Shown, Heard

\* A subagent changes state and tells nothing.
LEMMA MoveServed ==
    ASSUME Marks, NEW s \in Sub, \A r \in Sub \ {s} : Same(r),
           s \notin again' \cup killed' => Mark(s)',
           told' = told, s \in again <=> s \in again',
           \/ Standing(s) = "new" /\ Standing(s)' = "pending"
           \/ Standing(s) = "pending" /\ Standing(s)' = "running"
           \/ Standing(s) = "running" /\ Standing(s)' \in {"completed", "failed"}
           \/ Standing(s) \in {"pending", "running"} /\ Standing(s)' = "killed"
    PROVE  Served
<1>1. /\ Marks' /\ Heard' = Heard
      /\ \A from, to : Standing(s) \in from /\ Standing(s)' = to => Service!Move(s, from, to)
  BY OneMoves
<1>2. \/ Service!Move(s, {"new"}, "pending") \/ Service!Move(s, {"pending"}, "running")
      \/ Service!Move(s, {"running"}, "completed") \/ Service!Move(s, {"running"}, "failed")
      \/ Service!Move(s, {"pending", "running"}, "killed")
  BY <1>1
<1>3. Service!Next
  BY <1>1, <1>2 DEF Service!Next, Service!Spawn, Service!Start, Service!End, Service!Kill, Heard
<1> QED BY <1>1, <1>3 DEF Served

\* The invariant of the proofs below, before and after a step.
Both == IInv /\ IInv' /\ Marks

\* What Both says of a subagent whose task has begun and was not killed.
LEMMA AtWork ==
    ASSUME Both, NEW t \in Task, phase[t] \in {"created"} \cup Body
    PROVE  /\ job[t] \in Sub
           /\ job[t] \notin again =>
                /\ job[t] \in registered /\ job[t] \notin killed \cup results
                /\ Mark(job[t]) /\ Standing(job[t]) = status[job[t]]
                /\ status[job[t]] = IF phase[t] \in Body THEN "running" ELSE "pending"
<1>1. TypeOK /\ Tables /\ phase[t] # "none"
  BY NoBody DEF Both, IInv
<1>2. job[t] \in Sub
  BY <1>1, SubagentsAssumption DEF Tables, Numbered, TypeOK, Sub
<1>3. SUFFICES ASSUME job[t] \notin again
               PROVE  /\ job[t] \in registered /\ job[t] \notin killed \cup results
                      /\ Mark(job[t]) /\ Standing(job[t]) = status[job[t]]
                      /\ status[job[t]] = IF phase[t] \in Body THEN "running" ELSE "pending"
  BY <1>2
<1>4. /\ handle[job[t]] = t /\ job[t] \in registered /\ job[t] \notin killed \cup results
      /\ phase[t] \in Body => job[t] \in running
  BY <1>1, <1>3, Held
<1>5. Mark(job[t]) /\ Standing(job[t]) = status[job[t]]
  BY <1>2, <1>3, <1>4, Stands DEF Both, Marks
<1>6. handle[job[t]] # None
  BY <1>4, SubagentsAssumption
<1>7. job[t] \in running => phase[t] \in Body
  BY <1>1, <1>2, <1>3, <1>4 DEF Tables, RunningIsTrue, InBody
<1> QED BY <1>2, <1>3, <1>4, <1>5, <1>6, <1>7 DEF Mark

\* A run ends, as completed or as failed.
LEMMA EndServed ==
    ASSUME Both, NEW t \in Task, NEW rest, Finally(t, rest), phase[t] \in Body,
           NEW st \in {"completed", "failed"}, status' = [status EXCEPT ![job[t]] = st],
           IF st = "failed" THEN UNCHANGED <<registered, results>>
                            ELSE /\ registered' = registered \ {job[t]}
                                 /\ results' = results \cup {job[t]}
    PROVE  Served
<1>0. PICK s \in Sub : s = job[t]
  BY AtWork
<1>1. /\ s \notin again => /\ s \in registered /\ s \notin killed \cup results
                           /\ Mark(s) /\ Standing(s) = status[s] /\ status[s] = "running"
  BY <1>0, AtWork
<1>2. /\ running' = running \ {s} /\ handle' = [handle EXCEPT ![s] = None]
      /\ UNCHANGED <<spawned, told, killed, again>>
  BY <1>0 DEF Finally, outside, past
<1>3. /\ \A r \in Sub \ {s} : status'[r] = status[r] /\ handle'[r] = handle[r]
      /\ status'[s] = st /\ handle'[s] = None
  BY <1>0, <1>1, <1>2 DEF Both, IInv, TypeOK
<1>4. \A r \in Sub \ {s} : Same(r)
  BY <1>0, <1>2, <1>3 DEF Same
<1>5. CASE s \in again
  BY <1>1, <1>2, <1>4, <1>5, StrayMoves DEF Both
<1>6. CASE s \notin again
  <2>1. Mark(s)'
    <3>1. ~ (s > spawned)
      BY <1>1, <1>6 DEF Mark
    <3> QED BY <1>0, <1>1, <1>2, <1>3, <1>6, <3>1 DEF Mark
  <2>2. Marks'
    BY <1>1, <1>4, <2>1, OneMoves DEF Both
  <2>3. Standing(s)' = st
    BY <1>0, <1>1, <1>2, <1>3, <1>6, <2>2, StandsNext DEF Both
  <2> QED BY <1>1, <1>2, <1>4, <1>6, <2>1, <2>3, MoveServed DEF Both
<1> QED BY <1>5, <1>6

\* The answer of a run is told.
LEMMA DeliverServed ==
    ASSUME Both, NEW t \in Task, Deliver(t)
    PROVE  Served
<1>0. PICK s \in Sub : s = job[t]
  BY AtWork DEF Deliver, Body, Suspended
<1>1. phase[t] = "delivering" /\ phase[t] \in Body /\ answer[t] \in Answer
  BY DEF Deliver, Body, Suspended, Both, IInv, Following, TypeOK
<1>2. s \notin again => Standing(s) = "running"
  BY <1>0, <1>1, AtWork
<1>3. /\ UNCHANGED <<spawned, registered, status, running, handle, results, killed, again>>
      /\ told' = [told EXCEPT ![s] = Append(@, answer[t])]
  BY <1>0 DEF Deliver, registry, past
<1>4. \A r \in Sub : Same(r)
  BY <1>3 DEF Same
<1>5. Marks'
  BY <1>4, <1>2, OneMoves DEF Both, Marks, Mark, Same
<1>6. Shown' = Shown
  BY <1>4, SameStands DEF Shown
<1>7. CASE s \in again
  <2>1. Heard' = Heard
    BY <1>3, <1>7 DEF Heard, Both, IInv, TypeOK
  <2> QED BY <1>5, <1>6, <2>1 DEF Served, Service!vars, Shown, Heard
<1>8. CASE s \notin again
  <2>1. Heard' = [Heard EXCEPT ![s] = Append(@, answer[t])]
    BY <1>2, <1>3, <1>8 DEF Heard, Both, IInv, TypeOK
  <2>2. Shown[s] = "running"
    BY <1>2, <1>8 DEF Shown
  <2>3. Service!Tell(s)
    BY <1>1, <1>6, <2>1, <2>2 DEF Service!Tell, Shown, Heard
  <2> QED BY <1>2, <1>5, <2>3 DEF Served, Service!Next
<1> QED BY <1>7, <1>8

\* A run begins, or finds another of the same subagent.
LEMMA BeginServed ==
    ASSUME Both, NEW t \in Task, Begin(t)
    PROVE  Served
<1>0. PICK s \in Sub : s = job[t]
  BY AtWork DEF Begin
<1>1. /\ phase[t] = "created"
      /\ UNCHANGED <<spawned, registered, handle, results, told, killed, again>>
  BY DEF Begin, outside, past
<1>2. /\ s \notin again => /\ s \in registered /\ s \notin killed \cup results
                           /\ Mark(s) /\ Standing(s) = status[s] /\ status[s] = "pending"
  BY <1>0, <1>1, NoBody, AtWork
<1>3. CASE s \in running
  <2>1. UNCHANGED <<running, status>>
    BY <1>0, <1>3 DEF Begin
  <2>2. \A r \in Sub : Same(r)
    BY <1>1, <2>1 DEF Same
  <2> QED BY <1>1, <2>2, NobodyMoves DEF Both
<1>4. CASE s \notin running
  <2>1. running' = running \cup {s} /\ status' = [status EXCEPT ![s] = "running"]
    BY <1>0, <1>4 DEF Begin
  <2>2. status'[s] = "running" /\ \A r \in Sub \ {s} : status'[r] = status[r]
    BY <1>2, <2>1 DEF Both, IInv, TypeOK
  <2>3. \A r \in Sub \ {s} : Same(r)
    BY <1>1, <2>1, <2>2 DEF Same
  <2>4. CASE s \in again
    BY <1>1, <1>2, <2>3, <2>4, StrayMoves DEF Both
  <2>5. CASE s \notin again
    <3>1. ~ (s > spawned)
      BY <1>2, <2>5, SubagentsAssumption DEF Both, IInv, Tables, Numbered, TypeOK, Sub
    <3>2. Mark(s)'
      BY <1>1, <1>2, <2>1, <2>2, <2>5, <3>1 DEF Mark
    <3>3. Marks'
      BY <1>2, <2>3, <3>2, OneMoves DEF Both
    <3>4. Standing(s)' = "running"
      BY <1>1, <1>2, <2>2, <2>5, <3>3, StandsNext DEF Both
    <3> QED BY <1>1, <1>2, <2>3, <2>5, <3>2, <3>4, MoveServed DEF Both
  <2> QED BY <2>4, <2>5
<1> QED BY <1>3, <1>4

\* A killed run unwinds, unseen.
LEMMA UnwindServed ==
    ASSUME Both, NEW t \in Task, Unwind(t)
    PROVE  Served
<1>2. phase[t] # "none" /\ phase[t] \notin Body
  BY NoBody DEF Unwind, Unwinding
<1>0. PICK s \in Sub : s = job[t]
  BY <1>2, SubagentsAssumption DEF Both, IInv, Tables, Numbered, TypeOK, Sub
<1>1. /\ phase[t] \in Unwinding /\ running' = running \ {s} /\ handle' = [handle EXCEPT ![s] = None]
      /\ UNCHANGED <<spawned, registered, status, results, told, killed, again>>
  BY <1>0 DEF Unwind, Finally, outside, past
<1>4. \A r \in Sub \ {s} : Same(r)
  BY <1>0, <1>1 DEF Same, Both, IInv, TypeOK
<1>5. CASE s \in again
  BY <1>1, <1>4, <1>5, StrayMoves DEF Both
<1>6. CASE s \notin again
  <2>1. s \notin running
    <3>1. \A u \in Task : ~ InBody(u, s)
      BY <1>0, <1>2, <1>6, NoBody DEF InBody, Both, IInv, Tables, Single
    <3> QED BY <1>6, <3>1 DEF Both, IInv, Tables, RunningIsTrue
  <2>2. Same(s)
    BY <1>1, <2>1 DEF Same, Both, IInv, TypeOK
  <2> QED BY <1>1, <1>4, <2>2, NobodyMoves DEF Both
<1> QED BY <1>5, <1>6

\* What is known of the next subagent, and of it once it is there.
LEMMA NewSubIs ==
    ASSUME Both, NEW p, NEW f, NEW handles, handles \in [Sub -> Task \cup {None}],
           NEW phases, NEW kept, NewSub(p, f, handles, phases, kept), UNCHANGED <<status, again>>,
           NEW n, n = spawned + 1
    PROVE  /\ n \in Sub /\ n > spawned /\ n \notin again \cup registered \cup running \cup results \cup killed
           /\ status'[n] = "pending" /\ Standing(n) = "new"
           /\ spawned' = n /\ registered' = kept \cup {n}
           /\ \A r \in Sub \ {n} : handle'[r] = handles[r] /\ (r > spawned' <=> r > spawned)
<1>1. /\ spawned \in Nat /\ spawned + 1 \in Sub /\ spawned' = n /\ registered' = kept \cup {n}
      /\ handle' = [handles EXCEPT ![n] = started + 1]
  BY SubagentsAssumption DEF NewSub, NewTask, Both, IInv, TypeOK, Sub
<1>2. n \in Sub /\ n > spawned /\ \A r \in Sub \ {n} : r > n <=> r > spawned
  BY <1>1 DEF Sub
<1>3. n \notin again \cup registered \cup running \cup results \cup killed
  BY <1>1, <1>2 DEF Both, IInv, Tables, Numbered
<1>4. Standing(n) = "new"
  BY <1>2, <1>3, Stands DEF Both
<1>5. status'[n] = "pending"
  BY <1>2, <1>3 DEF Both, Marks, Mark
<1>6. \A r \in Sub \ {n} : handle'[r] = handles[r] /\ (r > spawned' <=> r > spawned)
  BY <1>1, <1>2
<1> QED BY <1>1, <1>2, <1>3, <1>4, <1>5, <1>6, Zenon

\* A subagent is started, and nobody is killed for it.
LEMMA SpawnServed ==
    ASSUME Both, NEW p, NEW f, NewSub(p, f, handle, phase, registered),
           UNCHANGED <<status, running, results, told, killed, again>>
    PROVE  Served
<1>1. PICK n : n = spawned + 1
  OBVIOUS
<1>2. handle \in [Sub -> Task \cup {None}]
  BY DEF Both, IInv, TypeOK
<1>3. /\ n \in Sub /\ n > spawned /\ n \notin again \cup registered \cup running \cup results \cup killed
      /\ status'[n] = "pending" /\ Standing(n) = "new"
      /\ spawned' = n /\ registered' = registered \cup {n}
      /\ \A r \in Sub \ {n} : handle'[r] = handle[r] /\ (r > spawned' <=> r > spawned)
  BY <1>1, <1>2, NewSubIs
<1>4. \A r \in Sub \ {n} : Same(r)
  BY <1>3 DEF Same
<1>5. Mark(n)'
  BY <1>3 DEF Mark, Sub
<1>6. Marks'
  BY <1>3, <1>4, <1>5, OneMoves DEF Both
<1>7. Standing(n)' = "pending"
  BY <1>3, <1>6, StandsNext DEF Both
<1> QED BY <1>3, <1>4, <1>5, <1>7, MoveServed DEF Both

\* What kill_subagent finds of a subagent not run by hand.
LEMMA KilledIs ==
    ASSUME Both, NEW s \in Sub, Killable(s)
    PROVE  /\ s \in 1 .. spawned
           /\ s \notin again => Standing(s) \in {"pending", "running"}
<1>1. TypeOK /\ Tables /\ handle[s] # None
  BY DEF Both, IInv, Killable
<1>2. handle[s] \in Task /\ job[handle[s]] = s /\ phase[handle[s]] # "none"
  BY <1>1 DEF Tables, Numbered, TypeOK, Task
<1>3. s \in 1 .. spawned
  BY <1>1, <1>2 DEF Tables, Numbered
<1>4. ASSUME s \notin again PROVE Standing(s) \in {"pending", "running"}
  <2>1. s \in registered /\ s \notin killed
    BY <1>1, <1>4 DEF Tables, Owned, OneOutcome
  <2>2. Mark(s) /\ Standing(s) = status[s]
    BY <1>4, <2>1, Stands DEF Both, Marks
  <2> QED BY <1>1, <2>2 DEF Mark
<1> QED BY <1>3, <1>4

\* A subagent is killed.
LEMMA KillServed ==
    ASSUME Both, NEW s \in Sub, Kill(s)
    PROVE  Served
<1>1. /\ Killable(s) /\ killed' = killed \cup {s} /\ running' = running \ {s}
      /\ handle' = [handle EXCEPT ![s] = None] /\ registered' = registered \ {s}
      /\ UNCHANGED <<spawned, status, results, told, again>>
  BY DEF Kill, KillSteps, outside
<1>2. \A r \in Sub \ {s} : Same(r)
  BY <1>1 DEF Same, Both, IInv, TypeOK
<1>3. CASE s \in again
  BY <1>1, <1>2, <1>3, StrayMoves DEF Both
<1>4. CASE s \notin again
  <2>1. Standing(s) \in {"pending", "running"}
    BY <1>1, <1>4, KilledIs
  <2>2. Marks'
    BY <1>1, <1>2, OneMoves DEF Both
  <2>3. Standing(s)' = "killed"
    BY <1>1, <1>4, <2>2, StandsNext DEF Both
  <2> QED BY <1>1, <1>2, <1>4, <2>1, <2>3, MoveServed DEF Both
<1> QED BY <1>3, <1>4

\* One is killed and another is started in its place.
LEMMA InterruptServed ==
    ASSUME Both, NEW s \in Sub, Killable(s), KillSteps(s), NEW phases, NEW p, NEW f,
           NewSub(p, f, [handle EXCEPT ![s] = None], phases, registered \ {s}),
           UNCHANGED <<status, results, told, again>>
    PROVE  Served
<1>1. PICK n : n = spawned + 1
  OBVIOUS
<1>2. killed' = killed \cup {s} /\ running' = running \ {s}
  BY DEF KillSteps
<1>3. [handle EXCEPT ![s] = None] \in [Sub -> Task \cup {None}]
  BY DEF Both, IInv, TypeOK
<1>4. s \in 1 .. spawned /\ (s \notin again => Standing(s) \in {"pending", "running"})
  BY KilledIs
<1>5. /\ n \in Sub /\ n > spawned /\ n \notin again \cup registered \cup running \cup results \cup killed
      /\ status'[n] = "pending" /\ Standing(n) = "new"
      /\ spawned' = n /\ registered' = (registered \ {s}) \cup {n}
      /\ \A r \in Sub \ {n} : handle'[r] = [handle EXCEPT ![s] = None][r] /\ (r > spawned' <=> r > spawned)
  <2>1. PICK hs : hs = [handle EXCEPT ![s] = None]
    OBVIOUS
  <2>2. PICK kept : kept = registered \ {s}
    OBVIOUS
  <2>3. NewSub(p, f, hs, phases, kept) /\ UNCHANGED <<status, again>> /\ hs \in [Sub -> Task \cup {None}]
    BY <1>3, <2>1, <2>2
  <2>4. /\ n \in Sub /\ n > spawned /\ n \notin again \cup registered \cup running \cup results \cup killed
        /\ status'[n] = "pending" /\ Standing(n) = "new"
        /\ spawned' = n /\ registered' = kept \cup {n}
        /\ \A r \in Sub \ {n} : handle'[r] = hs[r] /\ (r > spawned' <=> r > spawned)
    BY <1>1, <2>3, NewSubIs
  <2> QED BY <2>1, <2>2, <2>4, Zenon
<1>6. s # n /\ n \notin killed'
  BY <1>2, <1>4, <1>5, SubagentsAssumption DEF Both, IInv, TypeOK
<1>7. \A r \in Sub \ {s, n} : Same(r)
  BY <1>2, <1>5, <1>6 DEF Same, Both, IInv, TypeOK
<1>8. Mark(n)'
  BY <1>2, <1>5, <1>6 DEF Mark, Sub
<1>9. Marks'
  <2>1. \A r \in Sub \ {s, n} : r \notin again' \cup killed' => Mark(r)'
    BY <1>7 DEF Both, Marks, Mark, Same
  <2> QED BY <1>2, <1>8, <2>1 DEF Marks
<1>10. /\ Standing(n)' = "pending"
       /\ \A r \in Sub \ {s, n} : Standing(r)' = Standing(r)
  BY <1>5, <1>6, <1>7, <1>9, StandsNext, SameStands DEF Both
<1>11. Heard' = Heard
  BY DEF Heard
<1>12. CASE s \in again
  <2>1. Standing(s)' = Standing(s)
    BY <1>12 DEF Standing
  <2>2. Shown' = [Shown EXCEPT ![n] = "pending"] /\ Shown[n] = "new"
    BY <1>5, <1>10, <2>1 DEF Shown
  <2>3. Service!Spawn(n)
    BY <1>11, <2>2 DEF Service!Spawn, Service!Move, Shown, Heard
  <2> QED BY <1>5, <1>9, <2>3 DEF Served, Service!Next
<1>13. CASE s \notin again
  <2>1. Standing(s)' = "killed"
    BY <1>2, <1>9, <1>13, StandsNext DEF Both
  <2>2. /\ Shown' = [Shown EXCEPT ![s] = "killed", ![n] = "pending"]
        /\ Shown[n] = "new" /\ Shown[s] \in {"pending", "running"}
    BY <1>4, <1>5, <1>6, <1>10, <1>13, <2>1 DEF Shown
  <2>3. Service!Interrupt(s, n)
    BY <1>11, <2>2 DEF Service!Interrupt, Shown, Heard
  <2> QED BY <1>5, <1>9, <2>3 DEF Served, Service!Next
<1> QED BY <1>12, <1>13

\* A subagent is run by hand.
LEMMA RunNowServed ==
    ASSUME Both, NEW s \in Sub, RunNow(s)
    PROVE  Served
<1>1. /\ s \in registered /\ again' = again \cup {s}
      /\ handle' = [handle EXCEPT ![s] = started + 1]
      /\ UNCHANGED <<spawned, registered, status, running, results, told, killed>>
  BY DEF RunNow, NewTask, outside
<1>2. \A r \in Sub \ {s} : Same(r)
  BY <1>1 DEF Same, Both, IInv, TypeOK
<1>3. CASE s \in again
  BY <1>1, <1>2, <1>3, StrayMoves DEF Both
<1>4. CASE s \notin again
  <2>1. s \notin killed \cup results
    BY <1>1, <1>4 DEF Both, IInv, Tables, OneOutcome
  <2>2. Standing(s) = status[s] /\ Mark(s)
    BY <1>1, <1>4, <2>1, Stands DEF Both, Marks
  <2>3. Standing(s) \in {"pending", "running", "failed"}
    BY <1>1, <2>2 DEF Mark, Both, IInv, TypeOK, Status
  <2>4. Standing(s)' = "by hand"
    BY <1>1 DEF Standing
  <2>5. Marks' /\ Service!Move(s, {"pending", "running", "failed"}, "by hand")
    BY <1>1, <1>2, <2>3, <2>4, OneMoves DEF Both
  <2>6. Heard' = [Heard EXCEPT ![s] = <<>>]
    BY <1>1 DEF Heard
  <2>7. Service!ByHand(s)
    BY <2>5, <2>6 DEF Service!ByHand, Heard
  <2> QED BY <2>5, <2>7 DEF Served, Service!Next
<1> QED BY <1>3, <1>4

\* Every step serves.
LEMMA StepServed ==
    ASSUME Both, [Next]_vars
    PROVE  Served
<1>1. ASSUME UNCHANGED <<spawned, registered, status, running, handle, results, told, killed, again>>
      PROVE  Served
  BY <1>1, NobodyMoves DEF Both, Same
<1>2. \A t \in Task : FailRun(t) /\ phase[t] \in Body => Served
  BY EndServed DEF FailRun
<1>3. /\ InTurn \subseteq Body /\ Suspended \subseteq Body /\ Cleaning \subseteq Body
      /\ {"opening", "evicting", "failing", "timing"} \subseteq Body
  BY DEF Body, Suspended, Cleaning
<1>4. ASSUME NEW t \in Task, Run(t) PROVE Served
  <2>1. CASE Begin(t)
    BY <2>1, BeginServed
  <2>2. CASE Deliver(t)
    BY <2>2, DeliverServed
  <2>3. CASE Complete(t)
    BY <1>3, <2>3, EndServed DEF Complete
  <2>4. CASE OpenFails(t) \/ Fail(t) \/ TimedOut(t)
    BY <1>2, <1>3, <2>4 DEF OpenFails, Fail, TimedOut
  <2>5. CASE Timeout(t)
    <3>1. CASE phase[t] \in Cleaning \cup {"opening"} /\ FailRun(t)
      BY <1>2, <1>3, <3>1
    <3>2. CASE UNCHANGED <<registry, outside, past>>
      BY <1>1, <3>2 DEF registry, outside, past
    <3> QED BY <2>5, <3>1, <3>2 DEF Timeout
  <2>6. CASE Unwind(t)
    BY <2>6, UnwindServed
  <2>7. CASE Open(t) \/ TurnEnds(t) \/ TurnRaises(t) \/ FollowUpEnds(t) \/ FollowUpRaises(t)
    <3>1. UNCHANGED <<registry, outside, past>>
      BY <2>7 DEF Open, TurnEnds, TurnRaises, FollowUpEnds, FollowUpRaises
    <3> QED BY <1>1, <3>1 DEF registry, outside, past
  <2>8. CASE DeliveryRaises(t)
    BY <1>1, <2>8 DEF DeliveryRaises, registry, outside
  <2> QED BY <1>4, <2>1, <2>2, <2>3, <2>4, <2>5, <2>6, <2>7, <2>8 DEF Run
<1>5. CASE Spawn
  BY <1>5, SpawnServed DEF Spawn, outside, past
<1>6. CASE CloseChat
  BY <1>1, <1>6 DEF CloseChat, registry, past
<1>7. ASSUME NEW s \in Sub, Interrupt(s) PROVE Served
  <2>1. UNCHANGED <<status, results, told, again>>
    BY <1>7 DEF Interrupt, outside
  <2>2. CASE Killable(s)
    BY <1>7, <2>1, <2>2, InterruptServed DEF Interrupt
  <2>3. CASE ~ Killable(s)
    BY <1>7, <2>1, <2>3, SpawnServed DEF Interrupt
  <2> QED BY <2>2, <2>3
<1>8. \A s \in Sub, m \in Msg : Send(s, m) => Served
  BY <1>1 DEF Send, registry, outside, past
<1>9. CASE UNCHANGED vars
  BY <1>1, <1>9 DEF vars, registry, outside, past
<1> QED
  BY <1>4, <1>5, <1>6, <1>7, <1>8, <1>9, KillServed, RunNowServed DEF Next

\* In the beginning every subagent is to come.
LEMMA InitServed ==
    ASSUME Init
    PROVE  Marks /\ Service!Init
<1>1. Marks
  BY SubagentsAssumption DEF Init, Marks, Mark
<1>2. \A s \in Sub : s > spawned /\ s \notin again
  BY DEF Init, Sub
<1>3. \A s \in Sub : Standing(s) = "new"
  BY <1>1, <1>2, InitIInv, Stands
<1>4. Shown = [s \in Sub |-> "new"] /\ Heard = [s \in Sub |-> <<>>]
  BY <1>3 DEF Shown, Heard, Init
<1> QED BY <1>1, <1>4 DEF Service!Init, Shown, Heard

\* Job.status, the running set, the results and the handles agree: status says "running"
\* exactly of what runs and "completed" exactly of what has an answer cached.
THEOREM StatusIsRight == Spec => []Marks
<1>1. Init => Marks
  BY InitServed
<1>2. IInv /\ IInv' /\ Marks /\ [Next]_vars => Marks'
  BY StepServed DEF Both, Served
<1> QED BY Inductive, <1>1, <1>2, PTL DEF Spec

\* Unless it was run by hand, a subagent that is running can be killed: kill_subagent
\* finds a task of it that has not ended.
THEOREM RunningCanBeKilled == Spec => [](\A s \in running \ again : Killable(s))
<1>1. IInv => \A s \in running \ again : Killable(s)
  <2> SUFFICES ASSUME IInv, NEW s \in running \ again PROVE Killable(s)
    OBVIOUS
  <2>1. s \in Sub
    BY DEF IInv, TypeOK
  <2>2. handle[s] # None /\ phase[handle[s]] \in Body
    BY <2>1 DEF IInv, Tables, RunningIsTrue, InBody
  <2> QED BY <2>2, NoBody DEF Killable
<1> QED BY Inductive, <1>1, PTL

\* The scheduler and the executor, with their tasks, handles, time-outs and interrupted
\* clean-ups, implement what a caller of the subagents API is promised.
THEOREM SubagentsImplementService == Spec => ImplementsService
<1>1. Init => Service!Init
  BY InitServed
<1>2. IInv /\ IInv' /\ Marks /\ [Next]_vars => [Service!Next]_(Service!vars)
  BY StepServed DEF Both, Served
<1> QED BY Inductive, StatusIsRight, <1>1, <1>2, PTL DEF Spec, ImplementsService, Service!Spec
=============================================================================
