----------------------- MODULE ConversationLogProofs -----------------------
(***************************************************************************)
(* The sessions and their files implement ConversationLog.  The argument   *)
(* is that in an undisturbed session the files hold exactly the exchanges  *)
(* that were answered in it, whatever the runners' logs went through; what *)
(* a step does to the files is then what it does to the answered messages. *)
(***************************************************************************)
EXTENDS ConversationProofs

---------------------------------------------------------------------------
(* Only what was answered is written: to an app's message_history, and from *)
(* there to a file.                                                         *)

KindInv == \A m \in Msg : phase[m] \in Using => kind[m] \in {"chat", "deliver"}
OnlyAnswered == /\ \A s \in Session : hist[s] \cup archived[s] \subseteq Exchanges
                /\ \A r \in Msg : log[r] \subseteq Exchanges

\* The active session is the last one created and nobody works on a later one.
Latest == /\ pointer = IF created = 0 THEN None ELSE created
          /\ \A m \in Msg : session[m] # None => session[m] <= created

LogInv == KindInv /\ OnlyAnswered /\ Latest

\* What a step of message m adds to logs and files is m, and only by answering it.
AddsOnly(m) ==
    /\ \A r \in Msg : log'[r] \subseteq Exchanges \cup {m}
    /\ \A s \in Session : hist'[s] \subseteq Exchanges \cup {m}
    /\ phase'[m] # "answered" => /\ \A r \in Msg : log'[r] \subseteq Exchanges
                                 /\ \A s \in Session : hist'[s] \subseteq Exchanges

\* The message that has the lock loads the history and adds at most itself.
LEMMA WorkAdds ==
    ASSUME TypeInv, OnlyAnswered, NEW m \in Msg, NEW r \in Msg, NEW lg \in SUBSET Exchanges,
           NEW rest, session[m] \in Session, Work(m, r, lg, rest)
    PROVE  AddsOnly(m)
<1> DEFINE h == History(m, r, lg)
<1>1. h \subseteq Exchanges
    BY DEF OnlyAnswered, History
<1>2. CASE kind[m] = "deliver"
    <2>1. /\ log' = [log EXCEPT ![r] = h \cup {m}]
          /\ hist' = [hist EXCEPT ![session[m]] = h \cup {m}]
          /\ phase' = [phase EXCEPT ![m] = "answered"]
        BY <1>2 DEF Work
    <2> HIDE DEF h
    <2>2. phase'[m] = "answered" BY <2>1 DEF TypeInv, TypeOK, Proc
    <2> QED BY <1>1, <2>1, <2>2 DEF TypeInv, TypeOK, OnlyAnswered, AddsOnly
<1>3. CASE kind[m] # "deliver"
    <2>1. log' = [log EXCEPT ![r] = h] /\ hist' = hist
        BY <1>3 DEF Work
    <2> HIDE DEF h
    <2> QED BY <1>1, <2>1 DEF TypeInv, TypeOK, OnlyAnswered, AddsOnly
<1> QED BY <1>2, <1>3

\* So does a message that takes the run lock, or joins the line for it.
LEMMA LockAdds ==
    ASSUME TypeInv, OnlyAnswered, NEW m \in Msg, NEW r \in Msg, NEW lg \in SUBSET Exchanges,
           session[m] \in Session, Lock(m, r, lg)
    PROVE  AddsOnly(m)
<1>1. CASE line[r] = <<>>
    <2>1. Work(m, r, lg, <<>>) BY <1>1 DEF Lock
    <2> QED BY <2>1, WorkAdds
<1>2. CASE line[r] # <<>>
    <2>1. log' = [log EXCEPT ![r] = lg] /\ hist' = hist BY <1>2 DEF Lock
    <2> QED BY <2>1 DEF TypeInv, TypeOK, OnlyAnswered, AddsOnly
<1> QED BY <1>1, <1>2

\* So does a message that enters run_stream; it breaks its session only if it must open
\* the runner first.
LEMMA EnterAdds ==
    ASSUME TypeInv, OnlyAnswered, NEW m \in Msg, NEW r \in Msg,
           session[m] \in Session, Enter(m, r)
    PROVE  /\ AddsOnly(m)
           /\ disturbed \subseteq disturbed'
           /\ phase'[m] = "answered" => disturbed' = disturbed
<1>1. CASE r \in open
    <2>1. Lock(m, r, log[r]) /\ disturbed' = disturbed BY <1>1 DEF Enter
    <2>2. log[r] \in SUBSET Exchanges BY DEF OnlyAnswered
    <2> QED BY <2>1, <2>2, LockAdds
<1>2. CASE r \notin open
    <2>1. log' = log /\ hist' = hist /\ phase' = [phase EXCEPT ![m] = "opening"]
          /\ disturbed \subseteq disturbed'
        BY <1>2 DEF Enter
    <2>2. phase'[m] = "opening" BY <2>1 DEF TypeInv, TypeOK, Proc
    <2> QED BY <2>1, <2>2 DEF OnlyAnswered, AddsOnly
<1> QED BY <1>1, <1>2

\* What a step of message m on its runner, or straight on the history file, amounts to.
TurnOf(m) ==
    /\ phase[m] \in Working /\ session[m] \in Session
    /\ session' = session /\ kind' = kind /\ pointer' = pointer /\ created' = created
    /\ archived' = archived
    /\ \A x \in Msg \ {m} : phase'[x] = phase[x]
    /\ phase'[m] \in Using \cup {"answered"} /\ kind[m] \in {"chat", "deliver"}
    /\ AddsOnly(m)
    /\ disturbed \subseteq disturbed'
    /\ phase'[m] = "answered" => disturbed' = disturbed

LEMMA TurnIs ==
    ASSUME ConvAssumption, TypeInv, KindInv, OnlyAnswered, NEW m \in Msg,
           TakeRunner(m) \/ StartRun(m) \/ Deliver(m) \/ Opened(m) \/ GetLock(m) \/ Answer(m)
    PROVE  TurnOf(m)
<1>1. /\ phase[m] \in {"handed"} \cup Using
      /\ kind[m] \in {"chat", "deliver"}
      /\ session' = session /\ kind' = kind /\ pointer' = pointer /\ created' = created
      /\ archived' = archived
    BY DEF TakeRunner, GiveRunner, StartRun, Deliver, Opened, GetLock, Answer, Using, KindInv,
           manager, files
<1>2. phase[m] \in Working /\ session[m] \in Session
    BY <1>1 DEF TypeInv, Engaged, Working, Proc
<1>3. phase[m] \in Using => runner[m] \in Msg
    BY DEF TypeInv, Engaged
<1>4. ASSUME NEW ph \in Using \cup {"answered"}, phase' = [phase EXCEPT ![m] = ph]
      PROVE  phase'[m] = ph /\ \A x \in Msg \ {m} : phase'[x] = phase[x]
    BY <1>4 DEF TypeInv, TypeOK, Proc
<1>5. CASE TakeRunner(m)
    <2>1. hist' = hist /\ log' = log /\ disturbed' = disturbed
          /\ phase' = [phase EXCEPT ![m] = "prompting"]
        BY <1>5 DEF TakeRunner, GiveRunner, files, evictions
    <2>2. "prompting" \in Using BY DEF Using
    <2>3. phase'[m] = "prompting" /\ \A x \in Msg \ {m} : phase'[x] = phase[x]
        BY <1>4, <2>1, <2>2
    <2>4. AddsOnly(m) BY <2>1 DEF OnlyAnswered, AddsOnly
    <2> QED BY <1>1, <1>2, <2>1, <2>2, <2>3, <2>4 DEF TurnOf
<1>6. CASE StartRun(m)
    <2>1. runner[m] \in Msg /\ Enter(m, runner[m])
        BY <1>3, <1>6 DEF StartRun, Using
    <2>2. PICK ph \in {"answered", "sending", "waiting", "opening"} :
                    phase' = [phase EXCEPT ![m] = ph]
        BY <1>2, <2>1, EnterType
    <2>3. /\ AddsOnly(m) /\ disturbed \subseteq disturbed'
          /\ phase'[m] = "answered" => disturbed' = disturbed
        BY <1>2, <2>1, EnterAdds
    <2>4. ph \in Using \cup {"answered"} BY <2>2 DEF Using
    <2> QED BY <1>1, <1>2, <1>4, <2>2, <2>3, <2>4 DEF TurnOf
<1>7. CASE Deliver(m) /\ cache[session[m]] = None
    <2>1. /\ hist' = [hist EXCEPT ![session[m]] = @ \cup {m}] /\ log' = log
          /\ disturbed' = disturbed /\ phase' = [phase EXCEPT ![m] = "answered"]
        BY <1>7 DEF Deliver
    <2>2. phase'[m] = "answered" /\ \A x \in Msg \ {m} : phase'[x] = phase[x]
        BY <1>4, <2>1
    <2>3. AddsOnly(m)
        BY <1>2, <2>1, <2>2 DEF OnlyAnswered, AddsOnly, TypeInv, TypeOK
    <2> QED BY <1>1, <1>2, <2>1, <2>2, <2>3 DEF TurnOf
<1>8. CASE Deliver(m) /\ cache[session[m]] # None
    <2>1. PICK r \in Msg : r = cache[session[m]]
        BY <1>2, <1>8 DEF TypeInv, TypeOK
    <2>2. Enter(m, r) BY <1>8, <2>1 DEF Deliver
    <2>3. PICK ph \in {"answered", "sending", "waiting", "opening"} :
                    phase' = [phase EXCEPT ![m] = ph]
        BY <1>2, <2>2, EnterType
    <2>4. /\ AddsOnly(m) /\ disturbed \subseteq disturbed'
          /\ phase'[m] = "answered" => disturbed' = disturbed
        BY <1>2, <2>2, EnterAdds
    <2>5. ph \in Using \cup {"answered"} BY <2>3 DEF Using
    <2> QED BY <1>1, <1>2, <1>4, <2>3, <2>4, <2>5 DEF TurnOf
<1>9. CASE Opened(m)
    <2>1. runner[m] \in Msg /\ Lock(m, runner[m], {}) /\ disturbed' = disturbed
        BY <1>3, <1>9 DEF Opened, Using, evictions
    <2>2. {} \in SUBSET Exchanges /\ {} \in SUBSET Msg OBVIOUS
    <2>3. PICK ph \in {"answered", "sending", "waiting"} : phase' = [phase EXCEPT ![m] = ph]
        <3>1. \E ph \in {"answered", "sending", "waiting"} : phase' = [phase EXCEPT ![m] = ph]
            BY <1>2, <2>1, <2>2, LockType
        <3> QED BY <3>1
    <2>4. AddsOnly(m) BY <1>2, <2>1, <2>2, LockAdds
    <2>5. ph \in Using \cup {"answered"} BY <2>3 DEF Using
    <2> QED BY <1>1, <1>2, <1>4, <2>1, <2>3, <2>4, <2>5 DEF TurnOf
<1>10. CASE GetLock(m)
    <2> DEFINE r == runner[m]
    <2>1. r \in Msg /\ Work(m, r, log[r], Without(line[r], m)) /\ disturbed' = disturbed
        BY <1>3, <1>10 DEF GetLock, Using, evictions
    <2>2. log[r] \in SUBSET Exchanges /\ log[r] \in SUBSET Msg
        BY <2>1 DEF OnlyAnswered, TypeInv, TypeOK
    <2>3. Without(line[r], m) \in Seq(Msg) BY <2>1, WithoutType DEF TypeInv, TypeOK
    <2>4. PICK ph \in {"answered", "sending"} : phase' = [phase EXCEPT ![m] = ph]
        <3>1. \E ph \in {"answered", "sending"} : phase' = [phase EXCEPT ![m] = ph]
            BY <1>2, <2>1, <2>2, <2>3, WorkType
        <3> QED BY <3>1
    <2>5. AddsOnly(m) BY <1>2, <2>1, <2>2, WorkAdds
    <2>6. ph \in Using \cup {"answered"} BY <2>4 DEF Using
    <2> QED BY <1>1, <1>2, <1>4, <2>1, <2>4, <2>5, <2>6 DEF TurnOf
<1>11. CASE Answer(m)
    <2> DEFINE r == runner[m]
               h == IF m \in orphan THEN log[r] ELSE log[r] \cup {m}
    <2>1. /\ log' = [log EXCEPT ![r] = h]
          /\ hist' = IF r \in open /\ h # {} THEN [hist EXCEPT ![session[m]] = h] ELSE hist
          /\ phase' = [phase EXCEPT ![m] = "answered"]
          /\ disturbed' = disturbed
        BY <1>11 DEF Answer, evictions
    <2>2. phase'[m] = "answered" /\ \A x \in Msg \ {m} : phase'[x] = phase[x]
        BY <1>4, <2>1
    <2>3. h \subseteq Exchanges \cup {m}
        BY <1>3, <1>11 DEF Answer, Using, OnlyAnswered
    <2> HIDE DEF h
    <2>4. AddsOnly(m)
        BY <1>2, <2>1, <2>2, <2>3 DEF OnlyAnswered, AddsOnly, TypeInv, TypeOK
    <2> QED BY <1>1, <1>2, <2>1, <2>2, <2>4 DEF TurnOf
<1> QED BY <1>5, <1>6, <1>7, <1>8, <1>9, <1>10, <1>11

\* Everything else gives no runner and answers nobody; it may move files to archived/, lose logs, break
\* sessions and put a new session in the place of the active one.
Quiet ==
    /\ \A x \in Msg : phase'[x] \in Using => phase[x] \in Using /\ kind'[x] = kind[x]
    /\ Exchanges' = Exchanges
    /\ \A x \in Exchanges : session'[x] = session[x]
    /\ \A s \in Session : hist'[s] \cup archived'[s] \subseteq hist[s] \cup archived[s]
    /\ \A r \in Msg : log'[r] \subseteq log[r]
    /\ disturbed \subseteq disturbed'
    /\ \/ /\ pointer' = pointer /\ created' = created
          /\ \A x \in Msg : session'[x] \in {session[x], pointer}
       \/ /\ pointer' = created + 1 /\ created' = created + 1 /\ created + 1 \in Session
          /\ \A x \in Msg : session'[x] \in {session[x], created + 1}

\* A new session, after the last one.
LEMMA CreateIs ==
    ASSUME ConvAssumption, TypeInv, NEW m \in Msg, NEW idx, CreateSession(m, idx)
    PROVE  /\ pointer' = created + 1 /\ created' = created + 1 /\ created + 1 \in Session
           /\ \A x \in Msg : session'[x] \in {session[x], created + 1}
BY DEF ConvAssumption, TypeInv, TypeOK, CreateSession, Session, Proc

LEMMA RestIs ==
    ASSUME ConvAssumption, TypeInv, ServeInv, NEW m \in Msg,
           \/ ArriveFirst(m) \/ ArriveResume(m) \/ ArriveStale(m)
           \/ Fail(m) \/ FailDeliver(m) \/ Evicted(m) \/ RolledOver(m)
           \/ Command(m) \/ Replaced(m)
    PROVE  Quiet
<1>1. Alone(m) /\ Off(m) BY RestAlone
<1>2. phase[m] # "answered"
    BY DEF ArriveFirst, ArriveResume, ArriveStale, Arrived, Fail, FailDeliver, Evicted,
           RolledOver, Command, Replaced, Using
<1>3. Exchanges' = Exchanges /\ \A x \in Exchanges : session'[x] = session[x]
    <2>1. ASSUME NEW x \in Msg
          PROVE  /\ (phase'[x] = "answered" /\ kind'[x] \in {"chat", "deliver"})
                    <=> (phase[x] = "answered" /\ kind[x] \in {"chat", "deliver"})
                 /\ phase[x] = "answered" => session'[x] = session[x]
        <3>1. CASE x = m BY <1>1, <1>2, <3>1 DEF Off
        <3>2. CASE x # m BY <1>1, <3>2 DEF Alone
        <3> QED BY <3>1, <3>2
    <2>2. Exchanges' = Exchanges BY <2>1 DEF Exchanges
    <2> QED BY <2>1, <2>2 DEF Exchanges
<1>4. \A s \in Session : hist'[s] \cup archived'[s] \subseteq hist[s] \cup archived[s]
    <2>1. UNCHANGED files \/ \E s : Archive(s)
        BY DEF ArriveFirst, ArriveResume, ArriveStale, RolledOver, Fail, FailDeliver,
               Evicted, Command, Replaced
    <2> QED BY <2>1 DEF Archive, files, TypeInv, TypeOK
<1>5. \A r \in Msg : log'[r] \subseteq log[r]
    <2>1. log' = log \/ log' = [x \in Msg |-> IF x = closes[m] THEN {} ELSE log[x]]
        BY DEF ArriveFirst, ArriveResume, ArriveStale, RolledOver, Fail, FailDeliver,
               Evicted, Command, Replaced, Closed, runners
    <2> QED BY <2>1
<1>6. disturbed \subseteq disturbed'
    BY DEF ArriveFirst, ArriveResume, ArriveStale, RolledOver, Fail, FailDeliver,
           Evicted, Command, Replaced, Evict, Closed, evictions
<1>7. \/ /\ pointer' = pointer /\ created' = created
         /\ session' = session \/ session' = [session EXCEPT ![m] = pointer]
      \/ \E idx : CreateSession(m, idx)
    BY DEF ArriveFirst, ArriveResume, ArriveStale, RollOver, RolledOver, Fail, FailDeliver,
           Evicted, Command, Replaced, Replace, manager
<1>a. \A x \in Msg : phase'[x] \in Using => phase[x] \in Using /\ kind'[x] = kind[x]
    BY <1>1 DEF Alone, Off
<1>8. CASE \E idx : CreateSession(m, idx)
    BY <1>a, <1>3, <1>4, <1>5, <1>6, <1>8, CreateIs DEF Quiet
<1>9. CASE /\ pointer' = pointer /\ created' = created
           /\ session' = session \/ session' = [session EXCEPT ![m] = pointer]
    <2>1. \A x \in Msg : session'[x] \in {session[x], pointer}
        BY <1>9 DEF TypeInv, TypeOK, Proc
    <2> QED BY <1>a, <1>3, <1>4, <1>5, <1>6, <1>9, <2>1 DEF Quiet
<1> QED BY <1>7, <1>8, <1>9

\* The reaper, the configuration, midnight, restarts and crashes answer nobody.
LEMMA WorldIs ==
    ASSUME ConvAssumption, TypeInv,
           \/ Sweep \/ (\E s \in Session : Reap(s)) \/ Reaped
           \/ ForgetRunners \/ Midnight \/ Restart \/ (\E m \in Msg : CrashInSave(m))
    PROVE  Quiet
<1>0. Reaper \in Proc /\ Reaper \notin Msg BY DEF Proc, ConvAssumption
<1>1. /\ pointer' = pointer /\ created' = created /\ kind' = kind
      /\ disturbed \subseteq disturbed'
    BY DEF Sweep, Reap, Reaped, ForgetRunners, Midnight, Restart, CrashInSave, Down, manager,
           messages, evictions, Evict, Closed
<1>2. \A x \in Msg : /\ phase'[x] \in {phase[x], "failed"}
                     /\ phase[x] = "answered" => phase'[x] = phase[x]
                     /\ session'[x] = session[x]
    <2>1. CASE Sweep \/ ForgetRunners \/ Midnight
        BY <2>1 DEF Sweep, ForgetRunners, Midnight, messages
    <2>2. CASE (\E s \in Session : Reap(s)) \/ Reaped
        <3>1. /\ phase' = phase \/ \E ph : phase' = [phase EXCEPT ![Reaper] = ph]
              /\ session' = session \/ \E t : session' = [session EXCEPT ![Reaper] = t]
            BY <2>2 DEF Reap, Reaped
        <3>2. /\ \A x \in Msg : phase'[x] = phase[x]
              /\ \A x \in Msg : session'[x] = session[x]
            BY <1>0, <3>1 DEF TypeInv, TypeOK, Proc
        <3> QED BY <3>2
    <2>3. CASE Restart \/ (\E m \in Msg : CrashInSave(m))
        <3>1. Down BY <2>3 DEF Restart, CrashInSave
        <3>2. \A x \in Msg : /\ phase'[x] = IF phase[x] \in Working THEN "failed" ELSE phase[x]
                             /\ session'[x] = session[x]
            BY <1>0, <3>1 DEF Down, TypeInv, TypeOK, Proc
        <3>3. "answered" \notin Working BY DEF Working, Using
        <3> QED BY <3>2, <3>3
    <2> QED BY <2>1, <2>2, <2>3
<1>3. Exchanges' = Exchanges /\ \A x \in Exchanges : session'[x] = session[x]
    BY <1>1, <1>2 DEF Exchanges
<1>4. \A s \in Session : hist'[s] \cup archived'[s] \subseteq hist[s] \cup archived[s]
    BY DEF Sweep, Reap, Reaped, ForgetRunners, Midnight, Restart, CrashInSave, files,
           TypeInv, TypeOK
<1>5. \A r \in Msg : log'[r] \subseteq log[r]
    <2>1. \/ log' = log \/ log' = [x \in Msg |-> {}]
          \/ log' = [x \in Msg |-> IF x = closes[Reaper] THEN {} ELSE log[x]]
        BY DEF Sweep, Reap, Reaped, ForgetRunners, Midnight, Restart, CrashInSave, Down, Closed,
               runners
    <2> QED BY <2>1
<1>6. "failed" \notin Using BY DEF Using
<1> QED BY <1>1, <1>2, <1>3, <1>4, <1>5, <1>6 DEF Quiet

\* Every step is a stutter, one or the other.
LEMMA StepIs ==
    ASSUME ConvAssumption, TypeInv, ServeInv, KindInv, OnlyAnswered, [Next]_vars
    PROVE  UNCHANGED vars \/ Quiet \/ \E m \in Msg : TurnOf(m)
<1>1. ASSUME NEW m \in Msg,
             TakeRunner(m) \/ StartRun(m) \/ Deliver(m) \/ Opened(m) \/ GetLock(m) \/ Answer(m)
      PROVE  TurnOf(m)
    BY <1>1, TurnIs
<1>2. ASSUME NEW m \in Msg,
             \/ ArriveFirst(m) \/ ArriveResume(m) \/ ArriveStale(m)
             \/ Fail(m) \/ FailDeliver(m) \/ Evicted(m) \/ RolledOver(m)
             \/ Command(m) \/ Replaced(m)
      PROVE  Quiet
    BY <1>2, RestIs
<1>3. CASE \/ Sweep \/ (\E s \in Session : Reap(s)) \/ Reaped
           \/ ForgetRunners \/ Midnight \/ Restart \/ (\E m \in Msg : CrashInSave(m))
    BY <1>3, WorldIs
<1> QED BY <1>1, <1>2, <1>3 DEF Next, Proceed, Refused

\* The invariant the refinement needs beside those of the components.
LEMMA LogInit == ASSUME Init PROVE LogInv
BY DEF Init, LogInv, KindInv, OnlyAnswered, Latest, Using, Proc

LEMMA LogStep ==
    ASSUME ConvAssumption, TypeInv, ServeInv, LogInv, [Next]_vars
    PROVE  LogInv'
<1>1. CASE UNCHANGED vars
    BY <1>1 DEF vars, manager, files, runners, messages, LogInv, KindInv, OnlyAnswered, Latest,
                Exchanges
<1>2. ASSUME NEW m \in Msg, TurnOf(m) PROVE LogInv'
    <2>1. Exchanges \subseteq Exchanges'
          /\ (phase'[m] = "answered" => m \in Exchanges')
        <3>1. phase[m] # "answered" BY <1>2 DEF TurnOf, Working, Using
        <3> QED BY <1>2, <3>1 DEF TurnOf, Exchanges
    <2>2. KindInv' BY <1>2 DEF TurnOf, LogInv, KindInv
    <2>3. OnlyAnswered'
        <3>1. \A s \in Session : hist'[s] \subseteq Exchanges'
            BY <1>2, <2>1 DEF TurnOf, AddsOnly
        <3>2. \A r \in Msg : log'[r] \subseteq Exchanges'
            BY <1>2, <2>1 DEF TurnOf, AddsOnly
        <3>3. \A s \in Session : archived'[s] \subseteq Exchanges'
            BY <1>2, <2>1 DEF TurnOf, LogInv, OnlyAnswered
        <3> QED BY <3>1, <3>2, <3>3 DEF OnlyAnswered
    <2>4. Latest' BY <1>2 DEF TurnOf, LogInv, Latest
    <2> QED BY <2>2, <2>3, <2>4 DEF LogInv
<1>3. CASE Quiet
    <2>1. KindInv' BY <1>3 DEF Quiet, LogInv, KindInv
    <2>2. OnlyAnswered' BY <1>3 DEF Quiet, LogInv, OnlyAnswered
    <2>3. created \in Nat /\ \A x \in Msg : session[x] # None => session[x] \in Nat
        BY DEF ConvAssumption, TypeInv, TypeOK, Session, Proc
    <2>4. Latest'
        BY <1>3, <2>3, ConvAssumption DEF Quiet, LogInv, Latest, ConvAssumption
    <2> QED BY <2>1, <2>2, <2>4 DEF LogInv
<1> QED BY <1>1, <1>2, <1>3, StepIs DEF LogInv

---------------------------------------------------------------------------
(* The refinement.                                                          *)

\* In an undisturbed session the files hold exactly what was answered in it.
LEMMA KeptIs ==
    ASSUME TypeInv, OwnInv, ServeInv, LogInv
    PROVE  Kept = [s \in Session |-> IF s \in disturbed THEN {}
                                    ELSE {x \in Exchanges : session[x] = s}]
<1> SUFFICES ASSUME NEW s \in Session, s \notin disturbed
             PROVE  hist[s] \cup archived[s] = {x \in Exchanges : session[x] = s}
    BY DEF Kept
<1>1. \A x \in hist[s] \cup archived[s] : x \in Exchanges /\ session[x] = s
    BY DEF OwnInv, FilesOwned, LogInv, OnlyAnswered
<1>2. \A x \in Exchanges : session[x] = s => x \in hist[s] \cup archived[s]
    BY DEF ServeInv, AnsweredIsKept
<1> QED BY <1>1, <1>2

\* The same after a step.
LEMMA KeptStays ==
    ASSUME TypeInv', OwnInv', ServeInv', LogInv'
    PROVE  Kept' = [s \in Session |-> IF s \in disturbed' THEN {}
                                     ELSE {x \in Exchanges' : session'[x] = s}]
<1> SUFFICES ASSUME NEW s \in Session, s \notin disturbed'
             PROVE  hist'[s] \cup archived'[s] = {x \in Exchanges' : session'[x] = s}
    BY DEF Kept
<1>1. \A x \in hist'[s] \cup archived'[s] : x \in Exchanges' /\ session'[x] = s
    BY DEF OwnInv, FilesOwned, LogInv, OnlyAnswered
<1>2. \A x \in Exchanges' : session'[x] = s => x \in hist'[s] \cup archived'[s]
    BY DEF ServeInv, AnsweredIsKept
<1> QED BY <1>1, <1>2

\* A step that answers nobody is a stutter, breaks sessions or begins a new one.
LEMMA QuietImplements ==
    ASSUME ConvAssumption, TypeInv, TypeInv', OwnInv, OwnInv', ServeInv, ServeInv',
           LogInv, LogInv', Quiet
    PROVE  Log!Next
<1>1. /\ Kept = [s \in Session |-> IF s \in disturbed THEN {}
                                  ELSE {x \in Exchanges : session[x] = s}]
      /\ Kept' = [s \in Session |-> IF s \in disturbed' THEN {}
                                   ELSE {x \in Exchanges' : session'[x] = s}]
    BY KeptIs, KeptStays
<1>2. disturbed' \in SUBSET Session /\ disturbed \subseteq disturbed'
    BY DEF Quiet, TypeInv, TypeOK
<1>3. \A s \in Session : {x \in Exchanges' : session'[x] = s} = {x \in Exchanges : session[x] = s}
    BY DEF Quiet
<1>4. Kept' = [s \in Session |-> IF s \in disturbed' THEN {} ELSE Kept[s]]
    <2>1. \A s \in Session : Kept'[s] = IF s \in disturbed' THEN {} ELSE Kept[s]
        BY <1>1, <1>2, <1>3
    <2> QED BY <1>1, <2>1
<1>5. Log!Break BY <1>2, <1>4 DEF Log!Break
<1>6. CASE pointer' = pointer
    BY <1>5, <1>6 DEF Log!Next
<1>7. CASE pointer' = created + 1 /\ created + 1 \in Session
    <2>1. created \in Nat /\ \A x \in Msg : session[x] # None => session[x] \in Nat
        BY DEF ConvAssumption, TypeInv, TypeOK, Session, Proc
    <2>2. pointer # None => created + 1 > pointer
        BY <2>1 DEF LogInv, Latest
    <2>3. \A x \in Msg : session[x] # created + 1
        BY <2>1, ConvAssumption DEF LogInv, Latest, ConvAssumption
    <2>4. Kept[created + 1] = {}
        BY <1>1, <1>7, <2>3 DEF Exchanges
    <2> QED BY <1>5, <1>7, <2>2, <2>4 DEF Log!Next, Log!Begin
<1> QED BY <1>6, <1>7 DEF Quiet

\* A step of a turn answers nobody, or keeps one exchange in its own session.
LEMMA TurnImplements ==
    ASSUME ConvAssumption, TypeInv, TypeInv', OwnInv, OwnInv', ServeInv, ServeInv',
           LogInv, LogInv', NEW m \in Msg, TurnOf(m)
    PROVE  Log!Next
<1>1. /\ Kept = [s \in Session |-> IF s \in disturbed THEN {}
                                  ELSE {x \in Exchanges : session[x] = s}]
      /\ Kept' = [s \in Session |-> IF s \in disturbed' THEN {}
                                   ELSE {x \in Exchanges' : session'[x] = s}]
    BY KeptIs, KeptStays
<1>2. disturbed' \in SUBSET Session /\ disturbed \subseteq disturbed'
    BY DEF TurnOf, TypeInv, TypeOK
<1>3. m \notin Exchanges BY DEF TurnOf, Working, Using, Exchanges
<1>4. CASE phase'[m] # "answered" \/ session[m] \in disturbed
    <2>1. \A s \in Session \ disturbed' :
              {x \in Exchanges' : session'[x] = s} = {x \in Exchanges : session[x] = s}
        BY <1>2, <1>3, <1>4 DEF TurnOf, Exchanges
    <2>2. Kept' = [s \in Session |-> IF s \in disturbed' THEN {} ELSE Kept[s]]
        <3>1. \A s \in Session : Kept'[s] = IF s \in disturbed' THEN {} ELSE Kept[s]
            BY <1>1, <1>2, <2>1
        <3> QED BY <1>1, <3>1
    <2> QED BY <1>2, <2>2 DEF TurnOf, Log!Next, Log!Break
<1>5. CASE phase'[m] = "answered" /\ session[m] \notin disturbed
    <2>1. Exchanges' = Exchanges \cup {m} /\ session' = session /\ disturbed' = disturbed
        BY <1>3, <1>5 DEF TurnOf, Exchanges
    <2>2. Kept' = [Kept EXCEPT ![session[m]] = @ \cup {m}]
        <3>1. \A s \in Session : Kept'[s] = IF s = session[m] THEN Kept[s] \cup {m} ELSE Kept[s]
            BY <1>1, <1>5, <2>1
        <3>2. Kept' = [s \in Session |-> Kept'[s]] /\ Kept = [s \in Session |-> Kept[s]]
            BY <1>1
        <3> QED BY <3>1, <3>2, Zenon
    <2>3. \A t \in Session : m \notin Kept[t]
        BY <1>1, <1>3
    <2>4. session[m] \in Session /\ pointer # None /\ session[m] <= pointer
        <3>1. session[m] \in Session /\ session[m] \in Nat \ {0} /\ session[m] # None
            BY DEF TurnOf, Session, ConvAssumption
        <3>2. created \in Nat /\ session[m] <= created
            BY <3>1 DEF TypeInv, TypeOK, LogInv, Latest, ConvAssumption
        <3>3. pointer = created BY <3>1, <3>2 DEF LogInv, Latest
        <3> QED BY <3>1, <3>2, <3>3 DEF ConvAssumption
    <2> QED BY <1>5, <2>1, <2>2, <2>3, <2>4 DEF TurnOf, Log!Next, Log!Keep
<1> QED BY <1>4, <1>5

\* The sessions, runners and files implement ConversationLog: only later sessions, empty
\* ones, become active, and an undisturbed session's files gain each exchange once and
\* lose none, through any number of turns, deliveries, commands, rollovers, sweeps,
\* configuration reloads, failures and restarts.
THEOREM ConversationImplementsLog == Spec => ImplementsLog
<1> DEFINE Inv == TypeInv /\ OwnInv /\ ServeInv /\ LogInv
<1>1. Init => Inv BY TypeInit, OwnInit, ServeInit, LogInit, ConvAssumption
<1>2. Inv /\ [Next]_vars => Inv'
    BY TypeStep, OwnStep, ServeStep, LogStep, ConvAssumption
<1>3. Init => Log!Init
    BY DEF Init, Log!Init, Kept
<1>4. Inv /\ Inv' /\ [Next]_vars => [Log!Next]_(Log!vars)
    <2> SUFFICES ASSUME Inv, Inv', [Next]_vars PROVE [Log!Next]_(Log!vars)
        OBVIOUS
    <2>1. CASE UNCHANGED vars
        BY <2>1 DEF vars, manager, files, evictions, Log!vars, Kept
    <2>2. CASE Quiet
        BY <2>2, QuietImplements, ConvAssumption
    <2>3. ASSUME NEW m \in Msg, TurnOf(m) PROVE Log!Next
        BY <2>3, TurnImplements, ConvAssumption
    <2> QED BY <2>1, <2>2, <2>3, StepIs, ConvAssumption DEF LogInv
<1> QED BY <1>1, <1>2, <1>3, <1>4, PTL DEF Spec, ImplementsLog, Log!Spec
=============================================================================
