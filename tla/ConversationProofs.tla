------------------------- MODULE ConversationProofs -------------------------
(***************************************************************************)
(* What holds of the conversation for any number of messages, sessions,    *)
(* midnights and restarts.                                                 *)
(***************************************************************************)
EXTENDS Conversation, SequenceTheorems, TLAPS

---------------------------------------------------------------------------
(* Types.  A coroutine that works on a session knows which, a message that  *)
(* is being answered has a runner, and the pointer names a created session. *)

Engaged ==
    /\ \A p \in Proc : phase[p] \in Working => session[p] \in Session
    /\ \A m \in Msg : phase[m] = "answered" => session[m] \in Session
    /\ \A m \in Msg : phase[m] \in Using => runner[m] \in Msg
    /\ pointer # None => pointer <= created

TypeInv == TypeOK /\ Engaged

\* Taking a message out of a lock's queue leaves a queue.
LEMMA WithoutType ==
    ASSUME NEW q \in Seq(Msg), NEW m \in Msg
    PROVE  Without(q, m) \in Seq(Msg)
<1>1. CASE \E i \in 1 .. Len(q) : q[i] = m
    <2> DEFINE i == CHOOSE i \in 1 .. Len(q) : q[i] = m
    <2>1. i \in 1 .. Len(q) BY <1>1
    <2>2. SubSeq(q, 1, i - 1) \in Seq(Msg) /\ SubSeq(q, i + 1, Len(q)) \in Seq(Msg)
        <3>1. i \in Int /\ i - 1 \in Int /\ i + 1 \in Int /\ Len(q) \in Int BY <2>1
        <3> HIDE DEF i
        <3>0. \A j \in 1 .. Len(q) : q[j] \in Msg OBVIOUS
        <3>2. /\ \A j \in 1 .. i - 1 : q[j] \in Msg
              /\ \A j \in i + 1 .. Len(q) : q[j] \in Msg
            BY <2>1, <3>0, <3>1
        <3>3. SubSeq(q, 1, i - 1) \in Seq(Msg) BY <3>1, <3>2, SubSeqProperties
        <3>4. SubSeq(q, i + 1, Len(q)) \in Seq(Msg) BY <3>1, <3>2, SubSeqProperties
        <3> QED BY <3>3, <3>4
    <2>3. Without(q, m) = SubSeq(q, 1, i - 1) \o SubSeq(q, i + 1, Len(q))
        BY <1>1 DEF Without
    <2> QED BY <2>2, <2>3
<1>2. CASE ~ \E i \in 1 .. Len(q) : q[i] = m
    BY <1>2 DEF Without
<1> QED BY <1>1, <1>2

\* A coroutine's eviction of a session's runner.
LEMMA EvictType ==
    ASSUME TypeOK, NEW p \in Proc, NEW s \in Session, Evict(p, s)
    PROVE  /\ cache' \in [Session -> Msg \cup {None}]
           /\ closes' \in [Proc -> Msg \cup {None}]
           /\ disturbed' \subseteq Session
BY DEF TypeOK, Evict

\* The end of cleanup().
LEMMA ClosedType ==
    ASSUME TypeOK, NEW p \in Proc, Closed(p)
    PROVE  /\ open' \subseteq Msg /\ orphan' \subseteq Msg
           /\ log' \in [Msg -> SUBSET Msg]
           /\ closes' \in [Proc -> Msg \cup {None}]
           /\ UNCHANGED <<cache, loaded, line, doomed, disturbed>>
BY DEF TypeOK, Closed, Users

\* A new active session.
LEMMA CreateType ==
    ASSUME ConvAssumption, TypeInv, NEW m \in Msg, NEW idx \in [Session -> Day \cup {None}],
           CreateSession(m, idx)
    PROVE  /\ pointer' \in Session /\ created' \in 0 .. MaxSessions
           /\ pointer' <= created' /\ pointer' > created
           /\ saved' \in [Session -> Day \cup {None}]
           /\ index' \in [Session -> Day \cup {None}]
           /\ session' \in [Proc -> Session \cup {None}]
           /\ session'[m] = pointer'
           /\ \A p \in Proc \ {m} : session'[p] = session[p]
<1>1. created + 1 \in Session /\ created \in Nat
    BY DEF ConvAssumption, TypeInv, TypeOK, CreateSession, Session
<1>2. "today" \in Day BY DEF Day
<1> QED BY <1>1, <1>2 DEF ConvAssumption, TypeInv, TypeOK, CreateSession, Session, Proc

\* What a message that has the lock does to the runner.
LEMMA WorkType ==
    ASSUME TypeInv, NEW m \in Msg, NEW r \in Msg, NEW lg \in SUBSET Msg,
           NEW rest \in Seq(Msg), session[m] \in Session, Work(m, r, lg, rest)
    PROVE  /\ loaded' \subseteq Msg
           /\ log' \in [Msg -> SUBSET Msg]
           /\ hist' \in [Session -> SUBSET Msg]
           /\ line' \in [Msg -> Seq(Msg)]
           /\ \E ph \in {"answered", "sending"} : phase' = [phase EXCEPT ![m] = ph]
<1>1. History(m, r, lg) \in SUBSET Msg
    BY DEF TypeInv, TypeOK, History
<1>2. <<m>> \o rest \in Seq(Msg) OBVIOUS
<1>3. loaded' \subseteq Msg BY DEF TypeInv, TypeOK, Work
<1>4. CASE kind[m] = "deliver"
    <2>1. /\ log' = [log EXCEPT ![r] = History(m, r, lg) \cup {m}]
          /\ hist' = [hist EXCEPT ![session[m]] = History(m, r, lg) \cup {m}]
          /\ line' = [line EXCEPT ![r] = rest]
          /\ phase' = [phase EXCEPT ![m] = "answered"]
        BY <1>4 DEF Work
    <2> QED BY <1>1, <1>3, <2>1 DEF TypeInv, TypeOK
<1>5. CASE kind[m] # "deliver"
    <2>1. /\ log' = [log EXCEPT ![r] = History(m, r, lg)]
          /\ hist' = hist
          /\ line' = [line EXCEPT ![r] = <<m>> \o rest]
          /\ phase' = [phase EXCEPT ![m] = "sending"]
        BY <1>5 DEF Work
    <2> QED BY <1>1, <1>2, <1>3, <2>1 DEF TypeInv, TypeOK
<1> QED BY <1>4, <1>5

\* The same for a message that takes or waits for the run lock (runner.py:1172).
LEMMA LockType ==
    ASSUME TypeInv, NEW m \in Msg, NEW r \in Msg, NEW lg \in SUBSET Msg,
           session[m] \in Session, Lock(m, r, lg)
    PROVE  /\ loaded' \subseteq Msg
           /\ log' \in [Msg -> SUBSET Msg]
           /\ hist' \in [Session -> SUBSET Msg]
           /\ line' \in [Msg -> Seq(Msg)]
           /\ \E ph \in {"answered", "sending", "waiting"} : phase' = [phase EXCEPT ![m] = ph]
<1>1. CASE line[r] = <<>>
    <2>1. Work(m, r, lg, <<>>) BY <1>1 DEF Lock
    <2>2. <<>> \in Seq(Msg) OBVIOUS
    <2>3. /\ loaded' \subseteq Msg
          /\ log' \in [Msg -> SUBSET Msg]
          /\ hist' \in [Session -> SUBSET Msg]
          /\ line' \in [Msg -> Seq(Msg)]
        BY <2>1, <2>2, WorkType
    <2>4. \E ph \in {"answered", "sending"} : phase' = [phase EXCEPT ![m] = ph]
        BY <2>1, <2>2, WorkType
    <2>5. \E ph \in {"answered", "sending", "waiting"} : phase' = [phase EXCEPT ![m] = ph]
        BY <2>4
    <2> QED BY <2>3, <2>5
<1>2. CASE line[r] # <<>>
    <2>1. /\ line' = [line EXCEPT ![r] = Append(line[r], m)]
          /\ log' = [log EXCEPT ![r] = lg]
          /\ phase' = [phase EXCEPT ![m] = "waiting"]
          /\ UNCHANGED <<loaded, hist>>
        BY <1>2 DEF Lock
    <2>2. Append(line[r], m) \in Seq(Msg) BY DEF TypeInv, TypeOK
    <2> QED BY <2>1, <2>2 DEF TypeInv, TypeOK
<1> QED BY <1>1, <1>2

\* The same for a message that enters run_stream, with initialize() before the lock.
LEMMA EnterType ==
    ASSUME TypeInv, NEW m \in Msg, NEW r \in Msg, session[m] \in Session, Enter(m, r)
    PROVE  /\ loaded' \subseteq Msg /\ disturbed' \subseteq Session
           /\ log' \in [Msg -> SUBSET Msg]
           /\ hist' \in [Session -> SUBSET Msg]
           /\ line' \in [Msg -> Seq(Msg)]
           /\ \E ph \in {"answered", "sending", "waiting", "opening"} :
                    phase' = [phase EXCEPT ![m] = ph]
<1>1. CASE r \in open
    <2>1. Lock(m, r, log[r]) /\ disturbed' = disturbed BY <1>1 DEF Enter
    <2>2. log[r] \in SUBSET Msg BY DEF TypeInv, TypeOK
    <2>3. disturbed \subseteq Session BY DEF TypeInv, TypeOK
    <2> QED BY <2>1, <2>2, <2>3, LockType
<1>2. CASE r \notin open
    BY <1>2 DEF Enter, TypeInv, TypeOK
<1> QED BY <1>1, <1>2

\* The types at the start.
LEMMA TypeInit == ASSUME ConvAssumption, Init PROVE TypeInv
<1>1. TypeOK
    BY DEF ConvAssumption, Init, TypeOK, Phase, Proc
<1>2. Engaged
    BY DEF Init, Engaged, Using, Working, Proc
<1> QED BY <1>1, <1>2 DEF TypeInv

\* The types when a message arrives.
LEMMA ArriveType ==
    ASSUME ConvAssumption, TypeInv, NEW m \in Msg,
           ArriveFirst(m) \/ ArriveResume(m) \/ ArriveStale(m)
    PROVE  TypeInv'
<1> USE DEF TypeInv, TypeOK, Engaged, Using, Working, Phase, Proc, ConvAssumption
<1>1. kind' \in [Msg -> Kind \cup {None}]
    <2>1. Arrived(m) BY DEF ArriveFirst, ArriveResume, ArriveStale
    <2>2. PICK k \in Kinds[m] : kind' = [kind EXCEPT ![m] = k] BY <2>1 DEF Arrived
    <2>3. k \in Kind BY <2>2
    <2> QED BY <2>2, <2>3
<1>2. CASE ArriveFirst(m)
    <2>1. CASE kind'[m] = "deliver"
        <3>1. /\ phase' = [phase EXCEPT ![m] = "failed"]
              /\ UNCHANGED <<manager, session>>
              /\ UNCHANGED <<files, runners, runner, orphan, detached, evictions, counters>>
            BY <1>2, <2>1 DEF ArriveFirst
        <3>2. TypeOK' BY <1>1, <3>1 DEF manager, files, runners, evictions, counters
        <3>3. Engaged' BY <3>1 DEF manager
        <3> QED BY <3>2, <3>3
    <2>2. CASE kind'[m] # "deliver"
        <3>1. /\ pointer' \in Session /\ created' \in 0 .. MaxSessions
              /\ pointer' <= created' /\ pointer' > created
              /\ saved' \in [Session -> Day \cup {None}]
              /\ index' \in [Session -> Day \cup {None}]
              /\ session' \in [Proc -> Session \cup {None}]
              /\ session'[m] = pointer'
              /\ \A p \in Proc \ {m} : session'[p] = session[p]
            BY <1>2, <2>2, CreateType DEF ArriveFirst
        <3>2. /\ phase' = [phase EXCEPT ![m] = "handed"]
              /\ UNCHANGED <<daily, files, runners, runner, orphan, detached, evictions, counters>>
            BY <1>2, <2>2 DEF ArriveFirst
        <3>3. TypeOK' BY <1>1, <3>1, <3>2 DEF files, runners, evictions, counters
        <3>4. Engaged' BY <1>1, <3>1, <3>2
        <3> QED BY <3>3, <3>4
    <2> QED BY <2>1, <2>2
<1>3. CASE ArriveResume(m)
    <2>1. DayOf(pointer) \in Day \cup {None} /\ pointer \in Session
        BY <1>3 DEF ArriveResume, DayOf
    <2>2. saved' \in [Session -> Day \cup {None}]
        BY <1>3, <2>1 DEF ArriveResume
    <2> QED BY <1>1, <1>3, <2>1, <2>2
        DEF ArriveResume, files, runners, evictions, counters
<1>4. CASE ArriveStale(m)
    <2>1. pointer \in Session /\ DayOf(pointer) \in Day \cup {None}
        BY <1>4 DEF ArriveStale, DayOf
    <2>2. /\ cache' \in [Session -> Msg \cup {None}]
          /\ closes' \in [Proc -> Msg \cup {None}]
          /\ disturbed' \subseteq Session
        BY <1>4, <2>1, EvictType DEF ArriveStale
    <2>3. hist' \in [Session -> SUBSET Msg] /\ archived' \in [Session -> SUBSET Msg]
        BY <1>4, <2>1 DEF ArriveStale, Archive
    <2>4. CASE Suspends(pointer)
        <3>1. /\ phase' = [phase EXCEPT ![m] = "rolling"]
              /\ session' = [session EXCEPT ![m] = pointer]
              /\ index' = [index EXCEPT ![pointer] = DayOf(pointer)]
              /\ UNCHANGED <<pointer, created, saved, detached>>
              /\ UNCHANGED <<daily, open, loaded, log, line, runner, orphan, doomed, counters>>
            BY <1>4, <2>4 DEF ArriveStale
        <3>2. TypeOK' BY <1>1, <2>1, <2>2, <2>3, <3>1 DEF counters
        <3>3. Engaged' BY <2>1, <3>1
        <3> QED BY <3>2, <3>3
    <2>5. CASE ~ Suspends(pointer)
        <3>1. Unindexed(index, pointer) \in [Session -> Day \cup {None}]
            BY DEF Unindexed
        <3>2. RollOver(m, pointer) BY <1>4, <2>5 DEF ArriveStale
        <3>3. CreateSession(m, Unindexed(index, pointer)) BY <3>2 DEF RollOver
        <3>4. /\ pointer' \in Session /\ created' \in 0 .. MaxSessions
              /\ pointer' <= created' /\ pointer' > created
              /\ saved' \in [Session -> Day \cup {None}]
              /\ index' \in [Session -> Day \cup {None}]
              /\ session' \in [Proc -> Session \cup {None}]
              /\ session'[m] = pointer'
              /\ \A p \in Proc \ {m} : session'[p] = session[p]
            BY <3>1, <3>3, CreateType
        <3>5. detached' \subseteq Msg BY <3>2 DEF RollOver, Detached
        <3>6. /\ phase' = [phase EXCEPT ![m] = "handed"]
              /\ UNCHANGED <<daily, open, loaded, log, line, runner, orphan, doomed, counters>>
            BY <1>4, <3>2 DEF ArriveStale, RollOver
        <3>7. TypeOK' BY <1>1, <2>2, <2>3, <3>4, <3>5, <3>6 DEF counters
        <3>8. Engaged' BY <1>1, <3>4, <3>6
        <3> QED BY <3>7, <3>8
    <2> QED BY <2>4, <2>5
<1> QED BY <1>2, <1>3, <1>4

\* The types over the steps of a turn.
LEMMA TurnType ==
    ASSUME ConvAssumption, TypeInv, NEW m \in Msg,
           TakeRunner(m) \/ StartRun(m) \/ Deliver(m) \/ Opened(m) \/ GetLock(m) \/ Answer(m)
    PROVE  TypeInv'
<1> USE DEF TypeInv, TypeOK, Engaged, Using, Working, Phase, Proc, ConvAssumption
<1>1. CASE TakeRunner(m)
    <2>1. PICK r \in Msg : GiveRunner(m, r)
        BY <1>1 DEF TakeRunner, GiveRunner
    <2>2. TypeOK' BY <2>1 DEF GiveRunner, manager, files, evictions, counters
    <2>3. Engaged' BY <2>1 DEF GiveRunner, manager
    <2> QED BY <2>2, <2>3
<1>2. CASE StartRun(m)
    <2>1. session[m] \in Session /\ runner[m] \in Msg /\ Enter(m, runner[m])
        BY <1>2 DEF StartRun
    <2>2. /\ loaded' \subseteq Msg /\ disturbed' \subseteq Session
          /\ log' \in [Msg -> SUBSET Msg]
          /\ hist' \in [Session -> SUBSET Msg]
          /\ line' \in [Msg -> Seq(Msg)]
        BY <2>1, EnterType
    <2>3. PICK ph \in {"answered", "sending", "waiting", "opening"} :
                    phase' = [phase EXCEPT ![m] = ph]
        BY <2>1, EnterType
    <2>4. UNCHANGED <<manager, archived, cache, open, kind, session, runner, orphan,
                      detached, closes, doomed, counters>>
        BY <1>2 DEF StartRun
    <2>5. TypeOK' BY <2>2, <2>3, <2>4 DEF manager, counters
    <2>6. Engaged' BY <2>1, <2>3, <2>4 DEF manager
    <2> QED BY <2>5, <2>6
<1>3. CASE Deliver(m)
    <2>1. /\ session[m] \in Session
          /\ UNCHANGED <<manager, archived, cache, open, kind, session, orphan, detached,
                         closes, doomed, counters>>
        BY <1>3 DEF Deliver
    <2>2. CASE cache[session[m]] = None
        <3>1. /\ hist' = [hist EXCEPT ![session[m]] = @ \cup {m}]
              /\ phase' = [phase EXCEPT ![m] = "answered"]
              /\ UNCHANGED <<runner, loaded, log, line, disturbed>>
            BY <1>3, <2>2 DEF Deliver
        <3>2. TypeOK' BY <2>1, <3>1 DEF manager, counters
        <3>3. Engaged' BY <2>1, <3>1 DEF manager
        <3> QED BY <3>2, <3>3
    <2>3. CASE cache[session[m]] # None
        <3>1. /\ runner' = [runner EXCEPT ![m] = cache[session[m]]]
              /\ Enter(m, cache[session[m]])
              /\ cache[session[m]] \in Msg
            BY <1>3, <2>1, <2>3 DEF Deliver
        <3>2. /\ loaded' \subseteq Msg /\ disturbed' \subseteq Session
              /\ log' \in [Msg -> SUBSET Msg]
              /\ hist' \in [Session -> SUBSET Msg]
              /\ line' \in [Msg -> Seq(Msg)]
            BY <2>1, <3>1, EnterType
        <3>3. PICK ph \in {"answered", "sending", "waiting", "opening"} :
                        phase' = [phase EXCEPT ![m] = ph]
            BY <2>1, <3>1, EnterType
        <3>4. TypeOK' BY <2>1, <3>1, <3>2, <3>3 DEF manager, counters
        <3>5. Engaged' BY <2>1, <3>1, <3>3 DEF manager
        <3> QED BY <3>4, <3>5
    <2> QED BY <2>2, <2>3
<1>4. CASE Opened(m)
    <2>1. session[m] \in Session /\ runner[m] \in Msg /\ Lock(m, runner[m], {})
        BY <1>4 DEF Opened
    <2>a. {} \in SUBSET Msg OBVIOUS
    <2>2. /\ loaded' \subseteq Msg
          /\ log' \in [Msg -> SUBSET Msg]
          /\ hist' \in [Session -> SUBSET Msg]
          /\ line' \in [Msg -> Seq(Msg)]
        BY <2>1, <2>a, LockType
    <2>b. \E ph \in {"answered", "sending", "waiting"} : phase' = [phase EXCEPT ![m] = ph]
        <3> HIDE DEF TypeInv, TypeOK, Engaged, Using, Working, Phase, Proc, ConvAssumption
        <3> QED BY <2>1, <2>a, LockType
    <2>3. PICK ph \in {"answered", "sending", "waiting"} : phase' = [phase EXCEPT ![m] = ph]
        BY <2>b
    <2>4. /\ open' \subseteq Msg /\ orphan' \subseteq Msg
          /\ UNCHANGED <<manager, archived, cache, kind, session, runner, detached,
                         evictions, counters>>
        BY <1>4, <2>1 DEF Opened, Users
    <2>5. TypeOK' BY <2>2, <2>3, <2>4 DEF manager, evictions, counters
    <2>6. Engaged' BY <2>1, <2>3, <2>4 DEF manager
    <2> QED BY <2>5, <2>6
<1>5. CASE GetLock(m)
    <2>1. /\ session[m] \in Session /\ runner[m] \in Msg
          /\ Work(m, runner[m], log[runner[m]], Without(line[runner[m]], m))
        BY <1>5 DEF GetLock
    <2>a. log[runner[m]] \in SUBSET Msg BY <2>1
    <2>b. Without(line[runner[m]], m) \in Seq(Msg)
        BY <2>1, WithoutType
    <2>2. /\ loaded' \subseteq Msg
          /\ log' \in [Msg -> SUBSET Msg]
          /\ hist' \in [Session -> SUBSET Msg]
          /\ line' \in [Msg -> Seq(Msg)]
        BY <2>1, <2>a, <2>b, WorkType
    <2>3. PICK ph \in {"answered", "sending"} : phase' = [phase EXCEPT ![m] = ph]
        BY <2>1, <2>a, <2>b, WorkType
    <2>4. UNCHANGED <<manager, archived, cache, open, kind, session, runner, orphan,
                      detached, evictions, counters>>
        BY <1>5 DEF GetLock
    <2>5. TypeOK' BY <2>2, <2>3, <2>4 DEF manager, evictions, counters
    <2>6. Engaged' BY <2>1, <2>3, <2>4 DEF manager
    <2> QED BY <2>5, <2>6
<1>6. CASE Answer(m)
    <2> DEFINE history == IF m \in orphan THEN log[runner[m]] ELSE log[runner[m]] \cup {m}
    <2>1. session[m] \in Session /\ runner[m] \in Msg
        BY <1>6 DEF Answer
    <2>2. history \in SUBSET Msg BY <2>1
    <2>3. /\ log' = [log EXCEPT ![runner[m]] = history]
          /\ hist' = [hist EXCEPT ![session[m]] = history] \/ hist' = hist
          /\ line' = [line EXCEPT ![runner[m]] = Without(line[runner[m]], m)]
        BY <1>6 DEF Answer
    <2> HIDE DEF history
    <2>4. Without(line[runner[m]], m) \in Seq(Msg) BY <2>1, WithoutType
    <2>5. /\ log' \in [Msg -> SUBSET Msg]
          /\ hist' \in [Session -> SUBSET Msg]
          /\ line' \in [Msg -> Seq(Msg)]
        BY <2>1, <2>2, <2>3, <2>4
    <2>6. /\ saved' \in [Session -> Day \cup {None}]
          /\ index' \in [Session -> Day \cup {None}]
        BY <1>6 DEF Answer, Day
    <2>7. /\ phase' = [phase EXCEPT ![m] = "answered"]
          /\ runner' = [runner EXCEPT ![m] = None]
          /\ orphan' \subseteq Msg /\ detached' \subseteq Msg
          /\ UNCHANGED <<daily, pointer, created, archived, cache, open, loaded, kind,
                         session, evictions, counters>>
        BY <1>6 DEF Answer, LetGo
    <2>8. TypeOK' BY <2>5, <2>6, <2>7 DEF evictions, counters
    <2>9. Engaged' BY <2>1, <2>7
    <2> QED BY <2>8, <2>9
<1> QED BY <1>1, <1>2, <1>3, <1>4, <1>5, <1>6

\* The types over failures, rollovers and commands.
LEMMA EvictionStepsType ==
    ASSUME ConvAssumption, TypeInv, NEW m \in Msg,
           \/ Fail(m) \/ FailDeliver(m) \/ Evicted(m) \/ RolledOver(m)
           \/ Command(m) \/ Replaced(m)
    PROVE  TypeInv'
<1> USE DEF TypeInv, TypeOK, Engaged, Using, Working, Phase, Proc, ConvAssumption
<1>0. m \in Proc OBVIOUS
<1>1. CASE Fail(m)
    <2>1. session[m] \in Session /\ runner[m] \in Msg /\ Evict(m, session[m])
        BY <1>1 DEF Fail
    <2>2. /\ cache' \in [Session -> Msg \cup {None}]
          /\ closes' \in [Proc -> Msg \cup {None}]
          /\ disturbed' \subseteq Session
        BY <1>0, <2>1, EvictType
    <2>3. Without(line[runner[m]], m) \in Seq(Msg) BY <2>1, WithoutType
    <2>4. line' \in [Msg -> Seq(Msg)] BY <1>1, <2>1, <2>3 DEF Fail
    <2>5. PICK ph \in {"evicting", "failed"} : phase' = [phase EXCEPT ![m] = ph]
        BY <1>1 DEF Fail
    <2>6. /\ runner' = [runner EXCEPT ![m] = None]
          /\ orphan' \subseteq Msg /\ detached' \subseteq Msg
          /\ UNCHANGED <<manager, files, open, loaded, log, kind, session, doomed, counters>>
        BY <1>1 DEF Fail, LetGo
    <2>7. TypeOK' BY <2>2, <2>4, <2>5, <2>6 DEF manager, files, counters
    <2>8. Engaged' BY <2>1, <2>5, <2>6 DEF manager
    <2> QED BY <2>7, <2>8
<1>2. CASE FailDeliver(m)
    <2>1. runner[m] \in Msg BY <1>2 DEF FailDeliver
    <2>2. Without(line[runner[m]], m) \in Seq(Msg) BY <2>1, WithoutType
    <2>3. line' \in [Msg -> Seq(Msg)] BY <1>2, <2>1, <2>2 DEF FailDeliver
    <2>4. /\ phase' = [phase EXCEPT ![m] = "failed"]
          /\ runner' = [runner EXCEPT ![m] = None]
          /\ orphan' \subseteq Msg /\ detached' \subseteq Msg
          /\ UNCHANGED <<manager, files, cache, open, loaded, log, kind, session,
                         evictions, counters>>
        BY <1>2 DEF FailDeliver, LetGo
    <2>5. TypeOK' BY <2>3, <2>4 DEF manager, files, evictions, counters
    <2>6. Engaged' BY <2>4 DEF manager
    <2> QED BY <2>5, <2>6
<1>3. CASE Evicted(m)
    <2>1. /\ open' \subseteq Msg /\ orphan' \subseteq Msg
          /\ log' \in [Msg -> SUBSET Msg]
          /\ closes' \in [Proc -> Msg \cup {None}]
          /\ UNCHANGED <<cache, loaded, line, doomed, disturbed>>
        BY <1>0, <1>3, ClosedType DEF Evicted
    <2>2. /\ phase' = [phase EXCEPT ![m] = "failed"]
          /\ UNCHANGED <<manager, files, kind, session, runner, detached, counters>>
        BY <1>3 DEF Evicted
    <2>3. TypeOK' BY <2>1, <2>2 DEF manager, files, counters
    <2>4. Engaged' BY <2>2 DEF manager
    <2> QED BY <2>3, <2>4
<1>4. CASE RolledOver(m)
    <2>1. /\ open' \subseteq Msg /\ orphan' \subseteq Msg
          /\ log' \in [Msg -> SUBSET Msg]
          /\ closes' \in [Proc -> Msg \cup {None}]
          /\ UNCHANGED <<cache, loaded, line, doomed, disturbed>>
        BY <1>0, <1>4, ClosedType DEF RolledOver
    <2>2. session[m] \in Session /\ RollOver(m, session[m]) BY <1>4 DEF RolledOver
    <2>3. Unindexed(index, session[m]) \in [Session -> Day \cup {None}]
        BY <2>2 DEF Unindexed
    <2>4. /\ pointer' \in Session /\ created' \in 0 .. MaxSessions
          /\ pointer' <= created' /\ pointer' > created
          /\ saved' \in [Session -> Day \cup {None}]
          /\ index' \in [Session -> Day \cup {None}]
          /\ session' \in [Proc -> Session \cup {None}]
          /\ session'[m] = pointer'
          /\ \A p \in Proc \ {m} : session'[p] = session[p]
        BY <2>2, <2>3, CreateType DEF RollOver
    <2>5. /\ phase' = [phase EXCEPT ![m] = "handed"]
          /\ detached' \subseteq Msg
          /\ UNCHANGED <<daily, files, kind, runner, counters>>
        BY <1>4, <2>2 DEF RolledOver, RollOver, Detached
    <2>6. TypeOK' BY <2>1, <2>4, <2>5 DEF files, counters
    <2>7. Engaged' BY <2>4, <2>5
    <2> QED BY <2>6, <2>7
<1>5. CASE Command(m)
    <2>1. session[m] \in Session /\ Evict(m, session[m])
        BY <1>5 DEF Command
    <2>2. /\ cache' \in [Session -> Msg \cup {None}]
          /\ closes' \in [Proc -> Msg \cup {None}]
          /\ disturbed' \subseteq Session
        BY <1>0, <2>1, EvictType
    <2>3. hist' \in [Session -> SUBSET Msg] /\ archived' \in [Session -> SUBSET Msg]
        <3>1. Archive(session[m]) \/ UNCHANGED files BY <1>5 DEF Command
        <3>2. CASE Archive(session[m]) BY <2>1, <3>2 DEF Archive
        <3>3. CASE UNCHANGED files BY <3>3 DEF files
        <3> QED BY <3>1, <3>2, <3>3
    <2>4. UNCHANGED <<daily, open, loaded, log, line, kind, runner, orphan, detached,
                      doomed, counters>>
        BY <1>5 DEF Command
    <2>5. CASE Suspends(session[m])
        <3>1. /\ phase' = [phase EXCEPT ![m] = "replacing"]
              /\ UNCHANGED <<pointer, created, saved, index, session>>
            BY <1>5, <2>5 DEF Command
        <3>2. TypeOK' BY <2>2, <2>3, <2>4, <3>1 DEF counters
        <3>3. Engaged' BY <2>1, <2>4, <3>1
        <3> QED BY <3>2, <3>3
    <2>6. CASE ~ Suspends(session[m])
        <3>1. Replace(m) BY <1>5, <2>6 DEF Command
        <3>2. /\ pointer' \in Session /\ created' \in 0 .. MaxSessions
              /\ pointer' <= created' /\ pointer' > created
              /\ saved' \in [Session -> Day \cup {None}]
              /\ index' \in [Session -> Day \cup {None}]
              /\ session' \in [Proc -> Session \cup {None}]
              /\ session'[m] = pointer'
              /\ \A p \in Proc \ {m} : session'[p] = session[p]
            BY <3>1, CreateType DEF Replace
        <3>3. phase' = [phase EXCEPT ![m] = "answered"] BY <3>1 DEF Replace
        <3>4. TypeOK' BY <2>2, <2>3, <2>4, <3>2, <3>3 DEF counters
        <3>5. Engaged' BY <2>4, <3>2, <3>3
        <3> QED BY <3>4, <3>5
    <2> QED BY <2>5, <2>6
<1>6. CASE Replaced(m)
    <2>1. /\ open' \subseteq Msg /\ orphan' \subseteq Msg
          /\ log' \in [Msg -> SUBSET Msg]
          /\ closes' \in [Proc -> Msg \cup {None}]
          /\ UNCHANGED <<cache, loaded, line, doomed, disturbed>>
        BY <1>0, <1>6, ClosedType DEF Replaced
    <2>2. /\ pointer' \in Session /\ created' \in 0 .. MaxSessions
          /\ pointer' <= created' /\ pointer' > created
          /\ saved' \in [Session -> Day \cup {None}]
          /\ index' \in [Session -> Day \cup {None}]
          /\ session' \in [Proc -> Session \cup {None}]
          /\ session'[m] = pointer'
          /\ \A p \in Proc \ {m} : session'[p] = session[p]
        BY <1>6, CreateType DEF Replaced, Replace
    <2>3. /\ phase' = [phase EXCEPT ![m] = "answered"]
          /\ UNCHANGED <<daily, files, kind, runner, detached, counters>>
        BY <1>6 DEF Replaced, Replace
    <2>4. TypeOK' BY <2>1, <2>2, <2>3 DEF files, counters
    <2>5. Engaged' BY <2>2, <2>3
    <2> QED BY <2>4, <2>5
<1> QED BY <1>1, <1>2, <1>3, <1>4, <1>5, <1>6

\* The types over the steps of the reaper, midnight and restarts.
LEMMA WorldType ==
    ASSUME ConvAssumption, TypeInv,
           \/ Sweep \/ (\E s \in Session : Reap(s)) \/ Reaped
           \/ ForgetRunners \/ Midnight \/ Restart \/ (\E m \in Msg : CrashInSave(m))
    PROVE  TypeInv'
<1> USE DEF TypeInv, TypeOK, Engaged, Using, Working, Phase, Proc, ConvAssumption
<1>0. Reaper \in Proc OBVIOUS
<1>1. CASE Sweep
    <2>1. TypeOK' BY <1>1 DEF Sweep, manager, files, runners, messages, counters
    <2>2. Engaged' BY <1>1 DEF Sweep, manager, messages
    <2> QED BY <2>1, <2>2
<1>2. ASSUME NEW s \in Session, Reap(s) PROVE TypeInv'
    <2>1. /\ doomed' \subseteq Session
          /\ UNCHANGED <<daily, pointer, created, saved, files, open, loaded, log, line,
                         kind, runner, orphan, counters>>
        BY <1>2 DEF Reap
    <2>2. CASE index[s] = None
        <3>1. UNCHANGED <<index, cache, closes, disturbed, phase, session, detached>>
            BY <1>2, <2>2 DEF Reap
        <3>2. TypeOK' BY <2>1, <3>1 DEF files, counters
        <3>3. Engaged' BY <2>1, <3>1
        <3> QED BY <3>2, <3>3
    <2>3. CASE index[s] # None
        <3>1. Evict(Reaper, s) BY <1>2, <2>3 DEF Reap
        <3>2. /\ cache' \in [Session -> Msg \cup {None}]
              /\ closes' \in [Proc -> Msg \cup {None}]
              /\ disturbed' \subseteq Session
            BY <1>0, <3>1, EvictType
        <3>3. CASE Suspends(s)
            <4>1. /\ phase' = [phase EXCEPT ![Reaper] = "evicting"]
                  /\ session' = [session EXCEPT ![Reaper] = s]
                  /\ UNCHANGED <<index, detached>>
                BY <1>2, <2>3, <3>3 DEF Reap
            <4>2. TypeOK' BY <2>1, <3>2, <4>1 DEF files, counters
            <4>3. Engaged' BY <2>1, <4>1
            <4> QED BY <4>2, <4>3
        <3>4. CASE ~ Suspends(s)
            <4>1. /\ index' \in [Session -> Day \cup {None}]
                  /\ detached' \subseteq Msg
                  /\ UNCHANGED <<phase, session>>
                BY <1>2, <2>3, <3>4 DEF Reap, Unindexed, Detached
            <4>2. TypeOK' BY <2>1, <3>2, <4>1 DEF files, counters
            <4>3. Engaged' BY <2>1, <4>1
            <4> QED BY <4>2, <4>3
        <3> QED BY <3>3, <3>4
    <2> QED BY <2>2, <2>3
<1>3. CASE Reaped
    <2>1. /\ open' \subseteq Msg /\ orphan' \subseteq Msg
          /\ log' \in [Msg -> SUBSET Msg]
          /\ closes' \in [Proc -> Msg \cup {None}]
          /\ UNCHANGED <<cache, loaded, line, doomed, disturbed>>
        BY <1>0, <1>3, ClosedType DEF Reaped
    <2>2. /\ index' \in [Session -> Day \cup {None}]
          /\ detached' \subseteq Msg
          /\ phase' = [phase EXCEPT ![Reaper] = "new"]
          /\ session' = [session EXCEPT ![Reaper] = None]
          /\ UNCHANGED <<daily, pointer, created, saved, files, kind, runner, counters>>
        BY <1>3 DEF Reaped, Unindexed, Detached
    <2>3. TypeOK' BY <2>1, <2>2 DEF files, counters
    <2>4. Engaged' BY <2>2
    <2> QED BY <2>3, <2>4
<1>4. CASE Midnight
    <2>1. /\ saved' \in [Session -> Day \cup {None}]
          /\ index' \in [Session -> Day \cup {None}]
        BY <1>4 DEF Midnight, Day
    <2>2. /\ days' \in 0 .. MaxDays
          /\ UNCHANGED <<daily, pointer, created, files, runners, messages, evictions, downs, reloads>>
        BY <1>4 DEF Midnight
    <2>3. TypeOK' BY <2>1, <2>2 DEF files, runners, messages, evictions
    <2>4. Engaged' BY <2>2 DEF messages
    <2> QED BY <2>3, <2>4
<1>5. ASSUME Down,
             hist' \in [Session -> SUBSET Msg], archived' \in [Session -> SUBSET Msg],
             disturbed' \subseteq Session
      PROVE  TypeInv'
    <2>1. /\ downs' \in 0 .. MaxDowns
          /\ index' \in [Session -> Day \cup {None}]
          /\ cache' \in [Session -> Msg \cup {None}]
          /\ open' = {} /\ loaded' = {}
          /\ log' \in [Msg -> SUBSET Msg]
          /\ line' = [m \in Msg |-> <<>>]
        BY <1>5 DEF Down
    <2>2. /\ phase' = [p \in Proc |-> IF phase[p] \notin Working THEN phase[p]
                                      ELSE IF p = Reaper THEN "new" ELSE "failed"]
          /\ session' = [session EXCEPT ![Reaper] = None]
          /\ closes' \in [Proc -> Msg \cup {None}]
          /\ runner' = [m \in Msg |-> None]
          /\ orphan' = {} /\ detached' = {} /\ doomed' = {}
          /\ UNCHANGED <<daily, pointer, created, saved, kind, days, reloads>>
        BY <1>5 DEF Down
    <2>3. \A p \in Proc : phase'[p] \in Phase \ Working
        BY <2>2
    <2>4. TypeOK' BY <1>5, <2>1, <2>2, <2>3
    <2>5. Engaged' BY <2>2, <2>3
    <2> QED BY <2>4, <2>5
<1>6. CASE Restart
    BY <1>5, <1>6 DEF Restart, files
<1>7. ASSUME NEW m \in Msg, CrashInSave(m) PROVE TypeInv'
    <2>1. session[m] \in Session BY <1>7 DEF CrashInSave
    <2>2. /\ Down
          /\ hist' \in [Session -> SUBSET Msg] /\ archived' \in [Session -> SUBSET Msg]
          /\ disturbed' \subseteq Session
        BY <1>7, <2>1 DEF CrashInSave
    <2> QED BY <1>5, <2>2
<1>8. CASE ForgetRunners
    <2>1. /\ cache' = [s \in Session |-> None] /\ disturbed' \subseteq Session
          /\ reloads' \in 0 .. MaxReloads
          /\ UNCHANGED <<manager, files, open, loaded, log, line, messages, closes, doomed, days, downs>>
        BY <1>8 DEF ForgetRunners
    <2>2. TypeOK' BY <2>1 DEF manager, files, messages
    <2>3. Engaged' BY <2>1 DEF manager, messages
    <2> QED BY <2>2, <2>3
<1> QED BY <1>1, <1>2, <1>3, <1>4, <1>6, <1>7, <1>8

\* No step of the system takes a variable out of its range.
LEMMA TypeStep == ASSUME ConvAssumption, TypeInv, [Next]_vars PROVE TypeInv'
<1>1. CASE UNCHANGED vars
    BY <1>1 DEF TypeInv, TypeOK, Engaged, vars, manager, files, runners, messages,
                evictions, counters
<1>2. ASSUME NEW m \in Msg, ArriveFirst(m) \/ ArriveResume(m) \/ ArriveStale(m)
      PROVE  TypeInv'
    BY <1>2, ArriveType
<1>3. ASSUME NEW m \in Msg, Proceed(m) \/ Fail(m) \/ FailDeliver(m)
      PROVE  TypeInv'
    <2>1. CASE TakeRunner(m) \/ StartRun(m) \/ Deliver(m) \/ Opened(m) \/ GetLock(m) \/ Answer(m)
        BY <2>1, TurnType
    <2>2. CASE \/ Fail(m) \/ FailDeliver(m) \/ Evicted(m) \/ RolledOver(m)
               \/ Command(m) \/ Replaced(m)
        BY <2>2, EvictionStepsType
    <2> QED BY <1>3, <2>1, <2>2 DEF Proceed, Refused
<1>4. CASE \/ Sweep \/ (\E s \in Session : Reap(s)) \/ Reaped
           \/ ForgetRunners \/ Midnight \/ Restart \/ (\E m \in Msg : CrashInSave(m))
    BY <1>4, WorldType
<1> QED BY <1>1, <1>2, <1>3, <1>4 DEF Next

\* Every variable stays in its range; a working coroutine and an answered message know
\* their session, a message that is being answered its runner, and the pointer names a
\* created session.
THEOREM TypeCorrect == Spec => [](TypeOK /\ Engaged)
<1>1. Init => TypeInv BY TypeInit, ConvAssumption
<1>2. TypeInv /\ [Next]_vars => TypeInv' BY TypeStep, ConvAssumption
<1>3. TypeInv => TypeOK /\ Engaged BY DEF TypeInv
<1> QED BY <1>1, <1>2, <1>3, PTL DEF Spec

---------------------------------------------------------------------------
(* Whose exchanges are where.  Once a message has a runner its session is   *)
(* fixed, and every runner, log and history file holds exchanges of one     *)
(* session only.                                                            *)

Fixed(m) == phase[m] \in Using \cup {"evicting", "answered", "failed"}

FilesOwned == \A s \in Session : \A x \in hist[s] \cup archived[s] : Fixed(x) /\ session[x] = s
CacheOwned == \A s \in Session : cache[s] # None => Fixed(cache[s]) /\ session[cache[s]] = s
RunnerOwned == \A m \in Msg : runner[m] # None =>
                   Fixed(m) /\ Fixed(runner[m]) /\ session[runner[m]] = session[m]
LogOwned == \A r \in Msg : \A x \in log[r] : Fixed(x) /\ Fixed(r) /\ session[x] = session[r]

OwnInv == FilesOwned /\ CacheOwned /\ RunnerOwned /\ LogOwned

\* A step after which no fixed message has another session.
FixedStays == \A x \in Msg : Fixed(x) => Fixed(x)' /\ session'[x] = session[x]

\* A step that adds nothing to files, cache, runners and logs keeps them owned.
LEMMA OwnKept ==
    ASSUME TypeInv, TypeInv', OwnInv, FixedStays,
           \A s \in Session : hist'[s] \cup archived'[s] \subseteq hist[s] \cup archived[s],
           \A s \in Session : cache'[s] \in {cache[s], None},
           \A m \in Msg : runner'[m] \in {runner[m], None},
           \A r \in Msg : log'[r] \subseteq log[r]
    PROVE  OwnInv'
<1> USE DEF TypeInv, TypeOK
<1>1. FilesOwned'
    <2> SUFFICES ASSUME NEW s \in Session, NEW x \in (hist[s] \cup archived[s])'
                 PROVE  Fixed(x)' /\ session'[x] = s
        BY DEF FilesOwned
    <2>1. x \in hist[s] \cup archived[s] /\ x \in Msg OBVIOUS
    <2> QED BY <2>1 DEF OwnInv, FilesOwned, FixedStays
<1>2. CacheOwned'
    BY DEF OwnInv, CacheOwned, FixedStays
<1>3. RunnerOwned'
    BY DEF OwnInv, RunnerOwned, FixedStays
<1>4. LogOwned'
    <2> SUFFICES ASSUME NEW r \in Msg, NEW x \in log'[r]
                 PROVE  Fixed(x)' /\ Fixed(r)' /\ session'[x] = session'[r]
        BY DEF LogOwned
    <2>1. x \in log[r] /\ x \in Msg OBVIOUS
    <2> QED BY <2>1 DEF OwnInv, LogOwned, FixedStays
<1> QED BY <1>1, <1>2, <1>3, <1>4 DEF OwnInv

\* What is added to logs and files by the message that has the lock is its own.
LogGrowsBy(m, r) ==
    \A q \in Msg : \A x \in log'[q] :
        (x = m /\ q = r) \/ (Fixed(x) /\ Fixed(q) /\ session[x] = session[q])
HistGrowsBy(m) ==
    \A s \in Session : \A x \in hist'[s] :
        (x = m /\ s = session[m]) \/ (Fixed(x) /\ session[x] = s)

\* A turn that starts adds to history and log only what belongs to its own session.
LEMMA WorkOwned ==
    ASSUME TypeInv, OwnInv, NEW m \in Msg, NEW r \in Msg, NEW lg \in SUBSET Msg,
           session[m] \in Session, Fixed(r), session[r] = session[m],
           \A x \in lg : Fixed(x) /\ session[x] = session[r],
           NEW rest, Work(m, r, lg, rest)
    PROVE  LogGrowsBy(m, r) /\ HistGrowsBy(m)
<1> DEFINE h == History(m, r, lg)
<1>1. h \in SUBSET Msg /\ \A x \in h : Fixed(x) /\ session[x] = session[r]
    BY DEF TypeInv, TypeOK, OwnInv, FilesOwned, History
<1>2. CASE kind[m] = "deliver"
    <2>1. log' = [log EXCEPT ![r] = h \cup {m}] /\ hist' = [hist EXCEPT ![session[m]] = h \cup {m}]
        BY <1>2 DEF Work
    <2> HIDE DEF h
    <2>2. LogGrowsBy(m, r)
        BY <1>1, <2>1 DEF TypeInv, TypeOK, OwnInv, LogOwned, LogGrowsBy
    <2>3. HistGrowsBy(m)
        BY <1>1, <2>1 DEF TypeInv, TypeOK, OwnInv, FilesOwned, HistGrowsBy
    <2> QED BY <2>2, <2>3
<1>3. CASE kind[m] # "deliver"
    <2>1. log' = [log EXCEPT ![r] = h] /\ hist' = hist
        BY <1>3 DEF Work
    <2> HIDE DEF h
    <2>2. LogGrowsBy(m, r)
        BY <1>1, <2>1 DEF TypeInv, TypeOK, OwnInv, LogOwned, LogGrowsBy
    <2>3. HistGrowsBy(m)
        BY <2>1 DEF TypeInv, TypeOK, OwnInv, FilesOwned, HistGrowsBy
    <2> QED BY <2>2, <2>3
<1> QED BY <1>2, <1>3

\* So does a message that takes the run lock, or joins the line for it.
LEMMA LockOwned ==
    ASSUME TypeInv, OwnInv, NEW m \in Msg, NEW r \in Msg, NEW lg \in SUBSET Msg,
           session[m] \in Session, Fixed(r), session[r] = session[m],
           \A x \in lg : Fixed(x) /\ session[x] = session[r],
           Lock(m, r, lg)
    PROVE  LogGrowsBy(m, r) /\ HistGrowsBy(m)
<1>1. CASE line[r] = <<>>
    <2>1. Work(m, r, lg, <<>>) BY <1>1 DEF Lock
    <2> QED BY <2>1, WorkOwned
<1>2. CASE line[r] # <<>>
    <2>1. log' = [log EXCEPT ![r] = lg] /\ hist' = hist BY <1>2 DEF Lock
    <2>2. LogGrowsBy(m, r)
        BY <2>1 DEF TypeInv, TypeOK, OwnInv, LogOwned, LogGrowsBy
    <2>3. HistGrowsBy(m)
        BY <2>1 DEF TypeInv, TypeOK, OwnInv, FilesOwned, HistGrowsBy
    <2> QED BY <2>2, <2>3
<1> QED BY <1>1, <1>2

\* So does a message that enters run_stream, whether or not it opens the runner.
LEMMA EnterOwned ==
    ASSUME TypeInv, OwnInv, NEW m \in Msg, NEW r \in Msg,
           session[m] \in Session, Fixed(r), session[r] = session[m], Enter(m, r)
    PROVE  LogGrowsBy(m, r) /\ HistGrowsBy(m)
<1>1. CASE r \in open
    <2>1. Lock(m, r, log[r]) BY <1>1 DEF Enter
    <2>2. log[r] \in SUBSET Msg /\ \A x \in log[r] : Fixed(x) /\ session[x] = session[r]
        BY DEF TypeInv, TypeOK, OwnInv, LogOwned
    <2> QED BY <2>1, <2>2, LockOwned
<1>2. CASE r \notin open
    <2>1. log' = log /\ hist' = hist BY <1>2 DEF Enter
    <2> QED BY <2>1 DEF TypeInv, TypeOK, OwnInv, LogOwned, FilesOwned, LogGrowsBy, HistGrowsBy
<1> QED BY <1>1, <1>2

\* A step of m that goes on with runner r keeps everything owned.
LEMMA OwnGrown ==
    ASSUME TypeInv, TypeInv', OwnInv, NEW m \in Msg, NEW r \in Msg, FixedStays, Fixed(m)',
           Fixed(r), session[r] = session[m], session' = session, cache' = cache,
           archived' = archived,
           \A x \in Msg : runner'[x] \in {runner[x], None} \/ (x = m /\ runner'[x] = r),
           LogGrowsBy(m, r), HistGrowsBy(m)
    PROVE  OwnInv'
<1> USE DEF TypeInv, TypeOK
<1>1. FilesOwned'
    <2> SUFFICES ASSUME NEW s \in Session, NEW x \in (hist[s] \cup archived[s])'
                 PROVE  Fixed(x)' /\ session'[x] = s
        BY DEF FilesOwned
    <2>1. x \in Msg OBVIOUS
    <2>2. CASE x \in hist'[s]
        BY <2>1, <2>2 DEF HistGrowsBy, FixedStays
    <2>3. CASE x \in archived[s]
        BY <2>1, <2>3 DEF OwnInv, FilesOwned, FixedStays
    <2> QED BY <2>2, <2>3
<1>2. CacheOwned'
    BY DEF OwnInv, CacheOwned, FixedStays
<1>3. RunnerOwned'
    BY DEF OwnInv, RunnerOwned, FixedStays
<1>4. LogOwned'
    <2> SUFFICES ASSUME NEW q \in Msg, NEW x \in log'[q]
                 PROVE  Fixed(x)' /\ Fixed(q)' /\ session'[x] = session'[q]
        BY DEF LogOwned
    <2>1. x \in Msg OBVIOUS
    <2> QED BY <2>1 DEF LogGrowsBy, FixedStays
<1> QED BY <1>1, <1>2, <1>3, <1>4 DEF OwnInv

\* Ownership over the steps of a turn.
LEMMA TurnOwned ==
    ASSUME ConvAssumption, TypeInv, TypeInv', OwnInv, NEW m \in Msg,
           TakeRunner(m) \/ StartRun(m) \/ Deliver(m) \/ Opened(m) \/ GetLock(m) \/ Answer(m)
    PROVE  OwnInv'
<1> USE DEF TypeInv, TypeOK, Engaged
<1>0. \A ph : phase' = [phase EXCEPT ![m] = ph] /\ session' = session
              /\ ph \in Using \cup {"evicting", "answered", "failed"}
              => FixedStays /\ Fixed(m)'
    BY DEF FixedStays, Fixed, Proc
<1>1. CASE TakeRunner(m)
    <2>a. session[m] \in Session BY <1>1 DEF TakeRunner, GiveRunner, Working, Proc
    <2>1. PICK r \in Msg : /\ GiveRunner(m, r)
                           /\ r = m \/ (cache[session[m]] # None /\ r = cache[session[m]])
        <3>1. CASE cache[session[m]] = None BY <1>1, <3>1 DEF TakeRunner
        <3>2. CASE cache[session[m]] # None
            <4>1. GiveRunner(m, cache[session[m]]) BY <1>1, <3>2 DEF TakeRunner
            <4>2. cache[session[m]] \in Msg BY <2>a, <3>2
            <4> QED BY <3>2, <4>1, <4>2
        <3> QED BY <3>1, <3>2
    <2>2. /\ cache' = [cache EXCEPT ![session[m]] = r]
          /\ runner' = [runner EXCEPT ![m] = r]
          /\ phase' = [phase EXCEPT ![m] = "prompting"]
          /\ UNCHANGED <<hist, archived, log, session>>
          /\ session[m] \in Session
        BY <2>1 DEF GiveRunner, files, Working, Proc
    <2>3. FixedStays /\ Fixed(m)' BY <1>0, <2>2 DEF Using
    <2>4. r = m \/ (Fixed(r) /\ session[r] = session[m])
        BY <2>1, <2>2 DEF OwnInv, CacheOwned
    <2>5. Fixed(r)' /\ session[r] = session[m] BY <2>3, <2>4 DEF FixedStays
    <2>6. FilesOwned' BY <2>2, <2>3 DEF OwnInv, FilesOwned, FixedStays
    <2>7. CacheOwned' BY <2>2, <2>3, <2>5 DEF OwnInv, CacheOwned, FixedStays
    <2>8. RunnerOwned' BY <2>2, <2>3, <2>5 DEF OwnInv, RunnerOwned, FixedStays
    <2>9. LogOwned' BY <2>2, <2>3 DEF OwnInv, LogOwned, FixedStays
    <2> QED BY <2>6, <2>7, <2>8, <2>9 DEF OwnInv
<1>2. CASE StartRun(m)
    <2>1. /\ session[m] \in Session /\ runner[m] \in Msg /\ Enter(m, runner[m])
          /\ UNCHANGED <<archived, cache, session, runner>>
        BY <1>2 DEF StartRun, Using, Working, Proc
    <2>2. Fixed(runner[m]) /\ session[runner[m]] = session[m]
        BY <2>1, <1>2 DEF OwnInv, RunnerOwned, ConvAssumption
    <2>3. LogGrowsBy(m, runner[m]) /\ HistGrowsBy(m) BY <2>1, <2>2, EnterOwned
    <2>4. PICK ph \in {"answered", "sending", "waiting", "opening"} :
                    phase' = [phase EXCEPT ![m] = ph]
        BY <2>1, EnterType
    <2>5. FixedStays /\ Fixed(m)' BY <1>0, <2>1, <2>4 DEF Using
    <2> QED BY <2>1, <2>2, <2>3, <2>5, OwnGrown
<1>3. CASE Deliver(m)
    <2>1. /\ session[m] \in Session
          /\ UNCHANGED <<archived, cache, session>>
        BY <1>3 DEF Deliver, Working, Proc
    <2>2. CASE cache[session[m]] = None
        <3>1. /\ hist' = [hist EXCEPT ![session[m]] = @ \cup {m}]
              /\ phase' = [phase EXCEPT ![m] = "answered"]
              /\ UNCHANGED <<runner, log>>
            BY <1>3, <2>2 DEF Deliver
        <3>2. FixedStays /\ Fixed(m)' BY <1>0, <2>1, <3>1
        <3>3. FilesOwned' BY <2>1, <3>1, <3>2 DEF OwnInv, FilesOwned, FixedStays
        <3>4. CacheOwned' BY <2>1, <3>2 DEF OwnInv, CacheOwned, FixedStays
        <3>5. RunnerOwned' BY <2>1, <3>1, <3>2 DEF OwnInv, RunnerOwned, FixedStays
        <3>6. LogOwned' BY <2>1, <3>1, <3>2 DEF OwnInv, LogOwned, FixedStays
        <3> QED BY <3>3, <3>4, <3>5, <3>6 DEF OwnInv
    <2>3. CASE cache[session[m]] # None
        <3> DEFINE r == cache[session[m]]
        <3>1. r \in Msg /\ runner' = [runner EXCEPT ![m] = r] /\ Enter(m, r)
            BY <1>3, <2>1, <2>3 DEF Deliver
        <3>2. Fixed(r) /\ session[r] = session[m]
            BY <2>1, <2>3 DEF OwnInv, CacheOwned
        <3> HIDE DEF r
        <3>3. LogGrowsBy(m, r) /\ HistGrowsBy(m) BY <2>1, <3>1, <3>2, EnterOwned
        <3>4. PICK ph \in {"answered", "sending", "waiting", "opening"} :
                        phase' = [phase EXCEPT ![m] = ph]
            BY <2>1, <3>1, EnterType
        <3>5. FixedStays /\ Fixed(m)' BY <1>0, <2>1, <3>4 DEF Using
        <3>6. \A x \in Msg : runner'[x] \in {runner[x], None} \/ (x = m /\ runner'[x] = r)
            BY <3>1
        <3> QED BY <2>1, <3>1, <3>2, <3>3, <3>5, <3>6, OwnGrown
    <2> QED BY <2>2, <2>3
<1>4. CASE Opened(m)
    <2>1. /\ session[m] \in Session /\ runner[m] \in Msg /\ Lock(m, runner[m], {})
          /\ UNCHANGED <<archived, cache, session, runner>>
        BY <1>4 DEF Opened, Using, Working, Proc
    <2>2. Fixed(runner[m]) /\ session[runner[m]] = session[m]
        BY <2>1 DEF OwnInv, RunnerOwned, ConvAssumption
    <2>a. {} \in SUBSET Msg /\ \A x \in {} : Fixed(x) /\ session[x] = session[runner[m]]
        OBVIOUS
    <2>3. LogGrowsBy(m, runner[m]) /\ HistGrowsBy(m) BY <2>1, <2>2, <2>a, LockOwned
    <2>b. \E ph \in {"answered", "sending", "waiting"} : phase' = [phase EXCEPT ![m] = ph]
        <3> HIDE DEF TypeInv, TypeOK, Engaged
        <3> QED BY <2>1, <2>a, LockType
    <2>4. PICK ph \in {"answered", "sending", "waiting"} : phase' = [phase EXCEPT ![m] = ph]
        BY <2>b
    <2>5. FixedStays /\ Fixed(m)' BY <1>0, <2>1, <2>4 DEF Using
    <2> QED BY <2>1, <2>2, <2>3, <2>5, OwnGrown
<1>5. CASE GetLock(m)
    <2>1. /\ session[m] \in Session /\ runner[m] \in Msg
          /\ Work(m, runner[m], log[runner[m]], Without(line[runner[m]], m))
          /\ UNCHANGED <<archived, cache, session, runner>>
        BY <1>5 DEF GetLock, Using, Working, Proc
    <2>2. Fixed(runner[m]) /\ session[runner[m]] = session[m]
        BY <2>1 DEF OwnInv, RunnerOwned, ConvAssumption
    <2>a. /\ log[runner[m]] \in SUBSET Msg
          /\ \A x \in log[runner[m]] : Fixed(x) /\ session[x] = session[runner[m]]
        BY <2>1 DEF OwnInv, LogOwned
    <2>b. Without(line[runner[m]], m) \in Seq(Msg)
        BY <2>1, WithoutType
    <2>3. LogGrowsBy(m, runner[m]) /\ HistGrowsBy(m) BY <2>1, <2>2, <2>a, WorkOwned
    <2>4. PICK ph \in {"answered", "sending"} : phase' = [phase EXCEPT ![m] = ph]
        BY <2>1, <2>a, <2>b, WorkType
    <2>5. FixedStays /\ Fixed(m)' BY <1>0, <2>1, <2>4 DEF Using
    <2> QED BY <2>1, <2>2, <2>3, <2>5, OwnGrown
<1>6. CASE Answer(m)
    <2> DEFINE h == IF m \in orphan THEN log[runner[m]] ELSE log[runner[m]] \cup {m}
    <2>1. /\ session[m] \in Session /\ runner[m] \in Msg
          /\ phase' = [phase EXCEPT ![m] = "answered"]
          /\ runner' = [runner EXCEPT ![m] = None]
          /\ UNCHANGED <<archived, cache, session>>
        BY <1>6 DEF Answer, LetGo, Using, Working, Proc
    <2>2. Fixed(runner[m]) /\ session[runner[m]] = session[m]
        BY <2>1 DEF OwnInv, RunnerOwned, ConvAssumption
    <2>3. h \in SUBSET Msg /\ \A x \in h : x = m \/ (Fixed(x) /\ session[x] = session[m])
        BY <2>1, <2>2 DEF OwnInv, LogOwned
    <2>4. /\ log' = [log EXCEPT ![runner[m]] = h]
          /\ hist' = [hist EXCEPT ![session[m]] = h] \/ hist' = hist
        BY <1>6 DEF Answer
    <2> HIDE DEF h
    <2>5. LogGrowsBy(m, runner[m])
        BY <2>1, <2>2, <2>3, <2>4 DEF OwnInv, LogOwned, LogGrowsBy
    <2>6. HistGrowsBy(m)
        <3>1. CASE hist' = hist
            BY <3>1 DEF OwnInv, FilesOwned, HistGrowsBy
        <3>2. CASE hist' = [hist EXCEPT ![session[m]] = h]
            BY <2>1, <2>3, <3>2 DEF OwnInv, FilesOwned, HistGrowsBy
        <3> QED BY <2>4, <3>1, <3>2
    <2>7. FixedStays /\ Fixed(m)' BY <1>0, <2>1
    <2>8. \A x \in Msg : runner'[x] \in {runner[x], None} BY <2>1
    <2> QED BY <2>1, <2>2, <2>5, <2>6, <2>7, <2>8, OwnGrown
<1> QED BY <1>1, <1>2, <1>3, <1>4, <1>5, <1>6

\* A message that is only on its way may change its session.
LEMMA MoveStays ==
    ASSUME TypeInv, NEW p \in Proc, p \in Msg => ~ Fixed(p), NEW ph,
           phase' = [phase EXCEPT ![p] = ph],
           \A x \in Proc \ {p} : session'[x] = session[x]
    PROVE  FixedStays
BY DEF TypeInv, TypeOK, FixedStays, Fixed, Proc

\* A message that goes from one fixed phase to another keeps its session.
LEMMA FixStays ==
    ASSUME TypeInv, NEW m \in Msg, NEW ph \in Using \cup {"evicting", "answered", "failed"},
           phase' = [phase EXCEPT ![m] = ph], session' = session
    PROVE  FixedStays
BY DEF TypeInv, TypeOK, FixedStays, Fixed, Proc

\* Arrivals, failures, rollovers and commands move no fixed message.
LEMMA RestStays ==
    ASSUME TypeInv, NEW m \in Msg,
           \/ ArriveFirst(m) \/ ArriveResume(m) \/ ArriveStale(m)
           \/ Fail(m) \/ FailDeliver(m) \/ Evicted(m) \/ RolledOver(m)
           \/ Command(m) \/ Replaced(m)
    PROVE  FixedStays
<1>0. m \in Proc BY DEF Proc
<1>a. \A idx : CreateSession(m, idx) => \A x \in Proc \ {m} : session'[x] = session[x]
    BY DEF CreateSession, TypeInv, TypeOK
<1>1. CASE phase[m] \notin Using \cup {"evicting", "answered", "failed"}
    <2>1. \E ph : phase' = [phase EXCEPT ![m] = ph]
        BY <1>1 DEF ArriveFirst, ArriveResume, ArriveStale, RollOver, RolledOver,
                    Fail, FailDeliver, Evicted, Command, Replaced, Replace
    <2>2. \A x \in Proc \ {m} : session'[x] = session[x]
        <3>1. \/ session' = session \/ session' = [session EXCEPT ![m] = pointer]
              \/ \E idx : CreateSession(m, idx)
            BY <1>1 DEF ArriveFirst, ArriveResume, ArriveStale, RollOver, RolledOver,
                        Fail, FailDeliver, Evicted, Command, Replaced, Replace
        <3> QED BY <1>a, <3>1 DEF TypeInv, TypeOK
    <2> QED BY <1>0, <1>1, <2>1, <2>2, MoveStays DEF Fixed
<1>2. CASE phase[m] \in Using \cup {"evicting", "answered", "failed"}
    <2>1. \E ph \in {"evicting", "failed"} : phase' = [phase EXCEPT ![m] = ph] /\ session' = session
        BY <1>2 DEF ArriveFirst, ArriveResume, ArriveStale, Arrived, RolledOver,
                    Fail, FailDeliver, Evicted, Command, Replaced, Using
    <2> QED BY <2>1, FixStays
<1> QED BY <1>1, <1>2

\* Ownership over everything else.
LEMMA RestOwned ==
    ASSUME ConvAssumption, TypeInv, TypeInv', OwnInv, NEW m \in Msg,
           \/ ArriveFirst(m) \/ ArriveResume(m) \/ ArriveStale(m)
           \/ Fail(m) \/ FailDeliver(m) \/ Evicted(m) \/ RolledOver(m)
           \/ Command(m) \/ Replaced(m)
    PROVE  OwnInv'
<1>1. FixedStays BY RestStays
<1>2. \A s \in Session : hist'[s] \cup archived'[s] \subseteq hist[s] \cup archived[s]
    <2>1. UNCHANGED files \/ \E s : Archive(s)
        BY DEF ArriveFirst, ArriveResume, ArriveStale, RolledOver, Fail, FailDeliver,
               Evicted, Command, Replaced
    <2> QED BY <2>1 DEF Archive, files, TypeInv, TypeOK
<1>3. \A s \in Session : cache'[s] \in {cache[s], None}
    <2>1. cache' = cache \/ \E s : cache' = [cache EXCEPT ![s] = None]
        BY DEF ArriveFirst, ArriveResume, ArriveStale, RolledOver, Fail, FailDeliver,
               Evicted, Command, Replaced, Evict, Closed, runners, evictions
    <2> QED BY <2>1 DEF TypeInv, TypeOK
<1>4. \A x \in Msg : runner'[x] \in {runner[x], None}
    <2>1. runner' = runner \/ runner' = [runner EXCEPT ![m] = None]
        BY DEF ArriveFirst, ArriveResume, ArriveStale, RolledOver, Fail, FailDeliver,
               Evicted, Command, Replaced, LetGo
    <2> QED BY <2>1 DEF TypeInv, TypeOK
<1>5. \A r \in Msg : log'[r] \subseteq log[r]
    <2>1. log' = log \/ log' = [x \in Msg |-> IF x = closes[m] THEN {} ELSE log[x]]
        BY DEF ArriveFirst, ArriveResume, ArriveStale, RolledOver, Fail, FailDeliver,
               Evicted, Command, Replaced, Closed, runners
    <2> QED BY <2>1
<1> QED BY <1>1, <1>2, <1>3, <1>4, <1>5, OwnKept

\* Midnight, the reaper, a stop and a crash in a save leave every exchange where it belongs.
LEMMA WorldOwned ==
    ASSUME ConvAssumption, TypeInv, TypeInv', OwnInv,
           \/ Sweep \/ (\E s \in Session : Reap(s)) \/ Reaped
           \/ ForgetRunners \/ Midnight \/ Restart \/ (\E m \in Msg : CrashInSave(m))
    PROVE  OwnInv'
<1>1. CASE Sweep \/ ForgetRunners \/ Midnight
    BY <1>1 DEF Sweep, ForgetRunners, Midnight, manager, files, runners, messages, TypeInv, TypeOK,
                OwnInv, FilesOwned, CacheOwned, RunnerOwned, LogOwned, Fixed
<1>2. CASE (\E s \in Session : Reap(s)) \/ Reaped
    <2>1. /\ FixedStays
          /\ UNCHANGED <<files, runner>>
        <3>1. /\ \A x \in Msg : phase'[x] = phase[x] /\ session'[x] = session[x]
              /\ UNCHANGED <<files, runner>>
            BY <1>2 DEF Reap, Reaped, TypeInv, TypeOK, Proc, ConvAssumption
        <3> QED BY <3>1 DEF FixedStays, Fixed
    <2>2. \A s \in Session : cache'[s] \in {cache[s], None}
        BY <1>2 DEF Reap, Reaped, Evict, Closed, TypeInv, TypeOK
    <2>3. \A r \in Msg : log'[r] \subseteq log[r]
        <3>1. log' = log \/ log' = [x \in Msg |-> IF x = closes[Reaper] THEN {} ELSE log[x]]
            BY <1>2 DEF Reap, Reaped, Closed
        <3> QED BY <3>1
    <2> QED BY <2>1, <2>2, <2>3, OwnKept DEF files
<1>3. CASE Restart \/ (\E m \in Msg : CrashInSave(m))
    <2>1. Down BY <1>3 DEF Restart, CrashInSave
    <2>2. FixedStays
        <3>1. \A x \in Msg : /\ phase'[x] \in {phase[x], "failed"}
                             /\ session'[x] = session[x]
            BY <2>1 DEF Down, TypeInv, TypeOK, Proc, ConvAssumption
        <3> QED BY <3>1 DEF FixedStays, Fixed
    <2>3. \A s \in Session : hist'[s] \cup archived'[s] \subseteq hist[s] \cup archived[s]
        BY <1>3 DEF Restart, CrashInSave, files, TypeInv, TypeOK
    <2>4. /\ \A s \in Session : cache'[s] \in {cache[s], None}
          /\ \A x \in Msg : runner'[x] \in {runner[x], None}
          /\ \A r \in Msg : log'[r] \subseteq log[r]
        BY <2>1 DEF Down
    <2> QED BY <2>2, <2>3, <2>4, OwnKept
<1> QED BY <1>1, <1>2, <1>3

\* Both invariants together.
LEMMA OwnStep ==
    ASSUME ConvAssumption, TypeInv, TypeInv', OwnInv, [Next]_vars
    PROVE  OwnInv'
<1>1. CASE UNCHANGED vars
    BY <1>1 DEF OwnInv, FilesOwned, CacheOwned, RunnerOwned, LogOwned, Fixed,
                vars, files, runners, messages
<1>2. ASSUME NEW m \in Msg,
             TakeRunner(m) \/ StartRun(m) \/ Deliver(m) \/ Opened(m) \/ GetLock(m) \/ Answer(m)
      PROVE  OwnInv'
    BY <1>2, TurnOwned
<1>3. ASSUME NEW m \in Msg,
             \/ ArriveFirst(m) \/ ArriveResume(m) \/ ArriveStale(m)
             \/ Fail(m) \/ FailDeliver(m) \/ Evicted(m) \/ RolledOver(m)
             \/ Command(m) \/ Replaced(m)
      PROVE  OwnInv'
    BY <1>3, RestOwned
<1>4. CASE \/ Sweep \/ (\E s \in Session : Reap(s)) \/ Reaped
           \/ ForgetRunners \/ Midnight \/ Restart \/ (\E m \in Msg : CrashInSave(m))
    BY <1>4, WorldOwned
<1> QED BY <1>1, <1>2, <1>3, <1>4 DEF Next, Proceed, Refused

\* A new agent has no history, no runner and no message, so nothing is misplaced.
LEMMA OwnInit == ASSUME Init PROVE OwnInv
BY DEF Init, OwnInv, FilesOwned, CacheOwned, RunnerOwned, LogOwned

\* In every reachable state what a history file, a runner or an exchange shows belongs to
\* the session it is kept for.
THEOREM OwnershipHolds == Spec => [](TypeInv /\ OwnInv)
<1>1. Init => TypeInv /\ OwnInv BY TypeInit, OwnInit, ConvAssumption
<1>2. TypeInv /\ OwnInv /\ [Next]_vars => TypeInv' /\ OwnInv'
    BY TypeStep, OwnStep, ConvAssumption
<1> QED BY <1>1, <1>2, PTL DEF Spec

\* No conversation sees another's: whatever the model is shown for a message are
\* exchanges of the message's own session, however runners were shared, replaced,
\* reopened and evicted.
THEOREM ContextIsFresh == Spec => []FreshContext
<1>1. TypeInv /\ OwnInv => FreshContext
    <2> SUFFICES ASSUME TypeInv, OwnInv, NEW m \in Msg, phase[m] = "sending",
                        NEW x \in log[runner[m]]
                 PROVE  session[x] = session[m]
        BY DEF FreshContext
    <2>1. runner[m] \in Msg /\ runner[m] # None
        BY ConvAssumption DEF ConvAssumption, TypeInv, Engaged, Using
    <2>2. session[runner[m]] = session[m] BY <2>1 DEF OwnInv, RunnerOwned
    <2> QED BY <2>1, <2>2 DEF OwnInv, LogOwned
<1> QED BY OwnershipHolds, <1>1, PTL

\* Only create_session followed by set_active_session moves the pointer, to a session
\* created later than any other.
THEOREM PointerAdvances == Spec => PointerMovesForward
<1> DEFINE Forward == pointer' # pointer
                      => pointer' # None /\ (pointer # None => pointer' > pointer)
<1>1. TypeInv /\ [Next]_vars => [Forward]_vars
    <2> SUFFICES ASSUME TypeInv, [Next]_vars PROVE Forward
        OBVIOUS
    <2>1. pointer' = pointer \/ \E m, idx : CreateSession(m, idx)
        BY DEF Next, Proceed, Refused, ArriveFirst, ArriveResume, ArriveStale, RollOver,
               RolledOver, TakeRunner, GiveRunner, StartRun, Opened, GetLock, Answer, Fail,
               FailDeliver, Evicted, Deliver, Command, Replaced, Replace, Sweep, Reap, Reaped,
               ForgetRunners, Midnight, Restart, CrashInSave, Down, manager, vars
    <2>2. CASE \E m, idx : CreateSession(m, idx)
        <3>1. pointer' = created + 1 BY <2>2 DEF CreateSession
        <3>2. created \in Nat /\ (pointer # None => pointer \in Nat /\ pointer <= created)
            BY ConvAssumption DEF ConvAssumption, TypeInv, TypeOK, Engaged, Session
        <3> QED BY <3>1, <3>2, ConvAssumption DEF ConvAssumption
    <2> QED BY <2>1, <2>2
<1>2. TypeInv /\ [Next]_vars => TypeInv' BY TypeStep, ConvAssumption
<1>3. Init => TypeInv BY TypeInit, ConvAssumption
<1> QED BY <1>1, <1>2, <1>3, PTL DEF Spec, PointerMovesForward

---------------------------------------------------------------------------
(* Who serves a session.  In a session whose runner was never taken from     *)
(* somebody, everybody shares the cached runner, and a runner that has read  *)
(* the history file has all of it in its log.                                *)

ClosingInv == \A p \in Proc : closes[p] # None =>
                  Fixed(closes[p]) /\ \A s \in Session : cache[s] # closes[p]
ReplacingInv == \A m \in Msg : phase[m] = "replacing" => kind[m] \in {"new", "reset"}
OpeningInv == \A m \in Msg : phase[m] = "opening" /\ session[m] \notin disturbed =>
                  /\ runner[m] \notin open
                  /\ \A o \in Msg : phase[o] = "opening" /\ runner[o] = runner[m] => o = m
SendingInv == \A m \in Msg : phase[m] = "sending" /\ session[m] \notin disturbed =>
                  m \notin orphan /\ runner[m] \in open /\ runner[m] \in loaded
CacheInv == \A s \in Session : s \notin disturbed /\ cache[s] # None /\ cache[s] \in loaded =>
                  cache[s] \in open /\ hist[s] \subseteq log[cache[s]]
LoadedInv == \A r \in loaded : Fixed(r)
OrphanInv == \A m \in orphan : phase[m] = "sending"

ServeInv == /\ ClosingInv /\ ReplacingInv /\ OneRunnerPerSession /\ OpeningInv
            /\ SendingInv /\ CacheInv /\ LoadedInv /\ OrphanInv /\ AnsweredIsKept

\* A step of p that concerns no other message.
Alone(p) ==
    \A x \in Msg \ {p} : /\ phase'[x] = phase[x] /\ runner'[x] = runner[x]
                         /\ session'[x] = session[x] /\ kind'[x] = kind[x]

\* After such a step p has no runner and answered nothing but a command.
Off(p) ==
    p \in Msg => /\ phase'[p] \notin Using
                 /\ phase'[p] \in {"replacing", "answered"} => kind'[p] \in {"new", "reset"}

\* A step that leaves alone the runners of the sessions that stay undisturbed.
RunnersLeft ==
    /\ disturbed \subseteq disturbed'
    /\ open' \subseteq open /\ loaded' \subseteq loaded
    /\ \A s \in Session : s \notin disturbed' /\ cache'[s] # None =>
           /\ cache'[s] = cache[s]
           /\ cache[s] \in open => cache[s] \in open'
           /\ cache[s] \in loaded => cache[s] \in loaded'
           /\ log'[cache[s]] = log[cache[s]]

\* A step that takes p off its runner, touches nobody else's and keeps the files is safe.
LEMMA ServeKept ==
    ASSUME ConvAssumption, TypeInv, TypeInv', OwnInv, ServeInv, NEW p \in Proc,
           FixedStays, Alone(p), Off(p), RunnersLeft, ClosingInv', OrphanInv',
           \A x \in Msg \ {p} : phase[x] \in Using /\ session[x] \notin disturbed'
                                => runner[x] = cache'[session[x]],
           \A x \in Msg \ {p} : session[x] \notin disturbed' /\ x \in orphan' => x \in orphan,
           \A s \in Session : hist'[s] \subseteq hist[s],
           \A s \in Session : hist[s] \cup archived[s] \subseteq hist'[s] \cup archived'[s]
    PROVE  ServeInv'
<1>1. ReplacingInv'
    BY DEF Alone, Off, ServeInv, ReplacingInv
<1>2. OneRunnerPerSession'
    BY DEF Alone, Off, OneRunnerPerSession
<1>3. OpeningInv'
    BY DEF Alone, Off, ServeInv, OpeningInv, RunnersLeft, Using
<1>4. SendingInv'
    <2> SUFFICES ASSUME NEW m \in Msg, phase'[m] = "sending", session'[m] \notin disturbed'
                 PROVE  m \notin orphan' /\ runner'[m] \in open' /\ runner'[m] \in loaded'
        BY DEF SendingInv
    <2>1. m # p /\ phase[m] = "sending" /\ session[m] \notin disturbed' /\ runner'[m] = runner[m]
        BY DEF Alone, Off, Using
    <2>2. m \notin orphan /\ runner[m] \in open /\ runner[m] \in loaded
        BY <2>1 DEF ServeInv, SendingInv, RunnersLeft
    <2>3. runner[m] = cache'[session[m]] /\ runner[m] # None /\ session[m] \in Session
        BY <2>1, ConvAssumption
        DEF TypeInv, TypeOK, Engaged, Using, Working, ConvAssumption, Proc
    <2>4. runner[m] = cache[session[m]] BY <2>1, <2>3 DEF RunnersLeft
    <2> QED BY <2>1, <2>2, <2>3, <2>4 DEF RunnersLeft
<1>5. CacheInv'
    BY DEF ServeInv, CacheInv, RunnersLeft
<1>6. LoadedInv'
    BY DEF ServeInv, LoadedInv, RunnersLeft, FixedStays, TypeInv, TypeOK
<1>7. AnsweredIsKept'
    <2> SUFFICES ASSUME NEW m \in Msg, m \in Exchanges', session'[m] \notin disturbed'
                 PROVE  m \in hist'[session'[m]] \cup archived'[session'[m]]
        BY DEF AnsweredIsKept, Exchanges
    <2>1. m # p BY DEF Exchanges, Off
    <2>2. m \in Exchanges /\ session'[m] = session[m] /\ session[m] \notin disturbed
        BY <2>1 DEF Exchanges, Alone, RunnersLeft
    <2>3. m \in hist[session[m]] \cup archived[session[m]]
        BY <2>2 DEF ServeInv, AnsweredIsKept
    <2>4. session[m] \in Session
        BY <2>2 DEF Exchanges, TypeInv, Engaged
    <2> QED BY <2>2, <2>3, <2>4
<1> QED BY <1>1, <1>2, <1>3, <1>4, <1>5, <1>6, <1>7 DEF ServeInv

\* An eviction takes the runner from those who use it only in a session it disturbs.
LEMMA EvictServes ==
    ASSUME ConvAssumption, TypeInv, OwnInv, ServeInv, NEW p \in Proc, NEW s \in Session,
           Evict(p, s), FixedStays
    PROVE  /\ ClosingInv'
           /\ disturbed \subseteq disturbed'
           /\ \A t \in Session : cache'[t] # None => cache'[t] = cache[t]
           /\ \A x \in Msg \ {p} : phase[x] \in Using /\ session[x] \notin disturbed'
                                   => runner[x] = cache'[session[x]]
<1>1. /\ cache' = [cache EXCEPT ![s] = None]
      /\ closes' = [closes EXCEPT ![p] = IF Suspends(s) THEN cache[s] ELSE None]
      /\ disturbed' = disturbed \cup {t \in {s} : cache[s] # None /\ Users(cache[s]) \ {p} # {}}
    BY DEF Evict
<1>2. \A t \in Session : cache'[t] # None => cache'[t] = cache[t] /\ t # s
    BY <1>1 DEF TypeInv, TypeOK
<1>3. ClosingInv'
    <2> SUFFICES ASSUME NEW q \in Proc, NEW c, closes'[q] = c, c # None
                 PROVE  Fixed(c)' /\ \A t \in Session : cache'[t] # c
        BY DEF ClosingInv
    <2>1. CASE closes'[q] = closes[q]
        <3>1. closes[q] \in Msg /\ Fixed(closes[q]) /\ \A t \in Session : cache[t] # closes[q]
            BY <2>1 DEF ServeInv, ClosingInv, TypeInv, TypeOK
        <3> QED BY <1>2, <2>1, <3>1 DEF FixedStays
    <2>2. CASE closes'[q] # closes[q]
        <3>1. closes'[q] = cache[s] /\ cache[s] \in Msg
            BY <1>1, <2>2 DEF TypeInv, TypeOK
        <3>2. Fixed(cache[s]) /\ session[cache[s]] = s
            BY <3>1, ConvAssumption DEF OwnInv, CacheOwned, ConvAssumption
        <3>3. \A t \in Session : cache[t] = cache[s] => t = s
            BY <3>1, <3>2, ConvAssumption DEF OwnInv, CacheOwned, ConvAssumption
        <3> QED BY <1>2, <3>1, <3>2, <3>3 DEF FixedStays
    <2> QED BY <2>1, <2>2
<1>4. ASSUME NEW x \in Msg \ {p}, phase[x] \in Using, session[x] \notin disturbed'
      PROVE  runner[x] = cache'[session[x]]
    <2>1. session[x] \notin disturbed BY <1>1, <1>4
    <2>2. runner[x] = cache[session[x]] BY <1>4, <2>1 DEF ServeInv, OneRunnerPerSession
    <2>3. runner[x] \in Msg /\ runner[x] # None
        BY <1>4, ConvAssumption DEF TypeInv, Engaged, ConvAssumption
    <2>4. session[x] # s
        <3> SUFFICES ASSUME session[x] = s PROVE FALSE OBVIOUS
        <3>1. x \in Users(cache[s]) \ {p} BY <1>4, <2>2 DEF Users
        <3> QED BY <1>1, <1>4, <2>2, <2>3, <3>1
    <2> QED BY <1>1, <2>2, <2>4, <1>4 DEF TypeInv, TypeOK, Engaged, Working, Proc
<1> QED BY <1>1, <1>2, <1>3, <1>4

\* Closing a runner that is no longer cached.
LEMMA ClosedServes ==
    ASSUME ConvAssumption, TypeInv, TypeInv', OwnInv, ServeInv, NEW p \in Proc,
           Closed(p), FixedStays, Alone(p), p \in Msg => phase[p] \notin Using
    PROVE  /\ ClosingInv' /\ OrphanInv' /\ RunnersLeft
           /\ \A x \in Msg \ {p} : phase[x] \in Using /\ session[x] \notin disturbed'
                                   => runner[x] = cache'[session[x]]
           /\ \A x \in Msg \ {p} : session[x] \notin disturbed' /\ x \in orphan' => x \in orphan
<1>1. /\ open' = open \ {closes[p]}
      /\ orphan' = orphan \cup {m \in Users(closes[p]) : phase[m] = "sending"}
      /\ log' = [m \in Msg |-> IF m = closes[p] THEN {} ELSE log[m]]
      /\ closes' = [closes EXCEPT ![p] = None]
      /\ cache' = cache /\ loaded' = loaded /\ disturbed' = disturbed
    BY DEF Closed
<1>2. ClosingInv'
    <2> SUFFICES ASSUME NEW q \in Proc, NEW c, closes'[q] = c, c # None
                 PROVE  Fixed(c)' /\ \A t \in Session : cache'[t] # c
        BY DEF ClosingInv
    <2>1. closes'[q] = closes[q] /\ closes[q] \in Msg
        BY <1>1 DEF TypeInv, TypeOK
    <2> QED BY <1>1, <2>1 DEF ServeInv, ClosingInv, FixedStays
<1>3. OrphanInv'
    <2> SUFFICES ASSUME NEW m \in orphan' PROVE phase'[m] = "sending"
        BY DEF OrphanInv
    <2>1. m \in Msg /\ phase[m] = "sending"
        BY <1>1 DEF Users, ServeInv, OrphanInv, TypeInv, TypeOK
    <2> QED BY <2>1 DEF Alone, Using
<1>4. RunnersLeft
    <2> SUFFICES ASSUME NEW s \in Session, cache[s] # None
                 PROVE  /\ cache[s] \in open => cache[s] \in open'
                        /\ log'[cache[s]] = log[cache[s]]
        BY <1>1 DEF RunnersLeft
    <2>1. cache[s] # closes[p] /\ cache[s] \in Msg
        BY DEF ServeInv, ClosingInv, TypeInv, TypeOK
    <2> QED BY <1>1, <2>1
<1>5. \A x \in Msg \ {p} : phase[x] \in Using /\ session[x] \notin disturbed'
                           => runner[x] = cache'[session[x]]
    BY <1>1 DEF ServeInv, OneRunnerPerSession
<1>6. ASSUME NEW x \in Msg \ {p}, session[x] \notin disturbed', x \in orphan'
      PROVE  x \in orphan
    <2> SUFFICES ASSUME x \in Users(closes[p]), phase[x] = "sending" PROVE FALSE
        BY <1>1, <1>6
    <2>1. runner[x] = cache[session[x]] /\ session[x] \in Session /\ runner[x] = closes[p]
          /\ runner[x] \in Msg
        BY <1>1, <1>6 DEF ServeInv, OneRunnerPerSession, Using, Working, Users, TypeInv,
                          Engaged, Proc
    <2> QED BY <2>1, ConvAssumption DEF ServeInv, ClosingInv, ConvAssumption
<1> QED BY <1>2, <1>3, <1>4, <1>5, <1>6

\* Arrivals, failures, rollovers and commands concern their own message, which has no
\* runner afterwards.
LEMMA RestAlone ==
    ASSUME ConvAssumption, TypeInv, ServeInv, NEW m \in Msg,
           \/ ArriveFirst(m) \/ ArriveResume(m) \/ ArriveStale(m)
           \/ Fail(m) \/ FailDeliver(m) \/ Evicted(m) \/ RolledOver(m)
           \/ Command(m) \/ Replaced(m)
    PROVE  Alone(m) /\ Off(m)
<1> USE DEF ArriveFirst, ArriveResume, ArriveStale, Fail, FailDeliver, Evicted, RolledOver,
            Command, Replaced
<1>1. \A x \in Msg \ {m} : phase'[x] = phase[x]
    <2>1. \E ph \in {"handed", "rolling", "failed", "evicting", "replacing", "answered"} :
                phase' = [phase EXCEPT ![m] = ph]
        BY DEF RollOver, Replace
    <2> QED BY <2>1 DEF TypeInv, TypeOK, Using, Proc
<1>2. \A x \in Msg \ {m} : runner'[x] = runner[x]
    <2>1. runner' = runner \/ runner' = [runner EXCEPT ![m] = None]
        BY DEF LetGo
    <2> QED BY <2>1 DEF TypeInv, TypeOK
<1>3. \A x \in Msg \ {m} : session'[x] = session[x]
    <2>1. \/ session' = session \/ session' = [session EXCEPT ![m] = pointer]
          \/ \E idx : CreateSession(m, idx)
        BY DEF RollOver, Replace
    <2>2. CASE \E idx : CreateSession(m, idx)
        BY <2>2 DEF CreateSession, TypeInv, TypeOK, Proc
    <2> QED BY <2>1, <2>2 DEF TypeInv, TypeOK, Proc
<1>4. \A x \in Msg \ {m} : kind'[x] = kind[x]
    <2>1. kind' = kind \/ \E k : kind' = [kind EXCEPT ![m] = k]
        BY DEF Arrived
    <2> QED BY <2>1 DEF TypeInv, TypeOK
<1>5. phase'[m] \in {"replacing", "answered"} => kind'[m] \in {"new", "reset"}
    <2>1. CASE Command(m)
        BY <2>1
    <2>2. CASE Replaced(m)
        BY <2>2 DEF ServeInv, ReplacingInv
    <2>3. CASE ~ Command(m) /\ ~ Replaced(m)
        <3>1. \E ph \in {"handed", "rolling", "failed", "evicting"} :
                    phase' = [phase EXCEPT ![m] = ph]
            BY <2>3 DEF RollOver
        <3> QED BY <3>1 DEF TypeInv, TypeOK, Proc
    <2> QED BY <2>1, <2>2, <2>3
<1>6. phase'[m] \notin Using
    <2>1. \E ph \in {"handed", "rolling", "failed", "evicting", "replacing", "answered"} :
                phase' = [phase EXCEPT ![m] = ph]
        BY DEF RollOver, Replace
    <2> QED BY <2>1 DEF TypeInv, TypeOK, Using, Proc
<1> QED BY <1>1, <1>2, <1>3, <1>4, <1>5, <1>6 DEF Alone, Off

\* Who serves a session, over arrivals, failures, rollovers and commands.
LEMMA RestServes ==
    ASSUME ConvAssumption, TypeInv, TypeInv', OwnInv, ServeInv, NEW m \in Msg,
           \/ ArriveFirst(m) \/ ArriveResume(m) \/ ArriveStale(m)
           \/ Fail(m) \/ FailDeliver(m) \/ Evicted(m) \/ RolledOver(m)
           \/ Command(m) \/ Replaced(m)
    PROVE  ServeInv'
<1>0. m \in Proc BY DEF Proc
<1>1. FixedStays BY RestStays
<1>2. Alone(m) /\ Off(m) BY RestAlone
<1>3. \A s \in Session : /\ hist'[s] \subseteq hist[s]
                         /\ hist[s] \cup archived[s] \subseteq hist'[s] \cup archived'[s]
    <2>1. UNCHANGED files \/ \E s : Archive(s)
        BY DEF ArriveFirst, ArriveResume, ArriveStale, RolledOver, Fail, FailDeliver,
               Evicted, Command, Replaced
    <2> QED BY <2>1 DEF Archive, files, TypeInv, TypeOK
<1>4. CASE Evicted(m) \/ RolledOver(m) \/ Replaced(m)
    <2>1. Closed(m) /\ phase[m] \notin Using
        BY <1>4 DEF Evicted, RolledOver, Replaced, Using
    <2>2. /\ ClosingInv' /\ OrphanInv' /\ RunnersLeft
          /\ \A x \in Msg \ {m} : phase[x] \in Using /\ session[x] \notin disturbed'
                                  => runner[x] = cache'[session[x]]
          /\ \A x \in Msg \ {m} : session[x] \notin disturbed' /\ x \in orphan' => x \in orphan
        BY <1>0, <1>1, <1>2, <2>1, ClosedServes
    <2> QED BY <1>0, <1>1, <1>2, <1>3, <2>2, ServeKept
<1>5. ASSUME orphan' \subseteq orphan \ {m} \/ (orphan' = orphan /\ phase[m] \notin Using)
      PROVE  OrphanInv'
    <2> SUFFICES ASSUME NEW x \in orphan' PROVE phase'[x] = "sending"
        BY DEF OrphanInv
    <2>1. x \in orphan /\ x \in Msg /\ phase[x] = "sending"
        BY <1>5 DEF ServeInv, OrphanInv, TypeInv, TypeOK
    <2> QED BY <1>2, <1>5, <2>1 DEF Alone, Using
<1>6. CASE ArriveStale(m) \/ Fail(m) \/ Command(m)
    <2>1. \E s \in Session : Evict(m, s)
        BY <1>6 DEF ArriveStale, Fail, Command, TypeInv, TypeOK, Engaged, Working, Using, Proc
    <2>2. /\ ClosingInv'
          /\ disturbed \subseteq disturbed'
          /\ \A t \in Session : cache'[t] # None => cache'[t] = cache[t]
          /\ \A x \in Msg \ {m} : phase[x] \in Using /\ session[x] \notin disturbed'
                                  => runner[x] = cache'[session[x]]
        BY <1>0, <1>1, <2>1, EvictServes
    <2>3. UNCHANGED <<open, loaded, log>>
        BY <1>6 DEF ArriveStale, Fail, Command
    <2>4. RunnersLeft BY <2>2, <2>3 DEF RunnersLeft
    <2>5. orphan' \subseteq orphan \ {m} \/ (orphan' = orphan /\ phase[m] \notin Using)
        BY <1>6 DEF ArriveStale, Arrived, Fail, LetGo, Command, Using
    <2>6. OrphanInv' BY <1>5, <2>5
    <2>7. \A x \in Msg \ {m} : session[x] \notin disturbed' /\ x \in orphan' => x \in orphan
        BY <2>5
    <2> QED BY <1>0, <1>1, <1>2, <1>3, <2>2, <2>4, <2>6, <2>7, ServeKept
<1>7. CASE ArriveFirst(m) \/ ArriveResume(m) \/ FailDeliver(m)
    <2>1. UNCHANGED <<cache, open, loaded, log, closes, disturbed>>
        BY <1>7 DEF ArriveFirst, ArriveResume, FailDeliver, runners, evictions
    <2>2. ClosingInv'
        <3> SUFFICES ASSUME NEW q \in Proc, NEW c, closes[q] = c, c # None
                     PROVE  Fixed(c)' /\ \A t \in Session : cache[t] # c
            BY <2>1 DEF ClosingInv
        <3> QED BY <1>1 DEF ServeInv, ClosingInv, FixedStays, TypeInv, TypeOK
    <2>3. RunnersLeft BY <2>1 DEF RunnersLeft
    <2>4. \A x \in Msg \ {m} : phase[x] \in Using /\ session[x] \notin disturbed'
                               => runner[x] = cache'[session[x]]
        BY <2>1 DEF ServeInv, OneRunnerPerSession
    <2>5. orphan' \subseteq orphan \ {m} \/ (orphan' = orphan /\ phase[m] \notin Using)
        BY <1>7 DEF ArriveFirst, ArriveResume, Arrived, FailDeliver, LetGo, Using
    <2>6. OrphanInv' BY <1>5, <2>5
    <2>7. \A x \in Msg \ {m} : session[x] \notin disturbed' /\ x \in orphan' => x \in orphan
        BY <2>5
    <2> QED BY <1>0, <1>1, <1>2, <1>3, <2>2, <2>3, <2>4, <2>6, <2>7, ServeKept
<1> QED BY <1>4, <1>6, <1>7

\* Who serves a session, over the reaper, midnight and restarts.
LEMMA WorldServes ==
    ASSUME ConvAssumption, TypeInv, TypeInv', OwnInv, ServeInv,
           \/ Sweep \/ (\E s \in Session : Reap(s)) \/ Reaped
           \/ ForgetRunners \/ Midnight \/ Restart \/ (\E m \in Msg : CrashInSave(m))
    PROVE  ServeInv'
<1>0. Reaper \in Proc /\ Reaper \notin Msg BY DEF Proc, ConvAssumption
<1>1. CASE Sweep \/ Midnight
    BY <1>1 DEF Sweep, Midnight, manager, files, runners, messages, evictions, ServeInv,
                ClosingInv, ReplacingInv, OneRunnerPerSession, OpeningInv, SendingInv,
                CacheInv, LoadedInv, OrphanInv, AnsweredIsKept, Exchanges, Fixed
<1>2. CASE (\E s \in Session : Reap(s)) \/ Reaped
    <2>1. /\ \A x \in Msg : phase'[x] = phase[x] /\ session'[x] = session[x]
          /\ runner' = runner /\ kind' = kind /\ hist' = hist /\ archived' = archived
        <3>1. /\ phase' = phase \/ \E ph : phase' = [phase EXCEPT ![Reaper] = ph]
              /\ session' = session \/ \E t : session' = [session EXCEPT ![Reaper] = t]
              /\ UNCHANGED <<runner, kind, files>>
            BY <1>2 DEF Reap, Reaped
        <3>2. /\ \A x \in Msg : phase'[x] = phase[x]
              /\ \A x \in Msg : session'[x] = session[x]
            BY <1>0, <3>1 DEF TypeInv, TypeOK, Proc
        <3> QED BY <3>1, <3>2 DEF files
    <2>2. FixedStays /\ Alone(Reaper) /\ Off(Reaper)
        BY <1>0, <2>1 DEF FixedStays, Fixed, Alone, Off
    <2>3. CASE Reaped
        <3>1. Closed(Reaper) BY <2>3 DEF Reaped
        <3>2. /\ ClosingInv' /\ OrphanInv' /\ RunnersLeft
              /\ \A x \in Msg \ {Reaper} : phase[x] \in Using /\ session[x] \notin disturbed'
                                           => runner[x] = cache'[session[x]]
              /\ \A x \in Msg \ {Reaper} :
                    session[x] \notin disturbed' /\ x \in orphan' => x \in orphan
            BY <1>0, <2>2, <3>1, ClosedServes
        <3> QED BY <1>0, <2>1, <2>2, <3>2, ServeKept
    <2>4. ASSUME NEW s \in Session, Reap(s) PROVE ServeInv'
        <3>1. UNCHANGED <<open, loaded, log, orphan>> BY <2>4 DEF Reap
        <3>2. OrphanInv'
            BY <2>1, <3>1 DEF ServeInv, OrphanInv, TypeInv, TypeOK
        <3>3. \A x \in Msg \ {Reaper} : session[x] \notin disturbed' /\ x \in orphan' => x \in orphan
            BY <3>1
        <3>4. CASE index[s] = None
            <4>1. UNCHANGED <<cache, closes, disturbed>> BY <2>4, <3>4 DEF Reap
            <4>2. ClosingInv'
                <5> SUFFICES ASSUME NEW q \in Proc, NEW c, closes[q] = c, c # None
                             PROVE  Fixed(c)' /\ \A t \in Session : cache[t] # c
                    BY <4>1 DEF ClosingInv
                <5> QED BY <2>2 DEF ServeInv, ClosingInv, FixedStays, TypeInv, TypeOK
            <4>3. RunnersLeft BY <3>1, <4>1 DEF RunnersLeft
            <4>4. \A x \in Msg \ {Reaper} : phase[x] \in Using /\ session[x] \notin disturbed'
                                            => runner[x] = cache'[session[x]]
                BY <4>1 DEF ServeInv, OneRunnerPerSession
            <4> QED BY <1>0, <2>1, <2>2, <3>2, <3>3, <4>2, <4>3, <4>4, ServeKept
        <3>5. CASE index[s] # None
            <4>1. Evict(Reaper, s) BY <2>4, <3>5 DEF Reap
            <4>2. /\ ClosingInv'
                  /\ disturbed \subseteq disturbed'
                  /\ \A t \in Session : cache'[t] # None => cache'[t] = cache[t]
                  /\ \A x \in Msg \ {Reaper} : phase[x] \in Using /\ session[x] \notin disturbed'
                                               => runner[x] = cache'[session[x]]
                BY <1>0, <2>2, <4>1, EvictServes
            <4>3. RunnersLeft BY <3>1, <4>2 DEF RunnersLeft
            <4> QED BY <1>0, <2>1, <2>2, <3>2, <3>3, <4>2, <4>3, ServeKept
        <3> QED BY <3>4, <3>5
    <2> QED BY <1>2, <2>3, <2>4
<1>3. CASE Restart \/ (\E m \in Msg : CrashInSave(m))
    <2>1. /\ Down /\ archived' = archived /\ disturbed \subseteq disturbed'
          /\ \A s \in Session : s \in disturbed' \/ hist'[s] = hist[s]
        BY <1>3 DEF Restart, CrashInSave, files, TypeInv, TypeOK
    <2>2. \A x \in Msg : /\ phase'[x] = IF phase[x] \in Working THEN "failed" ELSE phase[x]
                         /\ session'[x] = session[x] /\ kind'[x] = kind[x]
        BY <1>0, <2>1 DEF Down, TypeInv, TypeOK, Proc
    <2>3. /\ cache' = [s \in Session |-> None] /\ closes' = [p \in Proc |-> None]
          /\ loaded' = {} /\ orphan' = {}
        BY <2>1 DEF Down
    <2>4. \A x \in Msg : phase'[x] \notin Using \cup {"replacing"}
        BY <2>2 DEF Working, Using
    <2>5. ClosingInv' /\ CacheInv' /\ LoadedInv' /\ OrphanInv'
        BY <2>3 DEF ClosingInv, CacheInv, LoadedInv, OrphanInv
    <2>6. ReplacingInv' /\ OneRunnerPerSession' /\ OpeningInv' /\ SendingInv'
        BY <2>4 DEF ReplacingInv, OneRunnerPerSession, OpeningInv, SendingInv, Using
    <2>7. AnsweredIsKept'
        <3> SUFFICES ASSUME NEW m \in Msg, m \in Exchanges', session'[m] \notin disturbed'
                     PROVE  m \in hist'[session'[m]] \cup archived'[session'[m]]
            BY DEF AnsweredIsKept, Exchanges
        <3>1. phase[m] = "answered" /\ kind'[m] = kind[m]
            BY <2>2 DEF Exchanges
        <3>2. m \in Exchanges /\ session'[m] = session[m] /\ session[m] \in Session
            BY <2>2, <3>1 DEF Exchanges, TypeInv, Engaged
        <3>3. session[m] \notin disturbed BY <2>1, <3>2
        <3>4. m \in hist[session[m]] \cup archived[session[m]]
            BY <3>2, <3>3 DEF ServeInv, AnsweredIsKept
        <3> QED BY <2>1, <3>2, <3>4
    <2> QED BY <2>5, <2>6, <2>7 DEF ServeInv
<1>4. CASE ForgetRunners
    <2>1. /\ cache' = [s \in Session |-> None]
          /\ disturbed' = disturbed \cup {s \in Session : cache[s] # None /\ Users(cache[s]) # {}}
          /\ UNCHANGED <<files, open, loaded, log, messages, closes>>
        BY <1>4 DEF ForgetRunners
    <2>2. \A x \in Msg : /\ phase'[x] = phase[x] /\ session'[x] = session[x]
                         /\ kind'[x] = kind[x] /\ runner'[x] = runner[x]
        BY <2>1 DEF messages
    <2>3. FixedStays /\ Alone(Reaper) /\ Off(Reaper)
        BY <1>0, <2>2 DEF FixedStays, Fixed, Alone, Off
    <2>4. ClosingInv' /\ OrphanInv'
        <3>1. ClosingInv'
            <4> SUFFICES ASSUME NEW q \in Proc, NEW c, closes[q] = c, c # None
                         PROVE  Fixed(c)' /\ \A t \in Session : cache'[t] # c
                BY <2>1 DEF ClosingInv
            <4> QED BY <2>1, <2>3 DEF ServeInv, ClosingInv, FixedStays, TypeInv, TypeOK
        <3> QED BY <2>1, <2>2, <3>1 DEF ServeInv, OrphanInv, TypeInv, TypeOK, messages
    <2>5. RunnersLeft
        BY <2>1 DEF RunnersLeft
    <2>6. \A x \in Msg : phase[x] \in Using /\ session[x] \notin disturbed' => FALSE
        <3> SUFFICES ASSUME NEW x \in Msg, phase[x] \in Using, session[x] \notin disturbed'
                     PROVE  FALSE
            OBVIOUS
        <3>1. session[x] \in Session /\ runner[x] \in Msg
            BY DEF TypeInv, TypeOK, Engaged, Using, Working, Proc
        <3>2. runner[x] = cache[session[x]]
            BY <2>1 DEF ServeInv, OneRunnerPerSession
        <3>3. x \in Users(cache[session[x]]) /\ cache[session[x]] # None
            BY <3>1, <3>2, ConvAssumption DEF Users, ConvAssumption
        <3> QED BY <2>1, <3>1, <3>3
    <2> QED BY <1>0, <2>1, <2>2, <2>3, <2>4, <2>5, <2>6, ServeKept DEF files, messages
<1> QED BY <1>1, <1>2, <1>3, <1>4

\* What a step of message m on runner r leaves alone.
TurnFrame(m, r) ==
    /\ session' = session /\ kind' = kind /\ cache' = cache /\ closes' = closes
    /\ archived' = archived
    /\ disturbed \subseteq disturbed'
    /\ loaded \subseteq loaded' /\ loaded' \subseteq loaded \cup {r}
    /\ \A x \in Msg \ {m} : phase'[x] = phase[x] /\ runner'[x] = runner[x]
    /\ runner'[m] \in {r, None}
    /\ \A q \in Msg \ {r} : log'[q] = log[q]
    /\ \A s \in Session \ {session[m]} : hist'[s] = hist[s]
    /\ \/ open' = open /\ orphan' \subseteq orphan
       \/ /\ phase[m] = "opening" /\ runner[m] = r
          /\ open' = open \cup {r}
          /\ orphan' = orphan \cup {o \in Users(r) : phase[o] = "sending"}

\* What it must see to for its own session, if that stays undisturbed.
TurnServes(m, r) ==
    LET s == session[m]
    IN  /\ phase'[m] \in Using => runner'[m] = r /\ r = cache[s]
        /\ phase'[m] = "opening" =>
              r \notin open' /\ \A x \in Msg \ {m} : phase[x] = "opening" => runner[x] # r
        /\ phase'[m] = "sending" => m \notin orphan' /\ r \in open' /\ r \in loaded'
        /\ phase'[m] = "answered" => m \in hist'[s]
        /\ cache[s] = r /\ r \in loaded' => r \in open' /\ hist'[s] \subseteq log'[r]
        /\ hist[s] \subseteq hist'[s]
        /\ cache[s] # None => cache[s] = r

\* A step of one message on one runner keeps ServeInv if it serves that message and
\* touches nothing of the other runners.
LEMMA TurnKept ==
    ASSUME ConvAssumption, TypeInv, TypeInv', OwnInv, ServeInv, NEW m \in Msg, NEW r \in Msg,
           session[m] \in Session, Fixed(r), session[r] = session[m], FixedStays,
           TurnFrame(m, r), session[m] \notin disturbed' => TurnServes(m, r),
           OrphanInv', phase'[m] # "replacing"
    PROVE  ServeInv'
<1> USE DEF TurnFrame
<1>0. \A x \in Msg : phase[x] \in Using /\ runner[x] = r => session[x] = session[m]
    BY ConvAssumption DEF OwnInv, RunnerOwned, ConvAssumption
<1>1. ClosingInv'
    <2> SUFFICES ASSUME NEW q \in Proc, NEW c, closes[q] = c, c # None
                 PROVE  Fixed(c)' /\ \A t \in Session : cache[t] # c
        BY DEF ClosingInv
    <2> QED BY DEF ServeInv, ClosingInv, FixedStays, TypeInv, TypeOK
<1>2. ReplacingInv'
    BY DEF ServeInv, ReplacingInv
<1>3. OneRunnerPerSession'
    BY DEF ServeInv, OneRunnerPerSession, TurnServes
<1>4. OpeningInv'
    <2> SUFFICES ASSUME NEW x \in Msg, phase'[x] = "opening", session[x] \notin disturbed'
                 PROVE  /\ runner'[x] \notin open'
                        /\ \A o \in Msg : phase'[o] = "opening" /\ runner'[o] = runner'[x] => o = x
        BY DEF OpeningInv
    <2>1. CASE x = m
        BY <2>1 DEF TurnServes, Using
    <2>2. CASE x # m
        <3>1. /\ phase[x] = "opening" /\ runner'[x] = runner[x] /\ runner[x] \notin open
              /\ \A o \in Msg : phase[o] = "opening" /\ runner[o] = runner[x] => o = x
            BY <2>2 DEF ServeInv, OpeningInv
        <3>2. runner[x] \notin open'
            BY <2>2, <3>1
        <3>3. ASSUME phase'[m] = "opening", runner'[m] = runner[x] PROVE FALSE
            <4>1. CASE session[m] \notin disturbed'
                BY <2>2, <3>1, <3>3, <4>1 DEF TurnServes, Using
            <4>2. CASE session[m] \in disturbed'
                <5>1. session[x] # session[m] BY <4>2
                <5>2. session[runner[x]] = session[x] /\ runner[x] # None
                    BY <3>1, ConvAssumption
                    DEF OwnInv, RunnerOwned, ConvAssumption, TypeInv, Engaged, Using
                <5> QED BY <3>3, <5>1, <5>2
            <4> QED BY <4>1, <4>2
        <3> QED BY <3>1, <3>2, <3>3
    <2> QED BY <2>1, <2>2
<1>5. SendingInv'
    <2> SUFFICES ASSUME NEW x \in Msg, phase'[x] = "sending", session[x] \notin disturbed'
                 PROVE  x \notin orphan' /\ runner'[x] \in open' /\ runner'[x] \in loaded'
        BY DEF SendingInv
    <2>1. CASE x = m
        BY <2>1 DEF TurnServes, Using
    <2>2. CASE x # m
        <3>1. /\ phase[x] = "sending" /\ runner'[x] = runner[x]
              /\ x \notin orphan /\ runner[x] \in open /\ runner[x] \in loaded
            BY <2>2 DEF ServeInv, SendingInv
        <3>2. ASSUME runner[x] = r, phase[m] = "opening", runner[m] = r PROVE FALSE
            <4>1. session[m] \notin disturbed
                BY <1>0, <3>1, <3>2 DEF Using
            <4> QED BY <3>1, <3>2, <4>1 DEF ServeInv, OpeningInv
        <3> QED BY <3>1, <3>2 DEF Users
    <2> QED BY <2>1, <2>2
<1>6. CacheInv'
    <2> SUFFICES ASSUME NEW s \in Session, s \notin disturbed', cache[s] # None, cache[s] \in loaded'
                 PROVE  cache[s] \in open' /\ hist'[s] \subseteq log'[cache[s]]
        BY DEF CacheInv
    <2>0. cache[s] \in Msg /\ session[cache[s]] = s
        BY DEF TypeInv, TypeOK, OwnInv, CacheOwned
    <2>1. CASE s = session[m]
        BY <2>1 DEF TurnServes
    <2>2. CASE s # session[m]
        <3>1. cache[s] # r BY <2>0, <2>2
        <3>2. cache[s] \in open /\ hist[s] \subseteq log[cache[s]]
            BY <3>1 DEF ServeInv, CacheInv
        <3> QED BY <2>0, <2>2, <3>1, <3>2
    <2> QED BY <2>1, <2>2
<1>7. LoadedInv'
    BY DEF ServeInv, LoadedInv, FixedStays, TypeInv, TypeOK
<1>8. AnsweredIsKept'
    <2> SUFFICES ASSUME NEW x \in Msg, x \in Exchanges', session[x] \notin disturbed'
                 PROVE  x \in hist'[session[x]] \cup archived[session[x]]
        BY DEF AnsweredIsKept, Exchanges
    <2>1. phase'[x] = "answered" BY DEF Exchanges
    <2>2. CASE x = m
        BY <2>1, <2>2 DEF TurnServes
    <2>3. CASE x # m
        <3>1. x \in Exchanges /\ session[x] \in Session /\ session[x] \notin disturbed
            BY <2>1, <2>3 DEF Exchanges, TypeInv, Engaged
        <3>2. x \in hist[session[x]] \cup archived[session[x]]
            BY <3>1 DEF ServeInv, AnsweredIsKept
        <3>3. hist[session[x]] \subseteq hist'[session[x]]
            BY <3>1 DEF TurnServes
        <3> QED BY <3>2, <3>3
    <2> QED BY <2>2, <2>3
<1> QED BY <1>1, <1>2, <1>3, <1>4, <1>5, <1>6, <1>7, <1>8 DEF ServeInv

\* What the lock's holder, and who asks for the lock, changes.
LEMMA WorkFrame ==
    ASSUME TypeInv, NEW m \in Msg, NEW r \in Msg, NEW lg, NEW rest, Work(m, r, lg, rest)
    PROVE  /\ loaded' = loaded \cup {r}
           /\ \A q \in Msg \ {r} : log'[q] = log[q]
           /\ \A s \in Session \ {session[m]} : hist'[s] = hist[s]
BY DEF Work, TypeInv, TypeOK

\* What taking the run lock leaves alone: other runners and other sessions.
LEMMA LockFrame ==
    ASSUME TypeInv, NEW m \in Msg, NEW r \in Msg, NEW lg, Lock(m, r, lg)
    PROVE  /\ loaded \subseteq loaded' /\ loaded' \subseteq loaded \cup {r}
           /\ \A q \in Msg \ {r} : log'[q] = log[q]
           /\ \A s \in Session \ {session[m]} : hist'[s] = hist[s]
<1>1. CASE line[r] = <<>>
    <2>1. Work(m, r, lg, <<>>) BY <1>1 DEF Lock
    <2> QED BY <2>1, WorkFrame
<1>2. CASE line[r] # <<>>
    BY <1>2 DEF Lock, TypeInv, TypeOK
<1> QED BY <1>1, <1>2

\* A runner that comes to the lock with all it has read ends with all of the file.
Keeps(m, r) ==
    /\ hist[session[m]] \subseteq hist'[session[m]]
    /\ r \in loaded' => hist'[session[m]] \subseteq log'[r]
    /\ phase'[m] \in {"answered", "sending", "waiting"}
    /\ phase'[m] = "sending" => r \in loaded'
    /\ phase'[m] = "answered" => m \in hist'[session[m]]

\* A turn that starts on a runner with the whole history keeps that history.
LEMMA WorkKeeps ==
    ASSUME TypeInv, NEW m \in Msg, NEW r \in Msg, NEW lg \in SUBSET Msg, NEW rest,
           session[m] \in Session, r \in loaded => hist[session[m]] \subseteq lg,
           Work(m, r, lg, rest)
    PROVE  Keeps(m, r)
<1> DEFINE h == History(m, r, lg)
<1>1. hist[session[m]] \subseteq h
    BY DEF History, TypeInv, TypeOK
<1>2. CASE kind[m] = "deliver"
    <2>1. /\ log' = [log EXCEPT ![r] = h \cup {m}]
          /\ hist' = [hist EXCEPT ![session[m]] = h \cup {m}]
          /\ phase' = [phase EXCEPT ![m] = "answered"]
        BY <1>2 DEF Work
    <2> HIDE DEF h
    <2> QED BY <1>1, <2>1 DEF Keeps, TypeInv, TypeOK, Proc
<1>3. CASE kind[m] # "deliver"
    <2>1. /\ log' = [log EXCEPT ![r] = h] /\ hist' = hist
          /\ phase' = [phase EXCEPT ![m] = "sending"]
          /\ r \in loaded'
        BY <1>3 DEF Work
    <2> HIDE DEF h
    <2> QED BY <1>1, <2>1 DEF Keeps, TypeInv, TypeOK, Proc
<1> QED BY <1>2, <1>3

\* So does a message that takes the run lock or joins the line for it.
LEMMA LockKeeps ==
    ASSUME TypeInv, NEW m \in Msg, NEW r \in Msg, NEW lg \in SUBSET Msg,
           session[m] \in Session, r \in loaded => hist[session[m]] \subseteq lg,
           Lock(m, r, lg)
    PROVE  Keeps(m, r)
<1>1. CASE line[r] = <<>>
    <2>1. Work(m, r, lg, <<>>) BY <1>1 DEF Lock
    <2> QED BY <2>1, WorkKeeps
<1>2. CASE line[r] # <<>>
    <2>1. /\ log' = [log EXCEPT ![r] = lg] /\ hist' = hist /\ loaded' = loaded
          /\ phase' = [phase EXCEPT ![m] = "waiting"]
        BY <1>2 DEF Lock
    <2> QED BY <2>1 DEF Keeps, TypeInv, TypeOK, Proc
<1> QED BY <1>1, <1>2

\* Entering a run with the cached runner.
LEMMA EnterServes ==
    ASSUME ConvAssumption, TypeInv, OwnInv, ServeInv, NEW m \in Msg, NEW r \in Msg,
           session[m] \in Session, phase[m] \in {"prompting", "handed"},
           Fixed(r), session[r] = session[m], Enter(m, r),
           runner' = [runner EXCEPT ![m] = r],
           UNCHANGED <<session, kind, cache, closes, archived, open, orphan>>,
           session[m] \notin disturbed' => r = cache[session[m]]
    PROVE  /\ TurnFrame(m, r)
           /\ session[m] \notin disturbed' => TurnServes(m, r)
           /\ OrphanInv' /\ phase'[m] # "replacing" /\ Fixed(m)'
<1>1. PICK ph \in {"answered", "sending", "waiting", "opening"} : phase' = [phase EXCEPT ![m] = ph]
    BY EnterType
<1>2. /\ phase'[m] = ph
      /\ \A x \in Msg \ {m} : phase'[x] = phase[x]
    BY <1>1 DEF TypeInv, TypeOK, Proc
<1>3. m \notin orphan /\ OrphanInv'
    <2>1. m \notin orphan BY DEF ServeInv, OrphanInv
    <2> QED BY <1>2, <2>1 DEF ServeInv, OrphanInv, TypeInv, TypeOK
<1>4. CASE r \in open
    <2>1. Lock(m, r, log[r]) /\ disturbed' = disturbed BY <1>4 DEF Enter
    <2>2. TurnFrame(m, r)
        BY <1>2, <2>1, LockFrame DEF TurnFrame, TypeInv, TypeOK
    <2>3. ASSUME session[m] \notin disturbed' PROVE TurnServes(m, r)
        <3>1. r = cache[session[m]] /\ r # None
            BY <2>3, ConvAssumption DEF ConvAssumption
        <3>2. r \in loaded => hist[session[m]] \subseteq log[r]
            BY <2>1, <2>3, <3>1 DEF ServeInv, CacheInv
        <3>3. log[r] \in SUBSET Msg BY DEF TypeInv, TypeOK
        <3>4. Keeps(m, r) BY <2>1, <3>2, <3>3, LockKeeps
        <3>5. runner'[m] = r BY DEF TypeInv, TypeOK
        <3> QED BY <1>3, <1>4, <3>1, <3>4, <3>5 DEF Keeps, TurnServes
    <2> QED BY <1>2, <1>3, <2>2, <2>3 DEF Fixed, Using
<1>5. CASE r \notin open
    <2>1. /\ phase' = [phase EXCEPT ![m] = "opening"]
          /\ disturbed' = disturbed \cup {t \in {session[m]} : \E o \in Users(r) : phase[o] = "opening"}
          /\ UNCHANGED <<loaded, hist, log>>
        BY <1>5 DEF Enter
    <2>2. TurnFrame(m, r)
        BY <1>2, <2>1 DEF TurnFrame, TypeInv, TypeOK
    <2>3. ASSUME session[m] \notin disturbed' PROVE TurnServes(m, r)
        <3>1. r = cache[session[m]] /\ r # None
            BY <2>3, ConvAssumption DEF ConvAssumption
        <3>2. r \notin loaded
            BY <1>5, <2>1, <2>3, <3>1 DEF ServeInv, CacheInv
        <3>3. \A x \in Msg \ {m} : phase[x] = "opening" => runner[x] # r
            BY <2>1, <2>3 DEF Users, Using
        <3>4. runner'[m] = r /\ phase'[m] = "opening"
            BY <2>1 DEF TypeInv, TypeOK, Proc
        <3> QED BY <1>5, <2>1, <3>1, <3>2, <3>3, <3>4 DEF TurnServes
    <2> QED BY <1>2, <1>3, <2>1, <2>2, <2>3 DEF Fixed, Using
<1> QED BY <1>4, <1>5

\* A runner is given: nobody else of the session may be served by another.
LEMMA TakeServes ==
    ASSUME ConvAssumption, TypeInv, TypeInv', OwnInv, ServeInv, NEW m \in Msg, TakeRunner(m)
    PROVE  ServeInv'
<1>0. phase[m] = "handed" /\ session[m] \in Session
    BY DEF TakeRunner, GiveRunner, TypeInv, Engaged, Working, Proc
<1>1. PICK r \in Msg : /\ GiveRunner(m, r)
                       /\ \/ cache[session[m]] = None /\ r = m
                          \/ cache[session[m]] = r
    <2>1. CASE cache[session[m]] = None BY <2>1 DEF TakeRunner
    <2>2. CASE cache[session[m]] # None
        <3>1. cache[session[m]] \in Msg BY <1>0, <2>2 DEF TypeInv, TypeOK
        <3> QED BY <2>2, <3>1 DEF TakeRunner
    <2> QED BY <2>1, <2>2
<1>2. /\ cache' = [cache EXCEPT ![session[m]] = r]
      /\ \A x \in Msg \ {m} : phase'[x] = phase[x] /\ runner'[x] = runner[x]
      /\ phase'[m] = "prompting" /\ runner'[m] = r
      /\ UNCHANGED <<hist, archived, open, loaded, log, kind, session, orphan, closes, disturbed>>
    BY <1>1 DEF GiveRunner, files, evictions, TypeInv, TypeOK, Proc
<1>3. ~ Fixed(m) BY <1>0 DEF Fixed, Using
<1>4. \A s \in Session : cache'[s] = IF s = session[m] THEN r ELSE cache[s]
    BY <1>2 DEF TypeInv, TypeOK
<1>5. ClosingInv'
    <2> SUFFICES ASSUME NEW q \in Proc, NEW c, closes[q] = c, c # None
                 PROVE  Fixed(c)' /\ \A t \in Session : cache'[t] # c
        BY <1>2 DEF ClosingInv
    <2>1. Fixed(c) /\ c \in Msg /\ \A t \in Session : cache[t] # c
        BY DEF ServeInv, ClosingInv, TypeInv, TypeOK
    <2>2. c # m BY <1>3, <2>1
    <2> QED BY <1>0, <1>1, <1>2, <1>4, <2>1, <2>2 DEF Fixed
<1>6. OneRunnerPerSession'
    <2> SUFFICES ASSUME NEW x \in Msg, phase'[x] \in Using, session[x] \notin disturbed
                 PROVE  runner'[x] = cache'[session[x]]
        BY <1>2 DEF OneRunnerPerSession
    <2>1. CASE x = m
        BY <1>0, <1>2, <1>4, <2>1
    <2>2. CASE x # m
        <3>1. runner[x] = cache[session[x]] /\ runner[x] \in Msg /\ session[x] \in Session
            BY <1>2, <2>2 DEF ServeInv, OneRunnerPerSession, TypeInv, Engaged, Working, Proc
        <3>2. session[x] = session[m] => cache[session[m]] = r
            BY <1>1, <3>1, ConvAssumption DEF ConvAssumption
        <3> QED BY <1>2, <1>4, <2>2, <3>1, <3>2
    <2> QED BY <2>1, <2>2
<1>7. CacheInv'
    <2> SUFFICES ASSUME NEW s \in Session, s \notin disturbed, cache'[s] # None, cache'[s] \in loaded
                 PROVE  cache'[s] \in open /\ hist[s] \subseteq log[cache'[s]]
        BY <1>2 DEF CacheInv
    <2>1. cache'[s] = cache[s]
        BY <1>1, <1>3, <1>4 DEF ServeInv, LoadedInv
    <2> QED BY <2>1 DEF ServeInv, CacheInv
<1>8. ReplacingInv' /\ OpeningInv' /\ SendingInv'
    BY <1>2 DEF ServeInv, ReplacingInv, OpeningInv, SendingInv
<1>9. LoadedInv' /\ OrphanInv' /\ AnsweredIsKept'
    <2>1. LoadedInv'
        BY <1>2, <1>3 DEF ServeInv, LoadedInv, Fixed, TypeInv, TypeOK
    <2>2. OrphanInv'
        BY <1>0, <1>2 DEF ServeInv, OrphanInv, TypeInv, TypeOK
    <2>3. AnsweredIsKept'
        BY <1>2 DEF ServeInv, AnsweredIsKept, Exchanges
    <2> QED BY <2>1, <2>2, <2>3
<1> QED BY <1>5, <1>6, <1>7, <1>8, <1>9 DEF ServeInv

\* A result that goes straight to the file of a session without a runner.
LEMMA FiledServes ==
    ASSUME ConvAssumption, TypeInv, TypeInv', OwnInv, ServeInv, NEW m \in Msg, Deliver(m),
           cache[session[m]] = None
    PROVE  ServeInv'
<1>1. /\ session[m] \in Session /\ phase[m] = "handed"
      /\ hist' = [hist EXCEPT ![session[m]] = @ \cup {m}]
      /\ phase' = [phase EXCEPT ![m] = "answered"]
      /\ UNCHANGED <<archived, cache, open, loaded, log, kind, session, runner, orphan,
                     closes, disturbed>>
    BY DEF Deliver, TypeInv, Engaged, Working, Proc
<1>2. phase'[m] = "answered" /\ \A x \in Msg \ {m} : phase'[x] = phase[x]
    BY <1>1 DEF TypeInv, TypeOK, Proc
<1>3. \A x \in Msg : Fixed(x) => Fixed(x)'
    BY <1>2 DEF Fixed
<1>4. ClosingInv' /\ LoadedInv'
    <2>1. ClosingInv'
        <3> SUFFICES ASSUME NEW q \in Proc, NEW c, closes[q] = c, c # None
                     PROVE  Fixed(c)' /\ \A t \in Session : cache[t] # c
            BY <1>1 DEF ClosingInv
        <3> QED BY <1>3 DEF ServeInv, ClosingInv, TypeInv, TypeOK
    <2>2. LoadedInv'
        BY <1>1, <1>3 DEF ServeInv, LoadedInv, TypeInv, TypeOK
    <2> QED BY <2>1, <2>2
<1>5. ReplacingInv' /\ OpeningInv' /\ SendingInv' /\ OneRunnerPerSession'
    BY <1>1, <1>2 DEF ServeInv, ReplacingInv, OpeningInv, SendingInv, OneRunnerPerSession, Using
<1>6. OrphanInv'
    BY <1>1, <1>2 DEF ServeInv, OrphanInv, TypeInv, TypeOK
<1>7. CacheInv'
    BY <1>1 DEF ServeInv, CacheInv, TypeInv, TypeOK
<1>8. AnsweredIsKept'
    <2> SUFFICES ASSUME NEW x \in Msg, x \in Exchanges', session[x] \notin disturbed
                 PROVE  x \in hist'[session[x]] \cup archived[session[x]]
        BY <1>1 DEF AnsweredIsKept, Exchanges
    <2>1. CASE x = m BY <1>1, <2>1 DEF TypeInv, TypeOK
    <2>2. CASE x # m
        <3>1. x \in Exchanges /\ session[x] \in Session
            BY <1>1, <1>2, <2>2 DEF Exchanges, TypeInv, Engaged
        <3>2. x \in hist[session[x]] \cup archived[session[x]]
            BY <3>1 DEF ServeInv, AnsweredIsKept
        <3> QED BY <1>1, <3>1, <3>2 DEF TypeInv, TypeOK
    <2> QED BY <2>1, <2>2
<1> QED BY <1>4, <1>5, <1>6, <1>7, <1>8 DEF ServeInv

\* Who serves a session, over the steps of a turn.
LEMMA TurnStepServes ==
    ASSUME ConvAssumption, TypeInv, TypeInv', OwnInv, ServeInv, NEW m \in Msg,
           StartRun(m) \/ Deliver(m) \/ Opened(m) \/ GetLock(m) \/ Answer(m)
    PROVE  ServeInv'
<1>0. /\ session[m] \in Session
      /\ phase[m] \in Using => runner[m] \in Msg /\ runner[m] # None
    BY DEF StartRun, Deliver, Opened, GetLock, Answer, TypeInv, Engaged, Working, Using, Proc,
           ConvAssumption
<1>1. phase[m] \in Using => Fixed(m) /\ Fixed(runner[m]) /\ session[runner[m]] = session[m]
    BY <1>0 DEF OwnInv, RunnerOwned
<1>3. CASE StartRun(m)
    <2>1. /\ phase[m] = "prompting" /\ phase[m] \in Using /\ Enter(m, runner[m])
          /\ UNCHANGED <<session, kind, cache, closes, archived, open, orphan, runner>>
        BY <1>3 DEF StartRun, manager, Using
    <2>2. runner' = [runner EXCEPT ![m] = runner[m]]
        BY <2>1 DEF TypeInv, TypeOK
    <2>3. session[m] \notin disturbed' => runner[m] = cache[session[m]]
        <3>1. disturbed \subseteq disturbed' BY <2>1 DEF Enter
        <3> QED BY <2>1, <3>1 DEF ServeInv, OneRunnerPerSession
    <2>4. /\ TurnFrame(m, runner[m])
          /\ session[m] \notin disturbed' => TurnServes(m, runner[m])
          /\ OrphanInv' /\ phase'[m] # "replacing" /\ Fixed(m)'
        BY <1>0, <1>1, <2>1, <2>2, <2>3, EnterServes
    <2>5. FixedStays BY <2>4 DEF TurnFrame, FixedStays, Fixed
    <2> QED BY <1>0, <1>1, <2>1, <2>4, <2>5, TurnKept
<1>4. CASE Deliver(m) /\ cache[session[m]] # None
    <2>1. PICK r \in Msg : r = cache[session[m]]
        BY <1>0, <1>4 DEF TypeInv, TypeOK
    <2>2. /\ phase[m] = "handed" /\ Enter(m, r) /\ runner' = [runner EXCEPT ![m] = r]
          /\ UNCHANGED <<session, kind, cache, closes, archived, open, orphan>>
        BY <1>4, <2>1 DEF Deliver
    <2>3. Fixed(r) /\ session[r] = session[m]
        BY <1>0, <1>4, <2>1 DEF OwnInv, CacheOwned
    <2>4. /\ TurnFrame(m, r)
          /\ session[m] \notin disturbed' => TurnServes(m, r)
          /\ OrphanInv' /\ phase'[m] # "replacing" /\ Fixed(m)'
        BY <1>0, <2>1, <2>2, <2>3, EnterServes
    <2>5. FixedStays BY <2>4 DEF TurnFrame, FixedStays, Fixed
    <2> QED BY <1>0, <2>3, <2>4, <2>5, TurnKept
<1>5. CASE Deliver(m) /\ cache[session[m]] = None
    BY <1>5, FiledServes
<1>6. CASE Opened(m)
    <2> DEFINE r == runner[m]
    <2>1. /\ phase[m] = "opening" /\ phase[m] \in Using /\ Lock(m, r, {})
          /\ open' = open \cup {r}
          /\ orphan' = orphan \cup {o \in Users(r) : phase[o] = "sending"}
          /\ UNCHANGED <<session, kind, cache, closes, archived, disturbed, runner>>
        BY <1>6 DEF Opened, manager, evictions, Using
    <2>2. {} \in SUBSET Msg OBVIOUS
    <2>3. \E ph \in {"answered", "sending", "waiting"} : phase' = [phase EXCEPT ![m] = ph]
        BY <1>0, <2>1, <2>2, LockType
    <2>4. /\ phase'[m] \in {"answered", "sending", "waiting"}
          /\ \A x \in Msg \ {m} : phase'[x] = phase[x]
        BY <2>3 DEF TypeInv, TypeOK, Proc
    <2>5. TurnFrame(m, r)
        <3>1. /\ loaded \subseteq loaded' /\ loaded' \subseteq loaded \cup {r}
              /\ \A q \in Msg \ {r} : log'[q] = log[q]
              /\ \A s \in Session \ {session[m]} : hist'[s] = hist[s]
            BY <1>0, <2>1, LockFrame
        <3> QED BY <2>1, <2>4, <3>1 DEF TurnFrame
    <2>6. m \notin orphan /\ m \notin orphan'
        BY <2>1 DEF ServeInv, OrphanInv
    <2>7. OrphanInv'
        <3> SUFFICES ASSUME NEW x \in orphan' PROVE phase'[x] = "sending"
            BY DEF OrphanInv
        <3>1. x \in Msg /\ phase[x] = "sending"
            BY <2>1 DEF ServeInv, OrphanInv, TypeInv, TypeOK, Users
        <3> QED BY <2>4, <2>6, <3>1
    <2>8. ASSUME session[m] \notin disturbed' PROVE TurnServes(m, r)
        <3>1. r = cache[session[m]] /\ r \notin open
            BY <2>1, <2>8 DEF ServeInv, OneRunnerPerSession, OpeningInv
        <3>2. r \notin loaded
            BY <1>0, <2>1, <2>8, <3>1 DEF ServeInv, CacheInv
        <3>3. Keeps(m, r) BY <1>0, <2>1, <2>2, <3>2, LockKeeps
        <3> QED BY <2>1, <2>4, <2>6, <3>1, <3>3 DEF Keeps, TurnServes
    <2>9. FixedStays BY <2>1, <2>4 DEF FixedStays, Fixed, Using
    <2>10. phase'[m] # "replacing" BY <2>4
    <2> QED BY <1>0, <1>1, <2>1, <2>5, <2>7, <2>8, <2>9, <2>10, TurnKept
<1>7. CASE GetLock(m)
    <2> DEFINE r == runner[m]
    <2>1. /\ phase[m] = "waiting" /\ phase[m] \in Using /\ r \in open
          /\ Work(m, r, log[r], Without(line[r], m))
          /\ UNCHANGED <<session, kind, cache, closes, archived, open, orphan, disturbed, runner>>
        BY <1>7 DEF GetLock, manager, evictions, Using
    <2>2. log[r] \in SUBSET Msg BY <1>0, <2>1 DEF TypeInv, TypeOK
    <2>3. Without(line[r], m) \in Seq(Msg)
        BY <1>0, <2>1, WithoutType DEF TypeInv, TypeOK
    <2>4. \E ph \in {"answered", "sending"} : phase' = [phase EXCEPT ![m] = ph]
        BY <1>0, <2>1, <2>2, <2>3, WorkType
    <2>5. /\ phase'[m] \in {"answered", "sending"}
          /\ \A x \in Msg \ {m} : phase'[x] = phase[x]
        BY <2>4 DEF TypeInv, TypeOK, Proc
    <2>6. TurnFrame(m, r)
        <3>1. /\ loaded' = loaded \cup {r}
              /\ \A q \in Msg \ {r} : log'[q] = log[q]
              /\ \A s \in Session \ {session[m]} : hist'[s] = hist[s]
            BY <1>0, <2>1, WorkFrame
        <3> QED BY <2>1, <2>5, <3>1 DEF TurnFrame
    <2>7. m \notin orphan /\ OrphanInv'
        <3>1. m \notin orphan BY <2>1 DEF ServeInv, OrphanInv
        <3> QED BY <2>1, <2>5, <3>1 DEF ServeInv, OrphanInv, TypeInv, TypeOK
    <2>8. ASSUME session[m] \notin disturbed' PROVE TurnServes(m, r)
        <3>1. r = cache[session[m]]
            BY <2>1, <2>8 DEF ServeInv, OneRunnerPerSession
        <3>2. r \in loaded => hist[session[m]] \subseteq log[r]
            BY <1>0, <2>1, <2>8, <3>1 DEF ServeInv, CacheInv
        <3>3. Keeps(m, r) BY <1>0, <2>1, <2>2, <3>2, WorkKeeps
        <3> QED BY <2>1, <2>5, <2>7, <3>1, <3>3 DEF Keeps, TurnServes
    <2>9. FixedStays BY <2>1, <2>5 DEF FixedStays, Fixed, Using
    <2>10. phase'[m] # "replacing" BY <2>5
    <2> QED BY <1>0, <1>1, <2>1, <2>6, <2>7, <2>8, <2>9, <2>10, TurnKept
<1>8. CASE Answer(m)
    <2> DEFINE r == runner[m]
               h == IF m \in orphan THEN log[r] ELSE log[r] \cup {m}
    <2>1. /\ phase[m] = "sending" /\ phase[m] \in Using
          /\ log' = [log EXCEPT ![r] = h]
          /\ hist' = IF r \in open /\ h # {} THEN [hist EXCEPT ![session[m]] = h] ELSE hist
          /\ phase' = [phase EXCEPT ![m] = "answered"]
          /\ runner' = [runner EXCEPT ![m] = None]
          /\ orphan' = orphan \ {m}
          /\ UNCHANGED <<session, kind, cache, closes, archived, open, loaded, disturbed>>
        BY <1>8 DEF Answer, LetGo, evictions, Using
    <2>2. /\ phase'[m] = "answered" /\ runner'[m] = None
          /\ \A x \in Msg \ {m} : phase'[x] = phase[x] /\ runner'[x] = runner[x]
        BY <2>1 DEF TypeInv, TypeOK, Proc
    <2>3. TurnFrame(m, r)
        BY <2>1, <2>2 DEF TurnFrame, TypeInv, TypeOK
    <2>4. OrphanInv'
        BY <2>1, <2>2 DEF ServeInv, OrphanInv, TypeInv, TypeOK
    <2>5. ASSUME session[m] \notin disturbed' PROVE TurnServes(m, r)
        <3>1. r = cache[session[m]] /\ m \notin orphan /\ r \in open /\ r \in loaded
            BY <2>1, <2>5 DEF ServeInv, OneRunnerPerSession, SendingInv
        <3>2. hist[session[m]] \subseteq log[r]
            BY <1>0, <2>1, <2>5, <3>1 DEF ServeInv, CacheInv
        <3>3. h = log[r] \cup {m} BY <3>1
        <3>4. hist'[session[m]] = log[r] \cup {m} /\ log'[r] = log[r] \cup {m}
            BY <1>0, <2>1, <3>1, <3>3 DEF TypeInv, TypeOK
        <3> QED BY <2>1, <2>2, <3>1, <3>2, <3>4 DEF TurnServes, Using
    <2>6. FixedStays BY <2>1, <2>2 DEF FixedStays, Fixed, Using
    <2> QED BY <1>0, <1>1, <2>1, <2>2, <2>3, <2>4, <2>5, <2>6, TurnKept
<1> QED BY <1>3, <1>4, <1>5, <1>6, <1>7, <1>8

\* Every step of the system keeps ServeInv.
LEMMA ServeStep ==
    ASSUME ConvAssumption, TypeInv, TypeInv', OwnInv, ServeInv, [Next]_vars
    PROVE  ServeInv'
<1>1. CASE UNCHANGED vars
    BY <1>1 DEF vars, manager, files, runners, messages, evictions, ServeInv, ClosingInv,
                ReplacingInv, OneRunnerPerSession, OpeningInv, SendingInv, CacheInv,
                LoadedInv, OrphanInv, AnsweredIsKept, Exchanges, Fixed
<1>2. ASSUME NEW m \in Msg, TakeRunner(m) PROVE ServeInv'
    BY <1>2, TakeServes
<1>3. ASSUME NEW m \in Msg,
             StartRun(m) \/ Deliver(m) \/ Opened(m) \/ GetLock(m) \/ Answer(m)
      PROVE  ServeInv'
    BY <1>3, TurnStepServes
<1>4. ASSUME NEW m \in Msg,
             \/ ArriveFirst(m) \/ ArriveResume(m) \/ ArriveStale(m)
             \/ Fail(m) \/ FailDeliver(m) \/ Evicted(m) \/ RolledOver(m)
             \/ Command(m) \/ Replaced(m)
      PROVE  ServeInv'
    BY <1>4, RestServes
<1>5. CASE \/ Sweep \/ (\E s \in Session : Reap(s)) \/ Reaped
           \/ ForgetRunners \/ Midnight \/ Restart \/ (\E m \in Msg : CrashInSave(m))
    BY <1>5, WorldServes
<1> QED BY <1>1, <1>2, <1>3, <1>4, <1>5 DEF Next, Proceed, Refused

\* ServeInv holds before the first message.
LEMMA ServeInit == ASSUME ConvAssumption, Init PROVE ServeInv
BY DEF ConvAssumption, Init, ServeInv, ClosingInv, ReplacingInv, OneRunnerPerSession,
       OpeningInv, SendingInv, CacheInv, LoadedInv, OrphanInv, AnsweredIsKept, Exchanges,
       Proc, Using

\* The invariant that says who serves a session, which exchanges the cached runner must
\* have loaded and what no runner holds any more, in every reachable state.
THEOREM ServiceHolds == Spec => []ServeInv
<1> DEFINE Inv == TypeInv /\ OwnInv /\ ServeInv
<1>1. Init => Inv BY TypeInit, OwnInit, ServeInit, ConvAssumption
<1>2. Inv /\ [Next]_vars => Inv'
    BY TypeStep, OwnStep, ServeStep, ConvAssumption
<1>3. Inv => ServeInv OBVIOUS
<1> QED BY <1>1, <1>2, <1>3, PTL DEF Spec

\* As long as nobody takes a session's runner from somebody, opens it twice or dies in
\* the middle of a save, all its messages share the cached runner.
THEOREM OneRunnerServes == Spec => []OneRunnerPerSession
<1>1. ServeInv => OneRunnerPerSession BY DEF ServeInv
<1> QED BY <1>1, ServiceHolds, PTL

\* And then every exchange that was answered and every result delivered is in
\* history.json or under archived/, through any number of rollovers, commands, sweeps,
\* failures and restarts.
THEOREM AnswersAreKept == Spec => []AnsweredIsKept
<1>1. ServeInv => AnsweredIsKept BY DEF ServeInv
<1> QED BY <1>1, ServiceHolds, PTL

---------------------------------------------------------------------------
(* The run lock of a runner: who is in its queue, and that nobody is twice. *)

\* Nobody is in a line twice.
Single == \A r \in Msg : \A i, j \in 1 .. Len(line[r]) : line[r][i] = line[r][j] => i = j
LockInv == RunLock /\ Single

\* The queue of a lock that a message leaves: the others close up.
LEMMA WithoutAt ==
    ASSUME NEW q \in Seq(Msg), NEW m \in Msg, NEW i \in 1 .. Len(q), q[i] = m,
           \A j, k \in 1 .. Len(q) : q[j] = q[k] => j = k
    PROVE  /\ Without(q, m) \in Seq(Msg)
           /\ Len(Without(q, m)) = Len(q) - 1
           /\ \A j \in 1 .. Len(q) - 1 : Without(q, m)[j] = IF j < i THEN q[j] ELSE q[j + 1]
<1> DEFINE k == CHOOSE k \in 1 .. Len(q) : q[k] = m
           a == SubSeq(q, 1, i - 1)
           b == SubSeq(q, i + 1, Len(q))
<1>1. k = i OBVIOUS
<1>2. Without(q, m) = a \o b BY <1>1 DEF Without
<1>3. i \in Nat /\ i >= 1 /\ i <= Len(q) /\ Len(q) \in Nat OBVIOUS
<1>4. \A j \in 1 .. Len(q) : q[j] \in Msg OBVIOUS
<1>5. /\ a \in Seq(Msg) /\ Len(a) = i - 1
      /\ \A j \in 1 .. i - 1 : a[j] = q[j]
    <2>1. \A j \in 1 .. i - 1 : q[j] \in Msg BY <1>3, <1>4
    <2>2. a \in Seq(Msg) BY <1>3, <2>1, SubSeqProperties
    <2>3. Len(a) = i - 1 BY <1>3, SubSeqProperties
    <2>4. \A j \in 1 .. i - 1 : a[j] = q[j] BY <1>3, SubSeqProperties
    <2> QED BY <2>2, <2>3, <2>4
<1>6. /\ b \in Seq(Msg) /\ Len(b) = Len(q) - i
      /\ \A j \in 1 .. Len(q) - i : b[j] = q[i + j]
    <2>1. \A j \in i + 1 .. Len(q) : q[j] \in Msg BY <1>3, <1>4
    <2>2. b \in Seq(Msg) BY <1>3, <2>1, SubSeqProperties
    <2>3. Len(b) = Len(q) - i BY <1>3, SubSeqProperties
    <2>4. \A j \in 1 .. Len(q) - i : b[j] = q[i + j]
        <3> SUFFICES ASSUME NEW j \in 1 .. Len(q) - i PROVE b[j] = q[i + j]
            OBVIOUS
        <3>1. b[j] = q[i + 1 + j - 1] BY <1>3, SubSeqProperties
        <3>2. i + 1 + j - 1 = i + j BY <1>3
        <3> QED BY <3>1, <3>2
    <2> QED BY <2>2, <2>3, <2>4
<1> HIDE DEF a, b, k
<1>7. a \o b \in Seq(Msg) /\ Len(a \o b) = Len(q) - 1
    BY <1>3, <1>5, <1>6
<1>8. ASSUME NEW j \in 1 .. Len(q) - 1
      PROVE  (a \o b)[j] = IF j < i THEN q[j] ELSE q[j + 1]
    <2>1. CASE j < i
        <3>1. (a \o b)[j] = a[j] BY <1>3, <1>5, <1>6, <2>1
        <3> QED BY <1>3, <1>5, <2>1, <3>1
    <2>2. CASE ~(j < i)
        <3>1. j - (i - 1) \in 1 .. Len(q) - i BY <1>3, <2>2
        <3>2. (a \o b)[j] = b[j - (i - 1)] BY <1>3, <1>5, <1>6, <2>2
        <3>3. b[j - (i - 1)] = q[i + (j - (i - 1))] BY <1>6, <3>1
        <3>4. i + (j - (i - 1)) = j + 1 BY <1>3
        <3> QED BY <2>2, <3>2, <3>3, <3>4
    <2> QED BY <2>1, <2>2
<1> QED BY <1>2, <1>7, <1>8

\* Queues and those in them untouched.
LEMMA LineKept ==
    ASSUME TypeInv, TypeInv', LockInv, line' = line,
           \A x \in Msg : phase[x] \in InLine \/ phase'[x] \in InLine
                          => phase'[x] = phase[x] /\ runner'[x] = runner[x]
    PROVE  LockInv'
<1>1. \A r \in Msg : \A i \in 1 .. Len(line[r]) : line[r][i] \in Msg
    BY DEF TypeInv, TypeOK
<1>2. RunLock' BY <1>1 DEF LockInv, RunLock
<1>3. Single' BY DEF LockInv, Single
<1> QED BY <1>2, <1>3 DEF LockInv

\* A message that is done with its runner leaves the queue, if it was in it.
LEMMA LineLeft ==
    ASSUME TypeInv, TypeInv', LockInv, NEW m \in Msg, NEW r \in Msg, r = runner[m],
           phase[m] \in Using,
           line' = [line EXCEPT ![r] = Without(@, m)],
           phase'[m] \notin InLine,
           \A x \in Msg \ {m} : phase'[x] = phase[x] /\ runner'[x] = runner[x]
    PROVE  LockInv'
<1>1. \A s \in Msg : line[s] \in Seq(Msg) /\ \A i \in 1 .. Len(line[s]) : line[s][i] \in Msg
    BY DEF TypeInv, TypeOK
<1>a. \A j, k \in 1 .. Len(line[r]) : line[r][j] = line[r][k] => j = k
    BY DEF LockInv, Single
<1>2. CASE \E i \in 1 .. Len(line[r]) : line[r][i] = m
    <2>1. PICK i \in 1 .. Len(line[r]) : line[r][i] = m BY <1>2
    <2> DEFINE w == Without(line[r], m)
    <2>2. /\ w \in Seq(Msg) /\ Len(w) = Len(line[r]) - 1
          /\ \A j \in 1 .. Len(line[r]) - 1 : w[j] = IF j < i THEN line[r][j] ELSE line[r][j + 1]
        <3>1. PICK q \in Seq(Msg) : q = line[r] BY <1>1
        <3>2. i \in 1 .. Len(q) /\ q[i] = m /\ \A j, k \in 1 .. Len(q) : q[j] = q[k] => j = k
            BY <1>a, <2>1, <3>1
        <3>3. /\ Without(q, m) \in Seq(Msg) /\ Len(Without(q, m)) = Len(q) - 1
              /\ \A j \in 1 .. Len(q) - 1 : Without(q, m)[j] = IF j < i THEN q[j] ELSE q[j + 1]
            BY <3>2, WithoutAt
        <3> QED BY <3>1, <3>3
    <2>3. line'[r] = w /\ \A s \in Msg \ {r} : line'[s] = line[s]
        BY DEF TypeInv, TypeOK
    <2> HIDE DEF w
    <2>4. Len(line[r]) \in Nat /\ i \in Nat BY <1>1, <2>1
    <2>5. \A j \in 1 .. Len(w) : \E k \in 1 .. Len(line[r]) :
              k # i /\ w[j] = line[r][k] /\ (k = 1 => j = 1) /\ k = (IF j < i THEN j ELSE j + 1)
        BY <2>2, <2>4
    <2>6. \A k \in 1 .. Len(line[r]) : k # i => \E j \in 1 .. Len(w) : w[j] = line[r][k]
        <3> SUFFICES ASSUME NEW k \in 1 .. Len(line[r]), k # i
                     PROVE  \E j \in 1 .. Len(w) : w[j] = line[r][k]
            OBVIOUS
        <3>1. CASE k < i BY <2>2, <2>4, <3>1
        <3>2. CASE k > i
            <4>1. k - 1 \in 1 .. Len(w) /\ ~(k - 1 < i) /\ (k - 1) + 1 = k BY <2>2, <2>4, <3>2
            <4> QED BY <2>2, <4>1
        <3> QED BY <2>4, <3>1, <3>2
    <2>7. RunLock'
        <3>1. ASSUME NEW s \in Msg, NEW j \in 1 .. Len(line'[s])
              PROVE  LET x == line'[s][j]
                     IN  runner'[x] = s /\ phase'[x] \in InLine /\ (phase'[x] = "sending" => j = 1)
            <4>1. CASE s = r
                <5>1. PICK k \in 1 .. Len(line[r]) : k # i /\ w[j] = line[r][k] /\ (k = 1 => j = 1)
                    BY <2>3, <2>5, <3>1, <4>1
                <5>2. line[r][k] # m BY <2>1, <5>1 DEF LockInv, Single
                <5>3. line'[s][j] = line[r][k] /\ line[r][k] \in Msg BY <1>1, <2>3, <4>1, <5>1
                <5> QED BY <4>1, <5>1, <5>2, <5>3 DEF LockInv, RunLock
            <4>2. CASE s # r
                <5>1. line'[s] = line[s] BY <2>3, <4>2
                <5>2. line[s][j] \in Msg /\ runner[line[s][j]] = s /\ line[s][j] # m
                    BY <1>1, <3>1, <4>2, <5>1 DEF LockInv, RunLock
                <5> QED BY <3>1, <5>1, <5>2 DEF LockInv, RunLock
            <4> QED BY <4>1, <4>2
        <3>2. ASSUME NEW x \in Msg, phase'[x] \in InLine
              PROVE  \E j \in 1 .. Len(line'[runner'[x]]) : line'[runner'[x]][j] = x
            <4>1. x # m /\ phase[x] \in InLine /\ runner'[x] = runner[x] BY <3>2
            <4>2. runner[x] \in Msg BY <4>1 DEF TypeInv, Engaged, Using, InLine
            <4>3. PICK k \in 1 .. Len(line[runner[x]]) : line[runner[x]][k] = x
                BY <4>1 DEF LockInv, RunLock
            <4>4. CASE runner[x] = r
                <5>1. k # i BY <2>1, <4>1, <4>3, <4>4
                <5> QED BY <2>3, <2>6, <4>1, <4>3, <4>4, <5>1
            <4>5. CASE runner[x] # r BY <2>3, <4>1, <4>2, <4>3, <4>5
            <4> QED BY <4>4, <4>5
        <3> QED BY <3>1, <3>2 DEF RunLock
    <2>8. Single'
        <3> SUFFICES ASSUME NEW s \in Msg, NEW j \in 1 .. Len(line'[s]), NEW l \in 1 .. Len(line'[s]),
                            line'[s][j] = line'[s][l]
                     PROVE  j = l
            BY DEF Single
        <3>1. CASE s = r
            <4>1. j \in 1 .. Len(w) /\ l \in 1 .. Len(w) /\ w[j] = w[l] BY <2>3, <3>1
            <4>2. PICK k \in 1 .. Len(line[r]) : w[j] = line[r][k] /\ k = (IF j < i THEN j ELSE j + 1)
                BY <2>5, <4>1
            <4>3. PICK n \in 1 .. Len(line[r]) : w[l] = line[r][n] /\ n = (IF l < i THEN l ELSE l + 1)
                BY <2>5, <4>1
            <4>4. k = n BY <1>a, <4>1, <4>2, <4>3
            <4> QED BY <2>2, <2>4, <4>1, <4>2, <4>3, <4>4
        <3>2. CASE s # r BY <2>3, <3>2 DEF LockInv, Single
        <3> QED BY <3>1, <3>2
    <2> QED BY <2>7, <2>8 DEF LockInv
<1>3. CASE ~ \E i \in 1 .. Len(line[r]) : line[r][i] = m
    <2>1. Without(line[r], m) = line[r] BY <1>3 DEF Without
    <2>2. line' = line BY <2>1 DEF TypeInv, TypeOK
    <2>3. phase[m] \notin InLine BY <1>3 DEF LockInv, RunLock
    <2> QED BY <2>2, <2>3, LineKept
<1> QED BY <1>2, <1>3

\* A message that takes a free lock or waits for it is the last of the queue.
LEMMA LineJoined ==
    ASSUME TypeInv, TypeInv', LockInv, NEW m \in Msg, NEW r \in Msg,
           phase[m] \notin InLine,
           line' = [line EXCEPT ![r] = Append(@, m)],
           phase'[m] \in InLine, runner'[m] = r,
           phase'[m] = "sending" => line[r] = <<>>,
           \A x \in Msg \ {m} : phase'[x] = phase[x] /\ runner'[x] = runner[x]
    PROVE  LockInv'
<1>1. \A s \in Msg : line[s] \in Seq(Msg) /\ \A i \in 1 .. Len(line[s]) : line[s][i] \in Msg
    BY DEF TypeInv, TypeOK
<1>2. /\ line'[r] = Append(line[r], m) /\ \A s \in Msg \ {r} : line'[s] = line[s]
    BY DEF TypeInv, TypeOK
<1>3. PICK q \in Seq(Msg) : q = line[r] BY <1>1
<1>4. /\ Len(Append(q, m)) = Len(q) + 1 /\ Append(q, m)[Len(q) + 1] = m
      /\ \A i \in 1 .. Len(q) : Append(q, m)[i] = q[i]
    OBVIOUS
<1>5. \A s \in Msg : \A i \in 1 .. Len(line[s]) : line[s][i] # m
    BY DEF LockInv, RunLock
<1>6. ASSUME NEW s \in Msg, NEW i \in 1 .. Len(line'[s])
      PROVE  \/ i \in 1 .. Len(line[s]) /\ line'[s][i] = line[s][i]
             \/ s = r /\ i = Len(q) + 1 /\ line'[s][i] = m
    BY <1>2, <1>3, <1>4, <1>6
<1>7. \A s \in Msg : \A i \in 1 .. Len(line[s]) :
          i \in 1 .. Len(line'[s]) /\ line'[s][i] = line[s][i]
    BY <1>2, <1>3, <1>4
<1>8. RunLock'
    <2>1. ASSUME NEW s \in Msg, NEW i \in 1 .. Len(line'[s])
          PROVE  LET x == line'[s][i]
                 IN  runner'[x] = s /\ phase'[x] \in InLine /\ (phase'[x] = "sending" => i = 1)
        <3>1. CASE i \in 1 .. Len(line[s]) /\ line'[s][i] = line[s][i]
            <4>1. line[s][i] \in Msg \ {m} BY <1>1, <1>5, <3>1
            <4> QED BY <3>1, <4>1 DEF LockInv, RunLock
        <3>2. CASE s = r /\ i = Len(q) + 1 /\ line'[s][i] = m
            <4>1. phase'[m] = "sending" => Len(q) = 0 BY <1>3
            <4> QED BY <3>2, <4>1
        <3> QED BY <1>6, <2>1, <3>1, <3>2
    <2>2. ASSUME NEW x \in Msg, phase'[x] \in InLine
          PROVE  \E i \in 1 .. Len(line'[runner'[x]]) : line'[runner'[x]][i] = x
        <3>1. CASE x = m
            <4>1. Len(q) + 1 \in 1 .. Len(line'[r]) /\ line'[r][Len(q) + 1] = m
                BY <1>2, <1>3, <1>4
            <4> QED BY <3>1, <4>1
        <3>2. CASE x # m
            <4>1. phase[x] \in InLine /\ runner'[x] = runner[x] BY <2>2, <3>2
            <4>2. runner[x] \in Msg BY <4>1 DEF TypeInv, Engaged, Using, InLine
            <4>3. PICK i \in 1 .. Len(line[runner[x]]) : line[runner[x]][i] = x
                BY <4>1 DEF LockInv, RunLock
            <4> QED BY <1>7, <4>1, <4>2, <4>3
        <3> QED BY <3>1, <3>2
    <2> QED BY <2>1, <2>2 DEF RunLock
<1>9. Single'
    <2> SUFFICES ASSUME NEW s \in Msg, NEW i \in 1 .. Len(line'[s]), NEW j \in 1 .. Len(line'[s]),
                        line'[s][i] = line'[s][j]
                 PROVE  i = j
        BY DEF Single
    <2>1. /\ \/ i \in 1 .. Len(line[s]) /\ line'[s][i] = line[s][i] /\ line[s][i] # m
             \/ i = Len(q) + 1 /\ line'[s][i] = m
          /\ \/ j \in 1 .. Len(line[s]) /\ line'[s][j] = line[s][j] /\ line[s][j] # m
             \/ j = Len(q) + 1 /\ line'[s][j] = m
        BY <1>5, <1>6
    <2>2. i \in 1 .. Len(line[s]) /\ j \in 1 .. Len(line[s]) /\ line[s][i] = line[s][j] => i = j
        BY DEF LockInv, Single
    <2> QED BY <2>1, <2>2
<1> QED BY <1>8, <1>9 DEF LockInv

\* The run lock over async with _run_lock.
LEMMA LockLines ==
    ASSUME TypeInv, TypeInv', LockInv, NEW m \in Msg, NEW r \in Msg, NEW lg,
           phase[m] \notin InLine, Lock(m, r, lg), runner'[m] = r,
           \A x \in Msg \ {m} : runner'[x] = runner[x]
    PROVE  LockInv'
<1>1. \A ph : phase' = [phase EXCEPT ![m] = ph]
              => phase'[m] = ph /\ \A x \in Msg \ {m} : phase'[x] = phase[x]
    BY DEF TypeInv, TypeOK, Proc
<1>2. CASE line[r] # <<>>
    <2>1. line' = [line EXCEPT ![r] = Append(@, m)] /\ phase' = [phase EXCEPT ![m] = "waiting"]
        BY <1>2 DEF Lock
    <2>2. phase'[m] = "waiting" /\ \A x \in Msg \ {m} : phase'[x] = phase[x] BY <1>1, <2>1
    <2> QED BY <2>1, <2>2, LineJoined DEF InLine
<1>3. CASE line[r] = <<>> /\ kind[m] = "deliver"
    <2>1. line' = [line EXCEPT ![r] = <<>>] /\ phase' = [phase EXCEPT ![m] = "answered"]
        BY <1>3 DEF Lock, Work
    <2>2. line' = line BY <1>3, <2>1 DEF TypeInv, TypeOK
    <2>3. phase'[m] = "answered" /\ \A x \in Msg \ {m} : phase'[x] = phase[x] BY <1>1, <2>1
    <2> QED BY <2>2, <2>3, LineKept DEF InLine
<1>4. CASE line[r] = <<>> /\ kind[m] # "deliver"
    <2>1. line' = [line EXCEPT ![r] = <<m>> \o <<>>] /\ phase' = [phase EXCEPT ![m] = "sending"]
        BY <1>4 DEF Lock, Work
    <2>2. <<m>> \o <<>> = Append(line[r], m) BY <1>4
    <2>3. phase'[m] = "sending" /\ \A x \in Msg \ {m} : phase'[x] = phase[x] BY <1>1, <2>1
    <2> QED BY <1>4, <2>1, <2>2, <2>3, LineJoined DEF InLine
<1> QED BY <1>2, <1>3, <1>4

\* The same for a message that enters run_stream.
LEMMA EnterLines ==
    ASSUME TypeInv, TypeInv', LockInv, NEW m \in Msg, NEW r \in Msg,
           phase[m] \notin InLine, Enter(m, r), runner'[m] = r,
           \A x \in Msg \ {m} : runner'[x] = runner[x]
    PROVE  LockInv'
<1>1. CASE r \in open
    <2>1. Lock(m, r, log[r]) BY <1>1 DEF Enter
    <2> QED BY <2>1, LockLines
<1>2. CASE r \notin open
    <2>1. line' = line /\ phase' = [phase EXCEPT ![m] = "opening"] BY <1>2 DEF Enter
    <2>2. phase'[m] = "opening" /\ \A x \in Msg \ {m} : phase'[x] = phase[x]
        BY <2>1 DEF TypeInv, TypeOK, Proc
    <2> QED BY <2>1, <2>2, LineKept DEF InLine
<1> QED BY <1>1, <1>2

\* The lock comes to the first of its queue, who keeps it or gives it back at once.
LEMMA GetLockLines ==
    ASSUME TypeInv, TypeInv', LockInv, NEW m \in Msg, GetLock(m)
    PROVE  LockInv'
<1> DEFINE r == runner[m]
<1>1. /\ phase[m] = "waiting" /\ Head(line[r]) = m
      /\ Work(m, r, log[r], Without(line[r], m)) /\ runner' = runner
    BY DEF GetLock
<1>2. r \in Msg /\ line[r] \in Seq(Msg) BY <1>1 DEF TypeInv, TypeOK, Engaged, Using
<1>3. \A ph : phase' = [phase EXCEPT ![m] = ph]
              => phase'[m] = ph /\ \A x \in Msg \ {m} : phase'[x] = phase[x]
    BY DEF TypeInv, TypeOK, Proc
<1>4. CASE kind[m] = "deliver"
    <2>1. line' = [line EXCEPT ![r] = Without(@, m)] /\ phase' = [phase EXCEPT ![m] = "answered"]
        BY <1>1, <1>4 DEF Work
    <2>2. phase'[m] = "answered" /\ \A x \in Msg \ {m} : phase'[x] = phase[x] BY <1>3, <2>1
    <2> QED BY <1>1, <1>2, <2>1, <2>2, LineLeft DEF InLine, Using
<1>5. CASE kind[m] # "deliver"
    <2>1. /\ line' = [line EXCEPT ![r] = <<m>> \o Without(line[r], m)]
          /\ phase' = [phase EXCEPT ![m] = "sending"]
        BY <1>1, <1>5 DEF Work
    <2>2. PICK q \in Seq(Msg) : q = line[r] BY <1>2
    <2>3. 1 \in 1 .. Len(q) /\ q[1] = m
        <3>1. \E i \in 1 .. Len(q) : q[i] = m BY <1>1, <2>2 DEF LockInv, RunLock, InLine
        <3>2. Len(q) >= 1 BY <3>1
        <3> QED BY <1>1, <2>2, <3>2
    <2>4. \A j, k \in 1 .. Len(q) : q[j] = q[k] => j = k BY <1>2, <2>2 DEF LockInv, Single
    <2>5. /\ Without(q, m) \in Seq(Msg) /\ Len(Without(q, m)) = Len(q) - 1
          /\ \A j \in 1 .. Len(q) - 1 : Without(q, m)[j] = IF j < 1 THEN q[j] ELSE q[j + 1]
        BY <2>3, <2>4, WithoutAt
    <2>6. <<m>> \o Without(q, m) = q
        <3> DEFINE w == Without(q, m)  c == <<m>> \o w
        <3>1. w \in Seq(Msg) /\ Len(w) = Len(q) - 1 /\ \A j \in 1 .. Len(w) : w[j] = q[j + 1]
            BY <2>5
        <3> HIDE DEF w
        <3>2. c \in Seq(Msg) /\ Len(c) = Len(q) BY <3>1
        <3>3. ASSUME NEW j \in 1 .. Len(q) PROVE c[j] = q[j]
            <4>1. CASE j = 1 BY <2>3, <3>1, <4>1
            <4>2. CASE j # 1
                <5>1. j - 1 \in 1 .. Len(w) /\ (j - 1) + 1 = j BY <3>1, <4>2
                <5>2. c[j] = w[j - 1] BY <3>1, <4>2, <5>1
                <5> QED BY <3>1, <5>1, <5>2
            <4> QED BY <4>1, <4>2
        <3> HIDE DEF c
        <3>4. c = q BY <3>2, <3>3, SeqEqual
        <3> QED BY <3>4 DEF c, w
    <2>7. line' = line BY <2>1, <2>2, <2>6 DEF TypeInv, TypeOK
    <2>8. phase'[m] = "sending" /\ \A x \in Msg \ {m} : phase'[x] = phase[x] BY <1>3, <2>1
    <2>9. \A s \in Msg : \A i \in 1 .. Len(line[s]) : line[s][i] = m => s = r /\ i = 1
        BY <1>2, <2>2, <2>3, <2>4 DEF LockInv, RunLock
    <2>10. \A s \in Msg : \A i \in 1 .. Len(line[s]) : line[s][i] \in Msg
        BY DEF TypeInv, TypeOK
    <2>11. RunLock'
        BY <1>1, <2>7, <2>8, <2>9, <2>10 DEF LockInv, RunLock, InLine
    <2>12. Single' BY <2>7 DEF LockInv, Single
    <2> QED BY <2>11, <2>12 DEF LockInv
<1> QED BY <1>4, <1>5

\* The run locks over every step.
LEMMA LockStep ==
    ASSUME ConvAssumption, TypeInv, TypeInv', ServeInv, LockInv, [Next]_vars
    PROVE  LockInv'
<1>a. \A m \in Msg : \A ph : phase' = [phase EXCEPT ![m] = ph]
              => phase'[m] = ph /\ \A x \in Msg \ {m} : phase'[x] = phase[x]
    BY DEF TypeInv, TypeOK, Proc
<1>b. Reaper \in Proc /\ Reaper \notin Msg BY DEF Proc, ConvAssumption
<1>1. CASE UNCHANGED vars
    BY <1>1, LineKept DEF vars, runners, messages
<1>2. ASSUME NEW m \in Msg, TakeRunner(m) PROVE LockInv'
    <2>1. /\ phase[m] = "handed" /\ line' = line
          /\ phase' = [phase EXCEPT ![m] = "prompting"]
          /\ \A x \in Msg \ {m} : runner'[x] = runner[x]
        BY <1>2 DEF TakeRunner, GiveRunner, TypeInv, TypeOK
    <2>2. phase'[m] = "prompting" /\ \A x \in Msg \ {m} : phase'[x] = phase[x] BY <1>a, <2>1
    <2> QED BY <2>1, <2>2, LineKept DEF InLine
<1>3. ASSUME NEW m \in Msg, StartRun(m) PROVE LockInv'
    <2>1. phase[m] = "prompting" /\ Enter(m, runner[m]) /\ runner' = runner BY <1>3 DEF StartRun
    <2>2. runner[m] \in Msg BY <2>1 DEF TypeInv, Engaged, Using
    <2> QED BY <2>1, <2>2, EnterLines DEF InLine
<1>4. ASSUME NEW m \in Msg, Deliver(m) PROVE LockInv'
    <2>1. phase[m] = "handed" /\ session[m] \in Session
        BY <1>4 DEF Deliver, TypeInv, Engaged, Working, Proc
    <2>2. CASE cache[session[m]] = None
        <3>1. line' = line /\ runner' = runner /\ phase' = [phase EXCEPT ![m] = "answered"]
            BY <1>4, <2>2 DEF Deliver
        <3>2. phase'[m] = "answered" /\ \A x \in Msg \ {m} : phase'[x] = phase[x] BY <1>a, <3>1
        <3> QED BY <2>1, <3>1, <3>2, LineKept DEF InLine
    <2>3. CASE cache[session[m]] # None
        <3>1. PICK r \in Msg : r = cache[session[m]] BY <2>1, <2>3 DEF TypeInv, TypeOK
        <3>2. Enter(m, r) /\ runner' = [runner EXCEPT ![m] = r] BY <1>4, <2>3, <3>1 DEF Deliver
        <3>3. runner'[m] = r /\ \A x \in Msg \ {m} : runner'[x] = runner[x]
            BY <3>2 DEF TypeInv, TypeOK
        <3> QED BY <2>1, <3>2, <3>3, EnterLines DEF InLine
    <2> QED BY <2>2, <2>3
<1>5. ASSUME NEW m \in Msg, Opened(m) PROVE LockInv'
    <2>1. phase[m] = "opening" /\ Lock(m, runner[m], {}) /\ runner' = runner BY <1>5 DEF Opened
    <2>2. runner[m] \in Msg BY <2>1 DEF TypeInv, Engaged, Using
    <2> QED BY <2>1, <2>2, LockLines DEF InLine
<1>6. ASSUME NEW m \in Msg, GetLock(m) PROVE LockInv'
    BY <1>6, GetLockLines
<1>7. ASSUME NEW m \in Msg, Answer(m) \/ Fail(m) \/ FailDeliver(m) PROVE LockInv'
    <2>1. /\ phase[m] \in Using
          /\ line' = [line EXCEPT ![runner[m]] = Without(@, m)]
          /\ runner' = [runner EXCEPT ![m] = None]
          /\ \E ph \in {"answered", "evicting", "failed"} : phase' = [phase EXCEPT ![m] = ph]
        BY <1>7 DEF Answer, Fail, FailDeliver, LetGo, Using
    <2>2. phase'[m] \notin InLine /\ \A x \in Msg \ {m} : phase'[x] = phase[x]
        BY <1>a, <2>1 DEF InLine
    <2>3. \A x \in Msg \ {m} : runner'[x] = runner[x] BY <2>1 DEF TypeInv, TypeOK
    <2>4. runner[m] \in Msg BY <2>1 DEF TypeInv, Engaged
    <2> QED BY <2>1, <2>2, <2>3, <2>4, LineLeft
<1>8. ASSUME NEW m \in Msg,
             \/ ArriveFirst(m) \/ ArriveResume(m) \/ ArriveStale(m)
             \/ Evicted(m) \/ RolledOver(m) \/ Command(m) \/ Replaced(m)
      PROVE  LockInv'
    <2>1. Alone(m) /\ Off(m) BY <1>8, RestAlone
    <2>2. line' = line /\ phase[m] \notin InLine
        BY <1>8 DEF ArriveFirst, ArriveResume, ArriveStale, Arrived, Evicted, RolledOver, Command,
                    Replaced, Closed, runners, InLine
    <2> QED BY <2>1, <2>2, LineKept DEF Alone, Off, InLine, Using
<1>9. CASE Sweep \/ ForgetRunners \/ Midnight
    BY <1>9, LineKept DEF Sweep, ForgetRunners, Midnight, runners, messages
<1>10. CASE (\E s \in Session : Reap(s)) \/ Reaped
    <2>1. /\ phase' = phase \/ \E ph : phase' = [phase EXCEPT ![Reaper] = ph]
          /\ line' = line /\ runner' = runner
        BY <1>10 DEF Reap, Reaped, Closed
    <2>2. \A x \in Msg : phase'[x] = phase[x] BY <1>b, <2>1 DEF TypeInv, TypeOK, Proc
    <2> QED BY <2>1, <2>2, LineKept
<1>11. CASE Restart \/ (\E m \in Msg : CrashInSave(m))
    <2>1. Down BY <1>11 DEF Restart, CrashInSave
    <2>2. \A x \in Msg : phase'[x] = IF phase[x] \in Working THEN "failed" ELSE phase[x]
        BY <1>b, <2>1 DEF Down, TypeInv, TypeOK, Proc
    <2>3. \A x \in Msg : phase'[x] \notin InLine BY <2>2 DEF Working, Using, InLine
    <2>4. \A r \in Msg : line'[r] = <<>> BY <2>1 DEF Down
    <2>5. RunLock' BY <2>3, <2>4 DEF RunLock
    <2>6. Single' BY <2>4 DEF Single
    <2> QED BY <2>5, <2>6 DEF LockInv
<1> QED BY <1>1, <1>2, <1>3, <1>4, <1>5, <1>6, <1>7, <1>8, <1>9, <1>10, <1>11
        DEF Next, Proceed, Refused

\* No queue, and nobody who waits, before the first message.
LEMMA LockInit == ASSUME Init PROVE LockInv
BY DEF Init, LockInv, RunLock, Single, InLine, Proc

\* The run lock of every runner is held or free: its queue holds, once each, exactly the
\* messages that use or want it, and only the first is in its turn.  So messages of a
\* runner take turns, and nobody waits for a lock whose holder failed, was cancelled or
\* died, however runners were shared, evicted and forgotten.
THEOREM LockIsHeld == Spec => [](RunLock /\ Single)
<1> DEFINE Inv == TypeInv /\ OwnInv /\ ServeInv /\ LockInv
<1>1. Init => Inv BY TypeInit, OwnInit, ServeInit, LockInit, ConvAssumption
<1>2. Inv /\ [Next]_vars => Inv'
    BY TypeStep, OwnStep, ServeStep, LockStep, ConvAssumption
<1>3. Inv => RunLock /\ Single BY DEF LockInv
<1> QED BY <1>1, <1>2, <1>3, PTL DEF Spec
=============================================================================
