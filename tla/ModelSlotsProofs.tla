-------------------------- MODULE ModelSlotsProofs --------------------------
(***************************************************************************)
(* Proofs about ModelSlots for every number of sessions, models, limits,   *)
(* turns and managers.                                                     *)
(***************************************************************************)
EXTENDS ModelSlots, FiniteSetTheorems, TLAPS

---------------------------------------------------------------------------
(* Queues of turns.                                                        *)

Elements(q) == {q[i] : i \in 1 .. Len(q)}
Distinct(q) == \A i, j \in 1 .. Len(q) : i # j => q[i] # q[j]

\* A turn that joins a queue is its last.
LEMMA JoinQueue ==
    ASSUME NEW q \in Seq(Turn), NEW t \in Turn, t \notin Elements(q)
    PROVE  /\ Append(q, t) \in Seq(Turn) /\ Append(q, t) # <<>>
           /\ Elements(Append(q, t)) = Elements(q) \cup {t}
           /\ Distinct(q) => Distinct(Append(q, t))
           /\ q # <<>> => Head(Append(q, t)) = Head(q)
           /\ q = <<>> => Head(Append(q, t)) = t
<1>1. /\ Append(q, t) \in Seq(Turn) /\ Len(Append(q, t)) = Len(q) + 1
      /\ \A i \in 1 .. Len(q) : Append(q, t)[i] = q[i]
      /\ Append(q, t)[Len(q) + 1] = t
  OBVIOUS
<1>2. Append(q, t) # <<>>
  BY <1>1
<1>3. Elements(Append(q, t)) = Elements(q) \cup {t}
  BY <1>1 DEF Elements
<1>4. Distinct(q) => Distinct(Append(q, t))
  BY <1>1 DEF Distinct, Elements
<1>6. (q # <<>> => Head(Append(q, t)) = Head(q)) /\ (q = <<>> => Head(Append(q, t)) = t)
  BY <1>1
<1> QED BY <1>1, <1>2, <1>3, <1>4, <1>6

\* The first of a queue goes.
LEMMA LeaveHead ==
    ASSUME NEW q \in Seq(Turn), q # <<>>, Distinct(q)
    PROVE  /\ Tail(q) \in Seq(Turn) /\ Head(q) \in Turn
           /\ Head(q) \in Elements(q)
           /\ Elements(Tail(q)) = Elements(q) \ {Head(q)}
           /\ Distinct(Tail(q))
<1>1. /\ Tail(q) \in Seq(Turn) /\ Len(Tail(q)) = Len(q) - 1 /\ Len(q) \in Nat \ {0}
      /\ Head(q) = q[1] /\ \A i \in 1 .. Len(q) - 1 : Tail(q)[i] = q[i + 1]
  OBVIOUS
<1>2. Elements(Tail(q)) = Elements(q) \ {Head(q)}
  <2>1. ASSUME NEW u \in Elements(Tail(q)) PROVE u \in Elements(q) \ {Head(q)}
    <3>1. PICK i \in 1 .. Len(q) - 1 : u = q[i + 1]
      BY <1>1, <2>1 DEF Elements
    <3> QED BY <1>1, <3>1 DEF Elements, Distinct
  <2>2. ASSUME NEW u \in Elements(q), u # Head(q) PROVE u \in Elements(Tail(q))
    <3>1. PICK i \in 1 .. Len(q) : u = q[i]
      BY <2>2 DEF Elements
    <3>2. i - 1 \in 1 .. Len(q) - 1 /\ Tail(q)[i - 1] = u
      BY <1>1, <2>2, <3>1
    <3> QED BY <1>1, <3>2 DEF Elements
  <2> QED BY <2>1, <2>2
<1>3. Distinct(Tail(q))
  BY <1>1 DEF Distinct
<1> QED BY <1>1, <1>2, <1>3 DEF Elements

\* The parts of a concatenation.
LEMMA Concatenated ==
    ASSUME NEW a \in Seq(Turn), NEW b \in Seq(Turn)
    PROVE  /\ a \o b \in Seq(Turn) /\ Len(a \o b) = Len(a) + Len(b)
           /\ \A k \in 1 .. Len(a) : (a \o b)[k] = a[k]
           /\ \A k \in Len(a) + 1 .. Len(a) + Len(b) : (a \o b)[k] = b[k - Len(a)]
OBVIOUS

\* A turn goes from wherever in a queue it is.
LEMMA LeaveQueue ==
    ASSUME NEW q \in Seq(Turn), NEW t \in Elements(q), Distinct(q)
    PROVE  /\ Without(q, t) \in Seq(Turn)
           /\ Elements(Without(q, t)) = Elements(q) \ {t}
           /\ Distinct(Without(q, t))
           /\ Head(q) # t => Head(Without(q, t)) = Head(q)
<1> DEFINE w == Without(q, t)
<1>1. PICK i \in 1 .. Len(q) : q[i] = t /\ w = SubSeq(q, 1, i - 1) \o SubSeq(q, i + 1, Len(q))
  <2>1. \E j \in 1 .. Len(q) : q[j] = t
    BY DEF Elements
  <2> QED BY <2>1 DEF Without
<1>2. Len(q) \in Nat /\ i \in Nat /\ 1 <= i /\ i <= Len(q)
  OBVIOUS
<1> DEFINE a == SubSeq(q, 1, i - 1)
           b == SubSeq(q, i + 1, Len(q))
<1>3. /\ a \in Seq(Turn) /\ Len(a) = i - 1
      /\ \A j \in 1 .. i - 1 : a[j] = q[j]
  BY <1>2
<1>4. /\ b \in Seq(Turn) /\ Len(b) = Len(q) - i
      /\ \A j \in 1 .. Len(q) - i : b[j] = q[j + i]
  BY <1>2
<1>i. q[i] = t
  BY <1>1
<1>w. w = a \o b
  BY <1>1
<1> HIDE DEF a, b, w
<1>c. /\ w \in Seq(Turn) /\ Len(w) = Len(a) + Len(b)
      /\ \A k \in 1 .. Len(a) : w[k] = a[k]
      /\ \A k \in Len(a) + 1 .. Len(a) + Len(b) : w[k] = b[k - Len(a)]
  BY <1>3, <1>4, <1>w, Concatenated, Zenon
<1>l. Len(w) = Len(q) - 1
  BY <1>2, <1>3, <1>4, <1>c
<1>m. ASSUME NEW j \in 1 .. Len(q) - 1, j < i PROVE w[j] = q[j]
  BY <1>2, <1>3, <1>c, <1>m
<1>n. ASSUME NEW j \in 1 .. Len(q) - 1, j >= i PROVE w[j] = q[j + 1]
  <2>1. j \in Len(a) + 1 .. Len(a) + Len(b)
    BY <1>2, <1>3, <1>4, <1>n
  <2>2. w[j] = b[j - Len(a)]
    BY <1>c, <2>1
  <2>3. j - Len(a) \in 1 .. Len(q) - i /\ j - Len(a) + i = j + 1
    BY <1>2, <1>3, <1>n
  <2> QED BY <1>4, <2>2, <2>3
<1>5. /\ w \in Seq(Turn) /\ Len(w) = Len(q) - 1
      /\ \A j \in 1 .. Len(q) - 1 : j < i => w[j] = q[j]
      /\ \A j \in 1 .. Len(q) - 1 : j >= i => w[j] = q[j + 1]
  BY <1>c, <1>l, <1>m, <1>n
<1>6. Elements(w) = Elements(q) \ {t}
  <2>1. ASSUME NEW u \in Elements(w) PROVE u \in Elements(q) \ {t}
    <3>1. PICK j \in 1 .. Len(q) - 1 : u = w[j]
      BY <1>5, <2>1 DEF Elements
    <3>2. PICK k \in 1 .. Len(q) : u = q[k] /\ k # i
      BY <1>i, <1>2, <1>5, <3>1
    <3> QED BY <1>i, <1>2, <3>2 DEF Elements, Distinct
  <2>2. ASSUME NEW u \in Elements(q), u # t PROVE u \in Elements(w)
    <3>1. PICK k \in 1 .. Len(q) : u = q[k]
      BY <2>2 DEF Elements
    <3>2. k # i
      BY <1>i, <2>2, <3>1
    <3>3. CASE k < i
      BY <1>i, <1>2, <1>5, <3>1, <3>3 DEF Elements
    <3>4. CASE k > i
      <4>1. k - 1 \in 1 .. Len(q) - 1 /\ w[k - 1] = u
        BY <1>i, <1>2, <1>5, <3>1, <3>4
      <4> QED BY <1>5, <4>1 DEF Elements
    <3> QED BY <1>i, <1>2, <3>2, <3>3, <3>4
  <2> QED BY <2>1, <2>2
<1>7. Distinct(w)
  BY <1>i, <1>2, <1>5 DEF Distinct
<1>9. Head(q) # t => Head(w) = Head(q)
  BY <1>i, <1>2, <1>5
<1> QED BY <1>5, <1>6, <1>7, <1>9 DEF w

---------------------------------------------------------------------------
(* The invariant.                                                          *)

Lining == {"lining"} \cup PastLock

\* The turns are numbered in the order they start, and each has its runner.
Numbered ==
    \A t \in Turn : /\ t <= started => /\ session[t] \in Session /\ phase[t] # "none"
                                      /\ runner[t] \in 1 .. started
                    /\ t > started => phase[t] = "none"

\* The cached runner of a session is the last it had.
Cached ==
    \A s \in Session : cache[s] # None =>
        /\ cache[s] \in 1 .. started
        /\ \A t \in Turn : t <= started /\ session[t] = s => runner[t] <= cache[s]

\* A runner's lock: the turns that came for it and have not ended, of which only
\* the first is past it.
Lined ==
    \A r \in Turn :
        /\ Distinct(line[r])
        /\ \A t \in Turn : t \in Elements(line[r]) <=> phase[t] \in Lining /\ runner[t] = r

InFront == \A t \in Turn : phase[t] \in PastLock => Head(line[runner[t]]) = t

Order == Numbered /\ Cached /\ Lined /\ InFront

\* A turn past the lock knows a manager there is, and who waits in the queue of
\* a semaphore is a turn that waits for it.
Managed == \A t \in Turn : phase[t] \in PastLock => manager[t] \in 1 .. current

Queued ==
    \A g \in Manager, m \in Model :
        /\ Distinct(queue[g][m])
        /\ \A t \in Turn : t \in Elements(queue[g][m])
                             <=> phase[t] = "waiting" /\ manager[t] = g /\ ModelOfTurn(t) = m

Slots == Managed /\ Queued /\ NoIdleSlot /\ SlotsConserved

IInv == TypeOK /\ Order /\ Slots

---------------------------------------------------------------------------
(* Types.                                                                  *)

\* The limits of a configuration are numbers.
LEMMA LimitsType ==
    ASSUME NEW c \in Configs, NEW m \in Model
    PROVE  LimitFor(c, m) \in Nat /\ Limits(c) \in [Model -> Nat] /\ Limits(c)[m] = LimitFor(c, m)
BY ModelSlotsAssumption DEF LimitFor, Limits

\* What a turn that is released leaves behind.
LEMMA ReleaseType ==
    ASSUME TypeOK, NEW t \in Turn, manager[t] \in Manager, ModelOfTurn(t) \in Model, Release(t)
    PROVE  /\ phase' \in [Turn -> Phase] /\ free' \in [Manager -> [Model -> Nat]]
           /\ queue' \in [Manager -> [Model -> Seq(Turn)]]
<1> DEFINE g == manager[t]
           m == ModelOfTurn(t)
           q == queue[g][m]
<1>1. q \in Seq(Turn) /\ free[g][m] \in Nat
  BY DEF TypeOK
<1>2. CASE q = <<>>
  <2>1. /\ free' = [free EXCEPT ![g][m] = @ + 1] /\ phase' = [phase EXCEPT ![t] = "ended"] /\ queue' = queue
    BY <1>2 DEF Release
  <2> QED BY <1>1, <2>1 DEF TypeOK, Phase
<1>3. CASE q # <<>>
  <2>1. /\ queue' = [queue EXCEPT ![g][m] = Tail(q)] /\ free' = free
        /\ phase' = [phase EXCEPT ![t] = "ended", ![Head(q)] = "calling"]
    BY <1>3 DEF Release
  <2>2. Tail(q) \in Seq(Turn)
    BY <1>1, <1>3
  <2> QED BY <2>1, <2>2 DEF TypeOK, Phase
<1> QED BY <1>2, <1>3

\* The phases of a turn at the lock, and the numbers of turns.
LEMMA Phases ==
    /\ Lining = {"lining", "waiting", "calling", "asking"}
    /\ PastLock = {"waiting", "calling", "asking"}
    /\ Holding = {"calling", "asking"}
BY DEF Lining, PastLock, Holding

LEMMA TurnNumbers ==
    ASSUME TypeOK
    PROVE  started \in Nat /\ started <= MaxTurns /\ Turn \subseteq Nat /\ 1 .. started \subseteq Turn
BY ModelSlotsAssumption DEF TypeOK, Turn

\* A turn that has begun has a session, a model and a runner.
LEMMA Begun ==
    ASSUME TypeOK, Order, NEW t \in Turn, phase[t] # "none"
    PROVE  /\ t <= started /\ session[t] \in Session /\ ModelOfTurn(t) \in Model
           /\ runner[t] \in 1 .. started /\ runner[t] \in Turn
<1>1. t <= started
  BY TurnNumbers DEF Order, Numbered
<1>2. session[t] \in Session /\ runner[t] \in 1 .. started
  BY <1>1 DEF Order, Numbered
<1> QED BY <1>1, <1>2, TurnNumbers, ModelSlotsAssumption DEF ModelOfTurn

\* A turn that leaves the line of its runner.
LEMMA LineType ==
    ASSUME TypeOK, Order, NEW t \in Turn, phase[t] \in Lining, LeaveLine(t)
    PROVE  /\ line' \in [Turn -> Seq(Turn)]
           /\ runner[t] \in Turn /\ t \in Elements(line[runner[t]])
           /\ Distinct(line[runner[t]])
           /\ \A r \in Turn : line'[r] = IF r = runner[t] THEN Without(line[r], t) ELSE line[r]
<1>1. runner[t] \in Turn
  BY Begun, Phases
<1>2. t \in Elements(line[runner[t]]) /\ line[runner[t]] \in Seq(Turn) /\ Distinct(line[runner[t]])
  BY <1>1 DEF Order, Lined, TypeOK
<1>3. Without(line[runner[t]], t) \in Seq(Turn)
  BY <1>2, LeaveQueue
<1> QED BY <1>1, <1>2, <1>3 DEF LeaveLine, TypeOK

\* A turn that gets its runner.
LEMMA ArriveType ==
    ASSUME TypeOK, NEW s \in Session, NEW phases \in [Turn -> Phase], Arrive(started + 1, s, phases)
    PROVE  /\ started + 1 \in Turn /\ started' = started + 1 /\ started' \in 0 .. MaxTurns
           /\ session' \in [Turn -> Session \cup {None}]
           /\ \A u \in Turn : session'[u] = IF u = started + 1 THEN s ELSE session[u]
           /\ phase' \in [Turn -> Phase]
           /\ \A u \in Turn : phase'[u] = IF u = started + 1 THEN "preparing" ELSE phases[u]
           /\ runner' \in [Turn -> Turn \cup {None}] /\ cache' \in [Session -> Turn \cup {None}]
           /\ \E r \in Turn :
                /\ r = IF cache[s] = None THEN started + 1 ELSE cache[s]
                /\ \A u \in Turn : runner'[u] = IF u = started + 1 THEN r ELSE runner[u]
                /\ \A z \in Session : cache'[z] = IF z = s THEN r ELSE cache[z]
<1>1. started + 1 \in Turn
  BY DEF Arrive
<1>2. PICK r \in Turn : r = IF cache[s] = None THEN started + 1 ELSE cache[s]
  BY <1>1 DEF TypeOK
<1>3. /\ started' = started + 1
      /\ session' = [session EXCEPT ![started + 1] = s]
      /\ phase' = [phases EXCEPT ![started + 1] = "preparing"]
      /\ runner' = [runner EXCEPT ![started + 1] = r]
      /\ cache' = [cache EXCEPT ![s] = r]
  BY <1>2 DEF Arrive
<1>4. started' \in 0 .. MaxTurns
  BY <1>1, <1>3 DEF TypeOK, Turn
<1>5. phase' \in [Turn -> Phase] /\ session' \in [Turn -> Session \cup {None}]
  BY <1>3 DEF TypeOK, Phase
<1>6. runner' \in [Turn -> Turn \cup {None}] /\ cache' \in [Session -> Turn \cup {None}]
  BY <1>3 DEF TypeOK
<1>7. /\ \A u \in Turn : session'[u] = IF u = started + 1 THEN s ELSE session[u]
      /\ \A u \in Turn : phase'[u] = IF u = started + 1 THEN "preparing" ELSE phases[u]
      /\ \A u \in Turn : runner'[u] = IF u = started + 1 THEN r ELSE runner[u]
      /\ \A z \in Session : cache'[z] = IF z = s THEN r ELSE cache[z]
  BY <1>3 DEF TypeOK
<1> QED BY <1>1, <1>2, <1>3, <1>4, <1>5, <1>6, <1>7

\* A runner is evicted.
LEMMA UncacheType ==
    ASSUME TypeOK, NEW s, Uncache(s)
    PROVE  /\ cache' \in [Session -> Turn \cup {None}]
           /\ \A z \in Session : cache'[z] = IF z = s THEN None ELSE cache[z]
BY DEF Uncache, TypeOK

\* A call that is left behind.
LEMMA CallType ==
    ASSUME TypeOK, NEW t \in Turn, LeaveCall(t)
    PROVE  stray' \subseteq Turn
BY DEF LeaveCall, TypeOK

\* A turn past the lock has a model and a manager.
LEMMA HasManager ==
    ASSUME TypeOK, Order, Managed, NEW t \in Turn, phase[t] \in PastLock
    PROVE  /\ manager[t] \in Manager /\ manager[t] \in 1 .. current
           /\ session[t] \in Session /\ ModelOfTurn(t) \in Model
<1>1. manager[t] \in 1 .. current /\ current \in 1 .. MaxManagers /\ MaxManagers \in Nat
  BY ModelSlotsAssumption DEF Managed, TypeOK, Manager
<1>2. session[t] \in Session /\ ModelOfTurn(t) \in Model
  BY Begun, Phases
<1> QED BY <1>1, <1>2 DEF Manager

\* With the lock a turn is the first of its line.
LEMMA AtHead ==
    ASSUME TypeOK, Order, NEW t \in Turn, phase[t] = "lining"
    PROVE  session[t] \in Session /\ ModelOfTurn(t) \in Model
BY Begun

\* Every step keeps the types.
LEMMA TypeNext ==
    ASSUME IInv, [Next]_vars
    PROVE  TypeOK'
<1> USE DEF IInv
<1>1. ASSUME NEW s \in Session, Start(s) PROVE TypeOK'
  <2>1. phase \in [Turn -> Phase] /\ Arrive(started + 1, s, phase)
    BY <1>1 DEF Start, TypeOK
  <2>2. /\ started' \in 0 .. MaxTurns /\ session' \in [Turn -> Session \cup {None}] /\ phase' \in [Turn -> Phase]
        /\ runner' \in [Turn -> Turn \cup {None}] /\ cache' \in [Session -> Turn \cup {None}]
    BY <2>1, ArriveType
  <2> QED BY <1>1, <2>2 DEF Start, TypeOK, slots, settings
<1>2. ASSUME NEW t \in Turn, NEW s \in Session, Ask(t, s) PROVE TypeOK'
  <2> DEFINE phases == [phase EXCEPT ![t] = "asking"]
  <2>1. phases \in [Turn -> Phase]
    BY DEF TypeOK, Phase
  <2>2. /\ Arrive(started + 1, s, phases)
        /\ asked' = [asked EXCEPT ![t] = started + 1]
        /\ UNCHANGED <<manager, line, stray, slots, settings, high>>
    BY <1>2 DEF Ask
  <2> HIDE DEF phases
  <2>3. /\ started' \in 0 .. MaxTurns /\ session' \in [Turn -> Session \cup {None}] /\ phase' \in [Turn -> Phase]
        /\ runner' \in [Turn -> Turn \cup {None}] /\ cache' \in [Session -> Turn \cup {None}]
        /\ started + 1 \in Turn
    BY <2>1, <2>2, ArriveType
  <2>4. asked' \in [Turn -> Turn \cup {None}]
    BY <2>2, <2>3 DEF TypeOK
  <2> QED BY <2>2, <2>3, <2>4 DEF TypeOK, slots, settings
<1>11. ASSUME NEW t \in Turn, Prepared(t) PROVE TypeOK'
  <2>1. runner[t] \in Turn
    BY <1>11, Begun DEF Prepared
  <2>2. line' \in [Turn -> Seq(Turn)]
    <3>1. Append(line[runner[t]], t) \in Seq(Turn) /\ line' = [line EXCEPT ![runner[t]] = Append(@, t)]
      BY <1>11, <2>1 DEF Prepared, TypeOK
    <3> QED BY <3>1 DEF TypeOK
  <2> QED BY <1>11, <2>2 DEF Prepared, TypeOK, Phase, slots, settings
<1>12. ASSUME NEW t \in Turn, PrepareFails(t) PROVE TypeOK'
  <2>1. cache' \in [Session -> Turn \cup {None}]
    BY <1>12, UncacheType DEF PrepareFails
  <2> QED BY <1>12, <2>1 DEF PrepareFails, TypeOK, Phase, slots, settings
<1>13. ASSUME NEW s \in Session, Evict(s) PROVE TypeOK'
  <2>1. cache' \in [Session -> Turn \cup {None}]
    BY <1>13, UncacheType DEF Evict
  <2> QED BY <1>13, <2>1 DEF Evict, TypeOK, turns, slots, settings
<1>14. ASSUME NEW t \in Turn, StrayEnds(t) PROVE TypeOK'
  BY <1>14 DEF StrayEnds, TypeOK, turns, runners, slots, settings
<1>3. ASSUME NEW t \in Turn, Enter(t) PROVE TypeOK'
  <2> DEFINE m == ModelOfTurn(t)
  <2>1. /\ manager' = [manager EXCEPT ![t] = current]
        /\ UNCHANGED <<started, session, asked, runner, cache, line, stray, settings, high>>
    BY <1>3 DEF Enter, runners
  <2>2. current \in Manager /\ m \in Model
    BY <1>3, AtHead DEF TypeOK, Enter
  <2>3. CASE free[current][m] > 0
    <3>1. /\ free' = [free EXCEPT ![current][m] = @ - 1] /\ phase' = [phase EXCEPT ![t] = "calling"]
          /\ queue' = queue
      BY <1>3, <2>3 DEF Enter
    <3>2. free[current][m] - 1 \in Nat
      BY <2>2, <2>3 DEF TypeOK
    <3>3. free' \in [Manager -> [Model -> Nat]]
      BY <2>2, <3>1, <3>2 DEF TypeOK
    <3> QED BY <2>1, <2>2, <3>1, <3>3 DEF TypeOK, Phase, settings
  <2>4. CASE ~ (free[current][m] > 0)
    <3>1. /\ queue' = [queue EXCEPT ![current][m] = Append(@, t)] /\ phase' = [phase EXCEPT ![t] = "waiting"]
          /\ free' = free
      BY <1>3, <2>4 DEF Enter
    <3>2. Append(queue[current][m], t) \in Seq(Turn)
      BY <2>2 DEF TypeOK
    <3>3. queue' \in [Manager -> [Model -> Seq(Turn)]]
      BY <2>2, <3>1, <3>2 DEF TypeOK
    <3> QED BY <2>1, <2>2, <3>1, <3>3 DEF TypeOK, Phase, settings
  <2> QED BY <2>3, <2>4
<1>4. ASSUME NEW t \in Turn, Throttled(t) PROVE TypeOK'
  <2>1. line' \in [Turn -> Seq(Turn)] /\ cache' \in [Session -> Turn \cup {None}]
    BY <1>4, LineType, UncacheType, Phases DEF Throttled
  <2> QED BY <1>4, <2>1 DEF Throttled, TypeOK, Phase, slots, settings
<1>5. ASSUME NEW t \in Turn, Answered(t) \/ HttpTimeout(t) PROVE TypeOK'
  BY <1>5 DEF Answered, HttpTimeout, TypeOK, Phase, runners, slots, settings
<1>15. ASSUME NEW t \in Turn, phase[t] \in Holding, Release(t), LeaveLine(t)
       PROVE  /\ line' \in [Turn -> Seq(Turn)] /\ phase' \in [Turn -> Phase]
              /\ free' \in [Manager -> [Model -> Nat]] /\ queue' \in [Manager -> [Model -> Seq(Turn)]]
  <2>1. manager[t] \in Manager /\ ModelOfTurn(t) \in Model
    BY <1>15, HasManager, Phases DEF Slots
  <2>2. line' \in [Turn -> Seq(Turn)]
    BY <1>15, LineType, Phases
  <2> QED BY <1>15, <2>1, <2>2, ReleaseType
<1>6. ASSUME NEW t \in Turn, Return(t) PROVE TypeOK'
  <2>1. /\ phase[t] = "calling" /\ Release(t) /\ LeaveLine(t)
        /\ UNCHANGED <<started, session, manager, asked, runner, cache, stray, settings, high>>
    BY <1>6 DEF Return
  <2>2. /\ line' \in [Turn -> Seq(Turn)] /\ phase' \in [Turn -> Phase]
        /\ free' \in [Manager -> [Model -> Nat]] /\ queue' \in [Manager -> [Model -> Seq(Turn)]]
    BY <2>1, <1>15, Phases
  <2> QED BY <2>1, <2>2 DEF TypeOK, settings
<1>16. ASSUME NEW t \in Turn, CallRaises(t) PROVE TypeOK'
  <2>1. /\ phase[t] = "calling" /\ Release(t) /\ LeaveLine(t) /\ LeaveCall(t) /\ Uncache(session[t])
        /\ UNCHANGED <<started, session, manager, asked, runner, settings, high>>
    BY <1>16 DEF CallRaises
  <2>2. /\ line' \in [Turn -> Seq(Turn)] /\ phase' \in [Turn -> Phase]
        /\ free' \in [Manager -> [Model -> Nat]] /\ queue' \in [Manager -> [Model -> Seq(Turn)]]
    BY <2>1, <1>15, Phases
  <2>3. stray' \subseteq Turn /\ cache' \in [Session -> Turn \cup {None}]
    BY <2>1, CallType, UncacheType
  <2> QED BY <2>1, <2>2, <2>3 DEF TypeOK, settings
<1>7. ASSUME NEW t \in Turn, Cancel(t) PROVE TypeOK'
  <2>1. /\ phase[t] \notin {"none", "ended"} /\ Uncache(session[t])
        /\ asked' = [asked EXCEPT ![t] = None]
        /\ UNCHANGED <<started, session, manager, runner, settings, high>>
    BY <1>7 DEF Cancel
  <2>2. cache' \in [Session -> Turn \cup {None}] /\ asked' \in [Turn -> Turn \cup {None}]
    BY <2>1, UncacheType DEF TypeOK
  <2>3. phase[t] = "preparing" \/ phase[t] \in Lining
    BY <2>1, Phases DEF TypeOK, Phase
  <2>4. line' \in [Turn -> Seq(Turn)]
    <3>1. CASE phase[t] = "preparing"
      BY <1>7, <3>1 DEF Cancel, TypeOK
    <3>2. CASE phase[t] \in Lining
      <4>1. LeaveLine(t)
        BY <1>7, <3>2, Phases DEF Cancel
      <4> QED BY <3>2, <4>1, LineType
    <3> QED BY <2>3, <3>1, <3>2
  <2>5. CASE phase[t] \in Holding
    <3>1. Release(t) /\ LeaveLine(t) /\ LeaveCall(t)
      BY <1>7, <2>5, Phases DEF Cancel
    <3>2. /\ phase' \in [Turn -> Phase]
          /\ free' \in [Manager -> [Model -> Nat]] /\ queue' \in [Manager -> [Model -> Seq(Turn)]]
      BY <2>5, <3>1, <1>15
    <3>3. stray' \subseteq Turn
      BY <3>1, CallType
    <3> QED BY <2>1, <2>2, <2>4, <3>2, <3>3 DEF TypeOK, settings
  <2>6. CASE phase[t] \notin Holding /\ phase[t] # "waiting"
    <3>1. phase' = [phase EXCEPT ![t] = "ended"] /\ UNCHANGED <<queue, free, stray>>
      BY <1>7, <2>6 DEF Cancel
    <3> QED BY <2>1, <2>2, <2>4, <3>1 DEF TypeOK, Phase, settings
  <2>7. CASE phase[t] = "waiting"
    <3>1. /\ manager[t] \in Manager /\ ModelOfTurn(t) \in Model
      BY <2>7, HasManager, Phases DEF Slots
    <3>2. /\ queue' = [queue EXCEPT ![manager[t]][ModelOfTurn(t)] = Without(@, t)]
          /\ phase' = [phase EXCEPT ![t] = "ended"] /\ UNCHANGED <<free, stray>>
      BY <1>7, <2>7 DEF Cancel, Holding
    <3>3. Without(queue[manager[t]][ModelOfTurn(t)], t) \in Seq(Turn)
      BY <2>7, <3>1, LeaveQueue DEF Slots, Queued, TypeOK
    <3>4. queue' \in [Manager -> [Model -> Seq(Turn)]]
      BY <3>1, <3>2, <3>3 DEF TypeOK
    <3> QED BY <2>1, <2>2, <2>4, <3>2, <3>4 DEF TypeOK, Phase, settings
  <2> QED BY <2>5, <2>6, <2>7
<1>8. ASSUME NEW c \in Configs, Reload(c) PROVE TypeOK'
  <2>1. current + 1 \in Manager /\ current \in Manager
    BY <1>8, ModelSlotsAssumption DEF Reload, TypeOK, Manager
  <2>2. Limits(c) \in [Model -> Nat]
    BY LimitsType, ModelSlotsAssumption DEF Limits
  <2> QED BY <1>8, <2>1, <2>2 DEF Reload, TypeOK, turns, runners
<1>9. CASE Poll
  BY <1>9 DEF Poll, TypeOK, turns, runners, slots, settings
<1>10. CASE UNCHANGED vars
  BY <1>10 DEF TypeOK, vars, turns, runners, slots, settings
<1> QED BY <1>1, <1>2, <1>3, <1>4, <1>5, <1>6, <1>7, <1>8, <1>9, <1>10, <1>11, <1>12, <1>13, <1>14, <1>16
    DEF Next

---------------------------------------------------------------------------
(* The run locks.                                                          *)

\* The caches when no turn begins: a runner may be evicted.
LEMMA CacheStays ==
    ASSUME Cached, UNCHANGED <<started, session, runner>>,
           \A s \in Session : cache'[s] = cache[s] \/ cache'[s] = None
    PROVE  Cached'
BY DEF Cached

LEMMA CacheEvicted ==
    ASSUME TypeOK, Cached, UNCHANGED <<started, session, runner>>, NEW s, Uncache(s)
    PROVE  Cached'
BY UncacheType, CacheStays

\* The numbers when no turn begins.
LEMMA NumbersStay ==
    ASSUME TypeOK, Numbered, UNCHANGED <<started, session, runner>>,
           \A u \in Turn : phase'[u] = phase[u] \/ (phase[u] # "none" /\ phase'[u] # "none")
    PROVE  Numbered'
BY TurnNumbers DEF Numbered

\* Steps in which nobody joins a line or leaves one: the first of a line goes on, with its
\* lock, or a turn that is not at a lock yet gives up.
LEMMA OrderMove ==
    ASSUME TypeOK, Order, UNCHANGED <<started, session, runner, line>>, Cached',
           \A u \in Turn : \/ phase'[u] = phase[u]
                           \/ phase[u] \in Lining /\ phase'[u] \in Lining /\ Head(line[runner[u]]) = u
                           \/ phase[u] = "preparing" /\ phase'[u] = "ended"
    PROVE  Order'
<1>1. Numbered'
  BY NumbersStay, Phases DEF Order
<1>2. Lined'
  BY Phases DEF Order, Lined
<1>3. InFront'
  BY Phases DEF Order, InFront
<1> QED BY <1>1, <1>2, <1>3 DEF Order

\* A turn ends and leaves its line; another may have been given its slot.
LEMMA OrderEnd ==
    ASSUME TypeOK, Order, NEW t \in Turn, phase[t] \in Lining, LeaveLine(t),
           UNCHANGED <<started, session, runner>>, Cached', phase'[t] = "ended",
           \A u \in Turn : u # t => \/ phase'[u] = phase[u]
                                    \/ phase[u] = "waiting" /\ phase'[u] = "calling"
    PROVE  Order'
<1>1. /\ runner[t] \in Turn /\ t \in Elements(line[runner[t]])
      /\ Distinct(line[runner[t]])
      /\ \A r \in Turn : line'[r] = IF r = runner[t] THEN Without(line[r], t) ELSE line[r]
  BY LineType
<1>2. /\ Elements(line'[runner[t]]) = Elements(line[runner[t]]) \ {t}
      /\ Distinct(line'[runner[t]])
      /\ Head(line[runner[t]]) # t => Head(line'[runner[t]]) = Head(line[runner[t]])
  BY <1>1, LeaveQueue DEF TypeOK
<1>3. Numbered'
  BY NumbersStay, Phases DEF Order
<1>4. Lined'
  <2>1. ASSUME NEW r \in Turn
        PROVE  /\ Distinct(line'[r])
               /\ \A u \in Turn : u \in Elements(line'[r]) <=> phase'[u] \in Lining /\ runner[u] = r
    <3>1. CASE r = runner[t]
      BY <1>2, <3>1, Phases DEF Order, Lined
    <3>2. CASE r # runner[t]
      <4>1. line'[r] = line[r]
        BY <1>1, <3>2
      <4> QED BY <3>2, <4>1, Phases DEF Order, Lined
    <3> QED BY <3>1, <3>2
  <2> QED BY <2>1 DEF Lined
<1>5. InFront'
  <2> SUFFICES ASSUME NEW u \in Turn, phase'[u] \in PastLock
               PROVE  Head(line'[runner[u]]) = u
    BY DEF InFront
  <2>1. u # t /\ phase[u] \in PastLock
    BY Phases
  <2>2. Head(line[runner[u]]) = u
    BY <2>1 DEF Order, InFront
  <2>3. runner[u] \in Turn
    BY <2>1, Begun, Phases
  <2>4. CASE runner[u] = runner[t]
    BY <1>2, <2>1, <2>2, <2>4
  <2>5. CASE runner[u] # runner[t]
    BY <1>1, <2>2, <2>3, <2>5
  <2> QED BY <2>4, <2>5
<1> QED BY <1>3, <1>4, <1>5 DEF Order

\* A turn comes to the lock of its runner.
LEMMA OrderPrepared ==
    ASSUME TypeOK, Order, NEW t \in Turn, Prepared(t)
    PROVE  Order'
<1> DEFINE r == runner[t]
<1>1. /\ phase[t] = "preparing" /\ UNCHANGED <<started, session, runner, cache>>
      /\ phase' = [phase EXCEPT ![t] = "lining"] /\ line' = [line EXCEPT ![r] = Append(@, t)]
  BY DEF Prepared
<1>2. r \in Turn
  BY <1>1, Begun
<1>3. /\ \A u \in Turn : phase'[u] = IF u = t THEN "lining" ELSE phase[u]
      /\ \A z \in Turn : line'[z] = IF z = r THEN Append(line[r], t) ELSE line[z]
  BY <1>1, <1>2 DEF TypeOK
<1>4. line[r] \in Seq(Turn) /\ t \notin Elements(line[r])
  BY <1>1, <1>2, Phases DEF TypeOK, Order, Lined
<1>5. /\ Elements(Append(line[r], t)) = Elements(line[r]) \cup {t}
      /\ Distinct(Append(line[r], t))
      /\ line[r] # <<>> => Head(Append(line[r], t)) = Head(line[r])
  BY <1>2, <1>4, JoinQueue DEF Order, Lined
<1>6. Numbered' /\ Cached'
  BY <1>1, <1>3, NumbersStay, CacheStays DEF Order
<1>7. Lined'
  <2>1. ASSUME NEW z \in Turn
        PROVE  /\ Distinct(line'[z])
               /\ \A u \in Turn : u \in Elements(line'[z]) <=> phase'[u] \in Lining /\ runner[u] = z
    <3>1. CASE z = r
      BY <1>2, <1>3, <1>5, <3>1, Phases DEF Order, Lined
    <3>2. CASE z # r
      <4>1. line'[z] = line[z]
        BY <1>3, <3>2
      <4> QED BY <1>1, <1>3, <3>2, <4>1, Phases DEF Order, Lined
    <3> QED BY <3>1, <3>2
  <2> QED BY <1>1, <2>1 DEF Lined
<1>8. InFront'
  <2> SUFFICES ASSUME NEW u \in Turn, phase'[u] \in PastLock
               PROVE  Head(line'[runner[u]]) = u
    BY <1>1 DEF InFront
  <2>1. u # t /\ phase[u] \in PastLock
    BY <1>3, Phases
  <2>2. runner[u] \in Turn /\ Head(line[runner[u]]) = u
    BY <2>1, Begun, Phases DEF Order, InFront
  <2>3. u \in Elements(line[runner[u]])
    BY <2>1, <2>2, Phases DEF Order, Lined
  <2>4. line[runner[u]] # <<>>
    BY <2>3 DEF Elements
  <2> QED BY <1>3, <1>5, <2>2, <2>4
<1> QED BY <1>6, <1>7, <1>8 DEF Order

\* A turn begins, which may have been asked for from inside another.
LEMMA OrderArrive ==
    ASSUME TypeOK, Order, NEW s \in Session, NEW phases \in [Turn -> Phase],
           Arrive(started + 1, s, phases), line' = line,
           \A u \in Turn : \/ phases[u] = phase[u]
                           \/ phase[u] = "calling" /\ phases[u] = "asking"
    PROVE  Order'
<1>0. PICK n \in Turn : n = started + 1
  BY ArriveType
<1>1. /\ started' = n /\ n \in Nat /\ started \in Nat
      /\ \A u \in Turn : session'[u] = IF u = n THEN s ELSE session[u]
      /\ \A u \in Turn : phase'[u] = IF u = n THEN "preparing" ELSE phases[u]
  BY <1>0, ArriveType, TurnNumbers
<1>2. PICK r \in Turn :
        /\ r = IF cache[s] = None THEN n ELSE cache[s]
        /\ \A u \in Turn : runner'[u] = IF u = n THEN r ELSE runner[u]
        /\ \A z \in Session : cache'[z] = IF z = s THEN r ELSE cache[z]
  BY <1>0, ArriveType
<1>3. \A u \in Turn : u # n => (u <= started <=> u <= n)
  BY <1>0, <1>1, TurnNumbers
<1>4. phase[n] = "none"
  BY <1>0, <1>1 DEF Order, Numbered
<1>5. r \in 1 .. n
  <2>1. CASE cache[s] = None
    BY <1>2, <2>1 DEF Turn
  <2>2. CASE cache[s] # None
    <3>1. cache[s] \in 1 .. started
      BY <2>2 DEF Order, Cached
    <3> QED BY <1>0, <1>1, <1>2, <2>2, <3>1
  <2> QED BY <2>1, <2>2
<1>6. Numbered'
  <2> SUFFICES ASSUME NEW u \in Turn
               PROVE  /\ u <= n => session'[u] \in Session /\ phase'[u] # "none" /\ runner'[u] \in 1 .. n
                      /\ u > n => phase'[u] = "none"
    BY <1>1 DEF Numbered
  <2>1. CASE u = n
    BY <1>1, <1>2, <1>5, <2>1
  <2>2. CASE u # n
    <3>1. session'[u] = session[u] /\ phase'[u] = phases[u] /\ runner'[u] = runner[u]
      BY <1>1, <1>2, <2>2
    <3>2. (u <= n => u <= started) /\ (u > n => u > started)
      BY <1>0, <1>1, <2>2, TurnNumbers
    <3>3. /\ u <= started => session[u] \in Session /\ phase[u] # "none" /\ runner[u] \in 1 .. started
          /\ u > started => phase[u] = "none"
      BY DEF Order, Numbered
    <3>4. 1 .. started \subseteq 1 .. n
      BY <1>0, <1>1
    <3> QED BY <3>1, <3>2, <3>3, <3>4
  <2> QED BY <2>1, <2>2
<1>7. Cached'
  <2> SUFFICES ASSUME NEW z \in Session, cache'[z] # None
               PROVE  /\ cache'[z] \in 1 .. n
                      /\ \A u \in Turn : u <= n /\ session'[u] = z => runner'[u] <= cache'[z]
    BY <1>1 DEF Cached
  <2>1. CASE z # s
    <3>1. cache'[z] = cache[z]
      BY <1>2, <2>1
    <3>2. /\ cache[z] \in 1 .. started
          /\ \A u \in Turn : u <= started /\ session[u] = z => runner[u] <= cache[z]
      BY <2>1, <3>1 DEF Order, Cached
    <3>3. cache[z] \in 1 .. n
      BY <1>0, <1>1, <3>2
    <3>4. ASSUME NEW u \in Turn, u <= n, session'[u] = z PROVE runner'[u] <= cache[z]
      <4>1. u # n /\ session[u] = z
        BY <1>1, <2>1, <3>4
      <4> QED BY <1>2, <1>3, <3>2, <3>4, <4>1
    <3> QED BY <3>1, <3>3, <3>4
  <2>2. CASE z = s
    <3>1. cache'[z] = r
      BY <1>2, <2>2
    <3>2. ASSUME NEW u \in Turn, u <= n, session'[u] = z PROVE runner'[u] <= r
      <4>1. CASE u = n
        BY <1>2, <1>5, <4>1
      <4>2. CASE u # n
        <5>1. session[u] = s /\ u <= started /\ runner'[u] = runner[u]
          BY <1>1, <1>2, <1>3, <2>2, <3>2, <4>2
        <5>2. runner[u] \in 1 .. started
          BY <5>1 DEF Order, Numbered
        <5>3. CASE cache[s] = None
          BY <1>0, <1>1, <1>2, <5>1, <5>2, <5>3
        <5>4. CASE cache[s] # None
          BY <1>2, <5>1, <5>4 DEF Order, Cached
        <5> QED BY <5>3, <5>4
      <4> QED BY <4>1, <4>2
    <3> QED BY <1>5, <3>1, <3>2
  <2> QED BY <2>1, <2>2
<1>8. \A u \in Turn : /\ phase'[u] \in Lining <=> phase[u] \in Lining
                      /\ phase'[u] \in PastLock <=> phase[u] \in PastLock
                      /\ phase[u] \in Lining => runner'[u] = runner[u]
  BY <1>1, <1>2, <1>4, Phases
<1>9. Lined'
  BY <1>8 DEF Order, Lined
<1>10. InFront'
  <2> SUFFICES ASSUME NEW u \in Turn, phase'[u] \in PastLock
               PROVE  Head(line[runner'[u]]) = u
    BY DEF InFront
  <2>1. phase[u] \in PastLock /\ phase[u] \in Lining
    BY <1>8 DEF Lining
  <2> QED BY <1>8, <2>1 DEF Order, InFront
<1> QED BY <1>6, <1>7, <1>9, <1>10 DEF Order


\* Who is given a slot has waited for it.
LEMMA Released ==
    ASSUME IInv, NEW t \in Turn, phase[t] \in Holding, Release(t)
    PROVE  LET g == manager[t]  m == ModelOfTurn(t)  q == queue[g][m] IN
           /\ g \in 1 .. current /\ g \in Manager /\ m \in Model /\ q \in Seq(Turn)
           /\ phase'[t] = "ended"
           /\ q = <<>> => /\ \A u \in Turn : u # t => phase'[u] = phase[u]
                          /\ free' = [free EXCEPT ![g][m] = @ + 1] /\ queue' = queue
           /\ q # <<>> => /\ Head(q) \in Turn /\ Head(q) # t /\ phase[Head(q)] = "waiting"
                          /\ manager[Head(q)] = g /\ ModelOfTurn(Head(q)) = m
                          /\ \A u \in Turn : u # t => phase'[u] = IF u = Head(q) THEN "calling" ELSE phase[u]
                          /\ queue' = [queue EXCEPT ![g][m] = Tail(q)] /\ free' = free
<1> USE DEF IInv
<1> DEFINE g == manager[t]
           m == ModelOfTurn(t)
           q == queue[g][m]
<1>1. g \in 1 .. current /\ g \in Manager /\ m \in Model
  BY HasManager DEF PastLock, Slots
<1>2. q \in Seq(Turn)
  BY <1>1 DEF TypeOK
<1>3. CASE q = <<>>
  <2>1. phase' = [phase EXCEPT ![t] = "ended"] /\ free' = [free EXCEPT ![g][m] = @ + 1] /\ queue' = queue
    BY <1>3 DEF Release
  <2> QED BY <1>1, <1>2, <1>3, <2>1 DEF TypeOK
<1>4. CASE q # <<>>
  <2>1. /\ phase' = [phase EXCEPT ![t] = "ended", ![Head(q)] = "calling"]
        /\ queue' = [queue EXCEPT ![g][m] = Tail(q)] /\ free' = free
    BY <1>4 DEF Release
  <2>2. Distinct(q) /\ Head(q) \in Turn /\ Head(q) \in Elements(q)
    BY <1>1, <1>2, <1>4, LeaveHead DEF Slots, Queued
  <2>3. phase[Head(q)] = "waiting" /\ manager[Head(q)] = g /\ ModelOfTurn(Head(q)) = m
    BY <1>1, <2>2 DEF Slots, Queued
  <2>4. Head(q) # t
    BY <2>3 DEF Holding
  <2>5. phase'[t] = "ended" /\ \A u \in Turn : u # t => phase'[u] = IF u = Head(q) THEN "calling" ELSE phase[u]
    BY <2>1, <2>2, <2>4 DEF TypeOK
  <2> QED BY <1>1, <1>2, <1>4, <2>1, <2>2, <2>3, <2>4, <2>5
<1> QED BY <1>3, <1>4

\* Every step keeps the lines.
LEMMA OrderNext ==
    ASSUME IInv, [Next]_vars
    PROVE  Order'
<1> USE DEF IInv
<1>0. TypeOK' /\ Numbered /\ Cached
  BY TypeNext DEF Order
<1>1. ASSUME NEW s \in Session, Start(s) PROVE Order'
  BY <1>1, OrderArrive DEF Start, TypeOK
<1>2. ASSUME NEW t \in Turn, NEW s \in Session, Ask(t, s) PROVE Order'
  <2> DEFINE phases == [phase EXCEPT ![t] = "asking"]
  <2>1. phases \in [Turn -> Phase]
    BY DEF TypeOK, Phase
  <2>2. \A u \in Turn : \/ phases[u] = phase[u]
                        \/ phase[u] = "calling" /\ phases[u] = "asking"
    <3>1. \A u \in Turn : phases[u] = IF u = t THEN "asking" ELSE phase[u]
      BY DEF TypeOK
    <3>2. phase[t] = "calling"
      BY <1>2 DEF Ask
    <3> HIDE DEF phases
    <3> QED BY <3>1, <3>2
  <2>3. Arrive(started + 1, s, phases) /\ line' = line
    BY <1>2 DEF Ask
  <2> QED BY <2>1, <2>2, <2>3, OrderArrive
<1>3. ASSUME NEW t \in Turn, Enter(t) PROVE Order'
  <2>1. /\ phase[t] = "lining" /\ Head(line[runner[t]]) = t
        /\ UNCHANGED <<started, session, runner, line, cache>>
    BY <1>3 DEF Enter, runners
  <2>2. phase' = [phase EXCEPT ![t] = "calling"] \/ phase' = [phase EXCEPT ![t] = "waiting"]
    BY <1>3 DEF Enter
  <2>3. PICK p \in {"calling", "waiting"} : phase' = [phase EXCEPT ![t] = p]
    BY <2>2
  <2>4. \A u \in Turn : phase'[u] = IF u = t THEN p ELSE phase[u]
    BY <2>3 DEF TypeOK
  <2>5. Cached'
    BY <1>0, <2>1, CacheStays
  <2>6. p \in Lining /\ phase[t] \in Lining
    BY <2>1, Phases
  <2> QED BY <2>1, <2>4, <2>5, <2>6, OrderMove
<1>4. ASSUME NEW t \in Turn, Throttled(t) PROVE Order'
  <2>1. /\ phase[t] = "lining" /\ LeaveLine(t) /\ phase' = [phase EXCEPT ![t] = "ended"]
        /\ UNCHANGED <<started, session, runner>> /\ Uncache(session[t])
    BY <1>4 DEF Throttled
  <2>2. phase[t] \in Lining /\ Cached'
    BY <1>0, <2>1, CacheEvicted, Phases
  <2> QED BY <2>1, <2>2, OrderEnd DEF TypeOK
<1>5. ASSUME NEW t \in Turn, Answered(t) \/ HttpTimeout(t) PROVE Order'
  <2>1. /\ phase[t] = "asking" /\ phase' = [phase EXCEPT ![t] = "calling"]
        /\ UNCHANGED <<started, session, runner, line, cache>>
    BY <1>5 DEF Answered, HttpTimeout, runners
  <2>2. Head(line[runner[t]]) = t /\ phase[t] \in Lining /\ "calling" \in Lining
    BY <2>1, Phases DEF Order, InFront
  <2>3. \A u \in Turn : phase'[u] = IF u = t THEN "calling" ELSE phase[u]
    BY <2>1 DEF TypeOK
  <2>4. Cached'
    BY <1>0, <2>1, CacheStays
  <2> QED BY <2>1, <2>2, <2>3, <2>4, OrderMove
<1>6. ASSUME NEW t \in Turn, phase[t] \in Holding, Release(t), LeaveLine(t), UNCHANGED <<started, session, runner>>,
             Cached'
      PROVE  Order'
  <2>1. phase[t] \in Lining
    BY <1>6, Phases
  <2>2. phase'[t] = "ended"
    BY <1>6, Released
  <2>3. \A u \in Turn : u # t => \/ phase'[u] = phase[u]
                                 \/ phase[u] = "waiting" /\ phase'[u] = "calling"
    BY <1>6, Released
  <2> QED BY <1>6, <2>1, <2>2, <2>3, OrderEnd
<1>7. ASSUME NEW t \in Turn, Return(t) \/ CallRaises(t) PROVE Order'
  <2>1. /\ phase[t] \in Holding /\ Release(t) /\ LeaveLine(t) /\ UNCHANGED <<started, session, runner>>
        /\ Uncache(session[t]) \/ cache' = cache
    BY <1>7, Phases DEF Return, CallRaises
  <2>2. Cached'
    BY <1>0, <2>1, CacheEvicted, CacheStays
  <2> QED BY <1>6, <2>1, <2>2
<1>8. ASSUME NEW t \in Turn, Cancel(t) PROVE Order'
  <2>1. /\ phase[t] \notin {"none", "ended"} /\ Uncache(session[t]) /\ UNCHANGED <<started, session, runner>>
    BY <1>8 DEF Cancel
  <2>2. Cached'
    BY <1>0, <2>1, CacheEvicted
  <2>3. CASE phase[t] \in Holding
    <3>1. Release(t) /\ LeaveLine(t)
      BY <1>8, <2>3, Phases DEF Cancel
    <3> QED BY <1>6, <2>1, <2>2, <2>3, <3>1
  <2>4. CASE phase[t] = "preparing"
    <3>1. phase' = [phase EXCEPT ![t] = "ended"] /\ line' = line
      BY <1>8, <2>4, Phases DEF Cancel
    <3>2. \A u \in Turn : phase'[u] = IF u = t THEN "ended" ELSE phase[u]
      BY <3>1 DEF TypeOK
    <3> QED BY <2>1, <2>2, <2>4, <3>1, <3>2, OrderMove
  <2>5. CASE phase[t] \in {"lining", "waiting"}
    <3>1. LeaveLine(t) /\ phase' = [phase EXCEPT ![t] = "ended"] /\ phase[t] \in Lining
      BY <1>8, <2>5, Phases DEF Cancel
    <3> QED BY <2>1, <2>2, <3>1, OrderEnd DEF TypeOK
  <2> QED BY <2>1, <2>3, <2>4, <2>5, Phases DEF TypeOK, Phase
<1>9. ASSUME NEW t \in Turn, PrepareFails(t) PROVE Order'
  <2>1. /\ phase[t] = "preparing" /\ phase' = [phase EXCEPT ![t] = "ended"] /\ Uncache(session[t])
        /\ UNCHANGED <<started, session, runner, line>>
    BY <1>9 DEF PrepareFails
  <2>2. Cached'
    BY <1>0, <2>1, CacheEvicted
  <2>3. \A u \in Turn : phase'[u] = IF u = t THEN "ended" ELSE phase[u]
    BY <2>1 DEF TypeOK
  <2> QED BY <2>1, <2>2, <2>3, OrderMove
<1>10. ASSUME NEW t \in Turn, Prepared(t) PROVE Order'
  BY <1>10, OrderPrepared
<1>11. ASSUME UNCHANGED <<turns, line>>, Cached' PROVE Order'
  BY <1>11, OrderMove DEF turns
<1>12. ASSUME NEW s \in Session, Evict(s) PROVE Order'
  <2>1. Uncache(s) /\ UNCHANGED <<turns, line>>
    BY <1>12 DEF Evict
  <2>2. Cached'
    BY <1>0, <2>1, CacheEvicted DEF turns
  <2> QED BY <1>11, <2>1, <2>2
<1>13. CASE UNCHANGED <<turns, runners>>
  <2>1. Cached'
    BY <1>0, <1>13, CacheStays DEF turns, runners
  <2> QED BY <1>11, <1>13, <2>1 DEF runners
<1>14. ASSUME NEW t \in Turn, StrayEnds(t) PROVE Order'
  BY <1>13, <1>14 DEF StrayEnds
<1>15. ASSUME NEW c \in Configs, Reload(c) PROVE Order'
  BY <1>13, <1>15 DEF Reload
<1>16. CASE Poll \/ UNCHANGED vars
  BY <1>13, <1>16 DEF Poll, vars
<1> QED BY <1>1, <1>2, <1>3, <1>4, <1>5, <1>7, <1>8, <1>9, <1>10, <1>12, <1>14, <1>15, <1>16 DEF Next

\* One turn is past a runner's lock, and of two runners of a session only the later can
\* be cached.
LEMMA OneAtALock ==
    ASSUME TypeOK, Order
    PROVE  OneTurnAtATime
<1> SUFFICES ASSUME NEW t \in Turn, NEW u \in Turn, t # u, session[t] = session[u],
                    phase[t] \in PastLock, phase[u] \in PastLock
             PROVE  /\ runner[t] # runner[u]
                    /\ runner[t] < runner[u] => cache[session[t]] # runner[t]
  BY DEF OneTurnAtATime
<1>1. runner[t] # runner[u]
  BY DEF Order, InFront
<1>2. /\ t <= started /\ u <= started /\ session[t] \in Session
      /\ runner[t] \in Nat /\ runner[u] \in Nat
  BY Begun, Phases, TurnNumbers
<1>3. ASSUME cache[session[t]] = runner[t] PROVE ~ (runner[t] < runner[u])
  <2>1. cache[session[t]] # None
    BY <1>3, Begun, Phases, ModelSlotsAssumption
  <2>2. runner[u] <= cache[session[t]]
    BY <1>2, <2>1 DEF Order, Cached
  <2> QED BY <1>2, <1>3, <2>2
<1> QED BY <1>1, <1>3

---------------------------------------------------------------------------
(* The slots.                                                              *)

\* The turns in a call are finitely many.
LEMMA CallersFinite ==
    ASSUME NEW g, NEW m
    PROVE  /\ IsFiniteSet(Callers(g, m)) /\ Cardinality(Callers(g, m)) \in Nat
           /\ Callers(g, m) \subseteq Turn
<1>1. IsFiniteSet(Turn)
  BY FS_Interval, ModelSlotsAssumption DEF Turn
<1>2. Callers(g, m) \subseteq Turn
  BY DEF Callers
<1>3. IsFiniteSet(Callers(g, m))
  BY <1>1, <1>2, FS_Subset
<1> QED BY <1>2, <1>3, FS_CardinalityType

\* Steps that leave every turn in the place it has among callers and waiters.
LEMMA SlotsStay ==
    ASSUME TypeOK, Slots, UNCHANGED <<slots, settings, manager>>,
           \A u \in Turn : /\ phase'[u] = "waiting" <=> phase[u] = "waiting"
                           /\ phase'[u] \in Holding <=> phase[u] \in Holding
                           /\ phase[u] \in PastLock => session'[u] = session[u]
    PROVE  Slots'
<1>1. \A u \in Turn : /\ phase'[u] \in PastLock <=> phase[u] \in PastLock
                      /\ phase[u] \in PastLock => ModelOfTurn(u)' = ModelOfTurn(u)
                      /\ phase[u] = "waiting" => phase[u] \in PastLock
                      /\ phase[u] \in Holding => phase[u] \in PastLock
  BY DEF PastLock, ModelOfTurn
<1>2. Managed'
  BY <1>1 DEF Slots, Managed, settings
<1>3. Queued'
  BY <1>1 DEF Slots, Queued, slots
<1>4. NoIdleSlot'
  BY DEF Slots, NoIdleSlot, slots
<1>5. \A g \in Manager, m \in Model : Callers(g, m)' = Callers(g, m)
  BY <1>1 DEF Callers
<1>6. SlotsConserved'
  <2>1. \A g \in 1 .. current : g \in Manager
    BY ModelSlotsAssumption DEF TypeOK, Manager
  <2> QED BY <1>5, <2>1 DEF Slots, SlotsConserved, slots, settings
<1> QED BY <1>2, <1>3, <1>4, <1>6 DEF Slots

\* A turn takes a free slot.
LEMMA SlotTaken ==
    ASSUME IInv, NEW t \in Turn, phase[t] = "lining", manager' = [manager EXCEPT ![t] = current],
           free[current][ModelOfTurn(t)] > 0,
           free' = [free EXCEPT ![current][ModelOfTurn(t)] = @ - 1],
           phase' = [phase EXCEPT ![t] = "calling"], UNCHANGED <<queue, session, settings>>
    PROVE  Slots'
<1> USE DEF IInv
<1> DEFINE k == ModelOfTurn(t)
<1>1. current \in Manager /\ current \in 1 .. current /\ k \in Model
  <2>1. k \in Model
    BY AtHead
  <2>2. current \in Manager /\ current \in 1 .. current
    BY ModelSlotsAssumption DEF TypeOK, Manager
  <2> QED BY <2>1, <2>2
<1>2. /\ \A u \in Turn : phase'[u] = IF u = t THEN "calling" ELSE phase[u]
      /\ \A u \in Turn : manager'[u] = IF u = t THEN current ELSE manager[u]
      /\ \A g \in Manager, m \in Model :
            free'[g][m] = IF g = current /\ m = k THEN free[g][m] - 1 ELSE free[g][m]
  BY <1>1 DEF TypeOK
<1>3. \A u \in Turn : ModelOfTurn(u)' = ModelOfTurn(u)
  BY DEF ModelOfTurn
<1>4. Managed'
  BY <1>1, <1>2 DEF Slots, Managed, PastLock, settings
<1>5. Queued'
  BY <1>2, <1>3 DEF Slots, Queued
<1>6. NoIdleSlot'
  <2>1. queue[current][k] = <<>>
    BY <1>1 DEF Slots, NoIdleSlot, TypeOK
  <2> QED BY <1>2, <2>1 DEF Slots, NoIdleSlot
<1>7. SlotsConserved'
  <2> SUFFICES ASSUME NEW g \in 1 .. current, NEW m \in Model
               PROVE  Cardinality(Callers(g, m)') + free'[g][m] = LimitFor(config[g], m)
    BY DEF SlotsConserved, settings
  <2>1. g \in Manager /\ Cardinality(Callers(g, m)) + free[g][m] = LimitFor(config[g], m)
    BY ModelSlotsAssumption DEF Slots, SlotsConserved, TypeOK, Manager
  <2>2. Cardinality(Callers(g, m)) \in Nat /\ IsFiniteSet(Callers(g, m)) /\ free[g][m] \in Nat
    BY <2>1, CallersFinite DEF TypeOK
  <2>3. t \notin Callers(g, m)
    BY DEF Callers, Holding
  <2>4. CASE g = current /\ m = k
    <3>1. Callers(g, m)' = Callers(g, m) \cup {t}
      BY <1>2, <1>3, <2>4 DEF Callers, Holding
    <3>2. Cardinality(Callers(g, m)') = Cardinality(Callers(g, m)) + 1
      BY <2>2, <2>3, <3>1, FS_AddElement
    <3> QED BY <1>2, <2>1, <2>2, <2>4, <3>2
  <2>5. CASE ~ (g = current /\ m = k)
    <3>1. Callers(g, m)' = Callers(g, m)
      BY <1>2, <1>3, <2>5 DEF Callers, Holding
    <3> QED BY <1>2, <2>1, <2>5, <3>1
  <2> QED BY <2>4, <2>5
<1> QED BY <1>4, <1>5, <1>6, <1>7 DEF Slots

\* A turn waits for a slot.
LEMMA SlotAwaited ==
    ASSUME IInv, NEW t \in Turn, phase[t] = "lining", manager' = [manager EXCEPT ![t] = current],
           ~ (free[current][ModelOfTurn(t)] > 0),
           queue' = [queue EXCEPT ![current][ModelOfTurn(t)] = Append(@, t)],
           phase' = [phase EXCEPT ![t] = "waiting"], UNCHANGED <<free, session, settings>>
    PROVE  Slots'
<1> USE DEF IInv
<1> DEFINE k == ModelOfTurn(t)
           q == queue[current][k]
<1>1. current \in Manager /\ current \in 1 .. current /\ k \in Model
  <2>1. k \in Model
    BY AtHead
  <2>2. current \in Manager /\ current \in 1 .. current
    BY ModelSlotsAssumption DEF TypeOK, Manager
  <2> QED BY <2>1, <2>2
<1>2. /\ \A u \in Turn : phase'[u] = IF u = t THEN "waiting" ELSE phase[u]
      /\ \A u \in Turn : manager'[u] = IF u = t THEN current ELSE manager[u]
      /\ \A g \in Manager, m \in Model :
            queue'[g][m] = IF g = current /\ m = k THEN Append(q, t) ELSE queue[g][m]
  BY <1>1 DEF TypeOK
<1>3. \A u \in Turn : ModelOfTurn(u)' = ModelOfTurn(u)
  BY DEF ModelOfTurn
<1>4. \A g \in Manager, m \in Model : t \notin Elements(queue[g][m])
  BY DEF Slots, Queued
<1>5. q \in Seq(Turn) /\ Distinct(q) /\ free[current][k] \in Nat
  BY <1>1 DEF Slots, Queued, TypeOK
<1>6. Distinct(Append(q, t)) /\ Elements(Append(q, t)) = Elements(q) \cup {t}
  BY <1>1, <1>4, <1>5, JoinQueue
<1>7. Managed'
  BY <1>1, <1>2 DEF Slots, Managed, PastLock, settings
<1>8. Queued'
  <2>1. ASSUME NEW g \in Manager, NEW m \in Model
        PROVE  /\ Distinct(queue'[g][m])
               /\ \A u \in Turn : u \in Elements(queue'[g][m])
                                    <=> phase'[u] = "waiting" /\ manager'[u] = g /\ ModelOfTurn(u) = m
    <3>1. Distinct(queue[g][m]) /\ \A u \in Turn : u \in Elements(queue[g][m])
              <=> phase[u] = "waiting" /\ manager[u] = g /\ ModelOfTurn(u) = m
      BY DEF Slots, Queued
    <3>2. CASE g = current /\ m = k
      BY <1>2, <1>6, <3>1, <3>2
    <3>3. CASE ~ (g = current /\ m = k)
      <4>1. queue'[g][m] = queue[g][m]
        BY <1>2, <3>3
      <4> QED BY <1>2, <1>4, <3>1, <3>3, <4>1
    <3> QED BY <3>2, <3>3
  <2> QED BY <1>3, <2>1 DEF Queued
<1>9. NoIdleSlot'
  <2>1. free[current][k] = 0
    BY <1>5
  <2> QED BY <1>2, <2>1 DEF Slots, NoIdleSlot
<1>10. \A g \in Manager, m \in Model : Callers(g, m)' = Callers(g, m)
  BY <1>2, <1>3 DEF Callers, Holding
<1>11. SlotsConserved'
  <2>1. \A g \in 1 .. current : g \in Manager
    BY ModelSlotsAssumption DEF TypeOK, Manager
  <2> QED BY <1>10, <2>1 DEF Slots, SlotsConserved, settings
<1> QED BY <1>7, <1>8, <1>9, <1>11 DEF Slots


\* A slot is given back: to the first who waits, or to nobody.
LEMMA SlotReleased ==
    ASSUME IInv, NEW t \in Turn, phase[t] \in Holding, Release(t), UNCHANGED <<session, manager, settings>>
    PROVE  Slots'
<1> USE DEF IInv
<1> DEFINE f == manager[t]
           k == ModelOfTurn(t)
           q == queue[f][k]
           h == Head(q)
<1>1. /\ f \in 1 .. current /\ f \in Manager /\ k \in Model /\ q \in Seq(Turn)
      /\ phase'[t] = "ended" /\ free[f][k] \in Nat
  BY Released DEF TypeOK
<1>2. \A u \in Turn : ModelOfTurn(u)' = ModelOfTurn(u)
  BY DEF ModelOfTurn
<1>3. /\ \A g \in 1 .. current : g \in Manager
      /\ \A g \in Manager, m \in Model : free[g][m] \in Nat
  BY ModelSlotsAssumption DEF TypeOK, Manager
<1>4. CASE q = <<>>
  <2>1. /\ \A u \in Turn : phase'[u] = IF u = t THEN "ended" ELSE phase[u]
        /\ queue' = queue
        /\ \A g \in Manager, m \in Model :
              free'[g][m] = IF g = f /\ m = k THEN free[g][m] + 1 ELSE free[g][m]
    <3>1. /\ \A u \in Turn : u # t => phase'[u] = phase[u]
          /\ free' = [free EXCEPT ![f][k] = @ + 1] /\ queue' = queue
      BY <1>4, Released
    <3> QED BY <1>1, <3>1 DEF TypeOK
  <2>2. Managed'
    BY <2>1 DEF Slots, Managed, PastLock, Holding, settings
  <2>3. Queued'
    BY <1>2, <2>1 DEF Slots, Queued, Holding
  <2>4. NoIdleSlot'
    BY <1>4, <2>1 DEF Slots, NoIdleSlot
  <2>5. SlotsConserved'
    <3> SUFFICES ASSUME NEW g \in 1 .. current, NEW m \in Model
                 PROVE  Cardinality(Callers(g, m)') + free'[g][m] = LimitFor(config[g], m)
      BY DEF SlotsConserved, settings
    <3>1. g \in Manager /\ Cardinality(Callers(g, m)) + free[g][m] = LimitFor(config[g], m)
      BY <1>3 DEF Slots, SlotsConserved
    <3>2. Cardinality(Callers(g, m)) \in Nat /\ IsFiniteSet(Callers(g, m)) /\ free[g][m] \in Nat
      BY <1>3, <3>1, CallersFinite
    <3>3. CASE g = f /\ m = k
      <4>1. t \in Callers(g, m) /\ Callers(g, m)' = Callers(g, m) \ {t}
        BY <1>2, <2>1, <3>3 DEF Callers, Holding
      <4>2. Cardinality(Callers(g, m)') = Cardinality(Callers(g, m)) - 1
        BY <3>2, <4>1, FS_RemoveElement
      <4> QED BY <2>1, <3>1, <3>2, <3>3, <4>2
    <3>4. CASE ~ (g = f /\ m = k)
      <4>1. Callers(g, m)' = Callers(g, m)
        BY <1>2, <2>1, <3>4 DEF Callers, Holding
      <4> QED BY <2>1, <3>1, <3>4, <4>1
    <3> QED BY <3>3, <3>4
  <2> QED BY <2>2, <2>3, <2>4, <2>5 DEF Slots
<1>5. CASE q # <<>>
  <2>1. /\ h \in Turn /\ h # t /\ phase[h] = "waiting" /\ manager[h] = f /\ ModelOfTurn(h) = k
        /\ \A u \in Turn : phase'[u] = IF u = t THEN "ended" ELSE IF u = h THEN "calling" ELSE phase[u]
        /\ free' = free
        /\ \A g \in Manager, m \in Model :
              queue'[g][m] = IF g = f /\ m = k THEN Tail(q) ELSE queue[g][m]
    <3>1. /\ h \in Turn /\ h # t /\ phase[h] = "waiting" /\ manager[h] = f /\ ModelOfTurn(h) = k
          /\ \A u \in Turn : u # t => phase'[u] = IF u = h THEN "calling" ELSE phase[u]
          /\ queue' = [queue EXCEPT ![f][k] = Tail(q)] /\ free' = free
      BY <1>5, Released
    <3> QED BY <1>1, <3>1 DEF TypeOK
  <2>2. Elements(Tail(q)) = Elements(q) \ {h} /\ Distinct(Tail(q))
    BY <1>1, <1>5, LeaveHead DEF Slots, Queued
  <2>3. Managed'
    BY <2>1 DEF Slots, Managed, PastLock, Holding, settings
  <2>4. Queued'
    <3>1. ASSUME NEW g \in Manager, NEW m \in Model
          PROVE  /\ Distinct(queue'[g][m])
                 /\ \A u \in Turn : u \in Elements(queue'[g][m])
                                      <=> phase'[u] = "waiting" /\ manager[u] = g /\ ModelOfTurn(u) = m
      <4>1. Distinct(queue[g][m]) /\ \A u \in Turn : u \in Elements(queue[g][m])
                <=> phase[u] = "waiting" /\ manager[u] = g /\ ModelOfTurn(u) = m
        BY DEF Slots, Queued
      <4>2. phase[t] # "waiting"
        BY DEF Holding
      <4>3. CASE g = f /\ m = k
        <5>0. queue'[g][m] = Tail(q)
          BY <2>1, <4>3
        <5>1. Elements(queue'[g][m]) = Elements(q) \ {h} /\ Distinct(queue'[g][m])
          BY <2>2, <5>0, Zenon
        <5>2. ASSUME NEW u \in Turn
              PROVE  u \in Elements(queue'[g][m]) <=> phase'[u] = "waiting" /\ manager[u] = g /\ ModelOfTurn(u) = m
          <6>1. u \in Elements(q) <=> phase[u] = "waiting" /\ manager[u] = g /\ ModelOfTurn(u) = m
            BY <4>1, <4>3
          <6>2. phase'[u] = "waiting" <=> phase[u] = "waiting" /\ u # h
            BY <2>1, <4>2
          <6> QED BY <5>1, <6>1, <6>2
        <5> QED BY <5>1, <5>2
      <4>4. CASE ~ (g = f /\ m = k)
        BY <2>1, <4>1, <4>2, <4>4
      <4> QED BY <4>3, <4>4
    <3> QED BY <1>2, <3>1 DEF Queued
  <2>5. NoIdleSlot'
    BY <1>5, <2>1 DEF Slots, NoIdleSlot
  <2>6. SlotsConserved'
    <3> SUFFICES ASSUME NEW g \in 1 .. current, NEW m \in Model
                 PROVE  Cardinality(Callers(g, m)') + free[g][m] = LimitFor(config[g], m)
      BY <2>1 DEF SlotsConserved, settings
    <3>1. g \in Manager /\ Cardinality(Callers(g, m)) + free[g][m] = LimitFor(config[g], m)
      BY <1>3 DEF Slots, SlotsConserved
    <3>2. Cardinality(Callers(g, m)) \in Nat /\ IsFiniteSet(Callers(g, m))
      BY CallersFinite
    <3>3. CASE g = f /\ m = k
      <4>1. t \in Callers(g, m) /\ h \notin Callers(g, m) /\ Callers(g, m)' = (Callers(g, m) \ {t}) \cup {h}
        BY <1>2, <2>1, <3>3 DEF Callers, Holding
      <4>2. /\ IsFiniteSet(Callers(g, m) \ {t})
            /\ Cardinality(Callers(g, m) \ {t}) = Cardinality(Callers(g, m)) - 1
        BY <3>2, <4>1, FS_RemoveElement
      <4>3. Cardinality(Callers(g, m)') = Cardinality(Callers(g, m) \ {t}) + 1
        BY <4>1, <4>2, FS_AddElement
      <4> QED BY <3>1, <3>2, <4>2, <4>3
    <3>4. CASE ~ (g = f /\ m = k)
      <4>1. Callers(g, m)' = Callers(g, m)
        BY <1>2, <2>1, <3>4 DEF Callers, Holding
      <4> QED BY <3>1, <4>1
    <3> QED BY <3>3, <3>4
  <2> QED BY <2>3, <2>4, <2>5, <2>6 DEF Slots
<1> QED BY <1>4, <1>5

\* A waiter gives up.
LEMMA WaiterLeaves ==
    ASSUME IInv, NEW t \in Turn, phase[t] = "waiting", phase' = [phase EXCEPT ![t] = "ended"],
           queue' = [queue EXCEPT ![manager[t]][ModelOfTurn(t)] = Without(@, t)],
           UNCHANGED <<free, session, manager, settings>>
    PROVE  Slots'
<1> USE DEF IInv
<1> DEFINE f == manager[t]
           k == ModelOfTurn(t)
           q == queue[f][k]
<1>1. f \in 1 .. current /\ f \in Manager /\ k \in Model
  BY HasManager DEF PastLock, Slots
<1>2. q \in Seq(Turn) /\ t \in Elements(q) /\ Distinct(q)
  BY <1>1 DEF Slots, Queued, TypeOK
<1>3. /\ \A u \in Turn : phase'[u] = IF u = t THEN "ended" ELSE phase[u]
      /\ \A g \in Manager, m \in Model :
            queue'[g][m] = IF g = f /\ m = k THEN Without(q, t) ELSE queue[g][m]
  BY <1>1 DEF TypeOK
<1>4. Elements(Without(q, t)) = Elements(q) \ {t} /\ Distinct(Without(q, t)) /\ q # <<>>
  <2>1. Elements(Without(q, t)) = Elements(q) \ {t} /\ Distinct(Without(q, t))
    BY <1>2, LeaveQueue
  <2>2. q # <<>>
    BY <1>2 DEF Elements
  <2> QED BY <2>1, <2>2
<1>5. \A u \in Turn : ModelOfTurn(u)' = ModelOfTurn(u)
  BY DEF ModelOfTurn
<1>6. Managed'
  BY <1>3 DEF Slots, Managed, PastLock, Holding, settings
<1>7. Queued'
  <2>1. ASSUME NEW g \in Manager, NEW m \in Model
        PROVE  /\ Distinct(queue'[g][m])
               /\ \A u \in Turn : u \in Elements(queue'[g][m])
                                    <=> phase'[u] = "waiting" /\ manager[u] = g /\ ModelOfTurn(u) = m
    <3>1. Distinct(queue[g][m]) /\ \A u \in Turn : u \in Elements(queue[g][m])
              <=> phase[u] = "waiting" /\ manager[u] = g /\ ModelOfTurn(u) = m
      BY DEF Slots, Queued
    <3>2. CASE g = f /\ m = k
      BY <1>3, <1>4, <3>1, <3>2
    <3>3. CASE ~ (g = f /\ m = k)
      BY <1>3, <3>1, <3>3
    <3> QED BY <3>2, <3>3
  <2> QED BY <1>5, <2>1 DEF Queued
<1>8. NoIdleSlot'
  BY <1>3, <1>4 DEF Slots, NoIdleSlot
<1>9. \A g \in Manager, m \in Model : Callers(g, m)' = Callers(g, m)
  BY <1>3, <1>5 DEF Callers, Holding
<1>10. SlotsConserved'
  <2>1. \A g \in 1 .. current : g \in Manager
    BY ModelSlotsAssumption DEF TypeOK, Manager
  <2> QED BY <1>9, <2>1 DEF Slots, SlotsConserved, settings
<1> QED BY <1>6, <1>7, <1>8, <1>10 DEF Slots


\* The limits change: a new manager, which nobody uses yet.
LEMMA SlotsReload ==
    ASSUME IInv, NEW c \in Configs, Reload(c)
    PROVE  Slots'
<1> USE DEF IInv
<1> DEFINE n == current + 1
<1>1. /\ n \in Manager /\ current' = n /\ current \in Nat
      /\ config' = [config EXCEPT ![n] = c] /\ free' = [free EXCEPT ![n] = Limits(c)]
      /\ UNCHANGED <<turns, queue>>
  BY ModelSlotsAssumption DEF Reload, TypeOK, Manager
<1>2. /\ \A g \in Manager : free'[g] = IF g = n THEN Limits(c) ELSE free[g]
      /\ \A g \in Manager : config'[g] = IF g = n THEN c ELSE config[g]
  BY <1>1 DEF TypeOK
<1>3. \A u \in Turn : ModelOfTurn(u)' = ModelOfTurn(u)
  BY <1>1 DEF ModelOfTurn, turns
<1>4. \A u \in Turn : phase[u] \in PastLock => manager[u] # n /\ manager[u] \in 1 .. n
  BY <1>1 DEF Slots, Managed
<1>5. Managed'
  BY <1>1, <1>4 DEF Managed, turns
<1>6. Queued'
  BY <1>1, <1>3 DEF Slots, Queued, turns
<1>7. NoIdleSlot'
  <2>1. ASSUME NEW m \in Model PROVE queue[n][m] = <<>>
    <3>1. \A u \in Turn : u \notin Elements(queue[n][m])
      BY <1>1, <1>4 DEF Slots, Queued, PastLock
    <3>2. queue[n][m] \in Seq(Turn)
      BY <1>1 DEF TypeOK
    <3>3. queue[n][m] # <<>> => Head(queue[n][m]) \in Turn /\ Head(queue[n][m]) \in Elements(queue[n][m])
      BY <3>2 DEF Elements
    <3> QED BY <3>1, <3>3
  <2> QED BY <1>1, <1>2, <2>1 DEF Slots, NoIdleSlot
<1>8. \A g \in Manager, m \in Model : Callers(g, m)' = Callers(g, m)
  BY <1>1, <1>3 DEF Callers, turns
<1>9. SlotsConserved'
  <2> SUFFICES ASSUME NEW g \in 1 .. n, NEW m \in Model
               PROVE  Cardinality(Callers(g, m)') + free'[g][m] = LimitFor(config'[g], m)
    BY <1>1 DEF SlotsConserved
  <2>1. g \in Manager
    BY <1>1, ModelSlotsAssumption DEF Manager
  <2>2. CASE g = n
    <3>1. Callers(g, m) = {}
      BY <1>4, <2>2 DEF Callers, PastLock
    <3>2. Cardinality(Callers(g, m)') = 0
      BY <1>8, <2>1, <3>1, FS_EmptySet
    <3>3. free'[g][m] = LimitFor(c, m) /\ LimitFor(c, m) \in Nat
      BY <1>2, <2>1, <2>2, LimitsType
    <3> QED BY <1>2, <2>1, <2>2, <3>2, <3>3
  <2>3. CASE g # n
    <3>1. g \in 1 .. current
      BY <1>1, <2>3
    <3>2. Cardinality(Callers(g, m)) + free[g][m] = LimitFor(config[g], m)
      BY <3>1 DEF Slots, SlotsConserved
    <3> QED BY <1>2, <1>8, <2>1, <2>3, <3>2
  <2> QED BY <2>2, <2>3
<1> QED BY <1>5, <1>6, <1>7, <1>9 DEF Slots

\* Every step keeps the slots.
LEMMA SlotsNext ==
    ASSUME IInv, [Next]_vars
    PROVE  Slots'
<1> USE DEF IInv
<1>1. ASSUME NEW s \in Session, NEW phases \in [Turn -> Phase], Arrive(started + 1, s, phases),
             \A u \in Turn : \/ phases[u] = phase[u]
                             \/ phase[u] = "calling" /\ phases[u] = "asking",
             UNCHANGED <<manager, slots, settings>>
      PROVE  Slots'
  <2>1. /\ started + 1 \in Turn
        /\ \A u \in Turn : session'[u] = IF u = started + 1 THEN s ELSE session[u]
        /\ \A u \in Turn : phase'[u] = IF u = started + 1 THEN "preparing" ELSE phases[u]
    BY <1>1, ArriveType
  <2>2. phase[started + 1] = "none"
    BY <2>1, TurnNumbers DEF Order, Numbered
  <2> QED BY <1>1, <2>1, <2>2, SlotsStay, Phases
<1>2. ASSUME NEW s \in Session, Start(s) PROVE Slots'
  BY <1>1, <1>2 DEF Start, TypeOK
<1>3. ASSUME NEW t \in Turn, NEW s \in Session, Ask(t, s) PROVE Slots'
  <2> DEFINE phases == [phase EXCEPT ![t] = "asking"]
  <2>1. phases \in [Turn -> Phase]
    BY DEF TypeOK, Phase
  <2>2. phase[t] = "calling" /\ Arrive(started + 1, s, phases) /\ UNCHANGED <<manager, slots, settings>>
    BY <1>3 DEF Ask
  <2>3. \A u \in Turn : phases[u] = IF u = t THEN "asking" ELSE phase[u]
    BY DEF TypeOK
  <2> HIDE DEF phases
  <2> QED BY <1>1, <2>1, <2>2, <2>3
<1>4. ASSUME NEW t \in Turn, NEW p, phase[t] # "waiting", phase[t] \in Holding <=> p \in Holding,
             p # "waiting", phase' = [phase EXCEPT ![t] = p], UNCHANGED <<manager, session, slots, settings>>
      PROVE  Slots'
  <2>1. \A u \in Turn : phase'[u] = IF u = t THEN p ELSE phase[u]
    BY <1>4 DEF TypeOK
  <2> QED BY <1>4, <2>1, SlotsStay
<1>5. ASSUME NEW t \in Turn, Enter(t) PROVE Slots'
  <2>1. /\ phase[t] = "lining" /\ manager' = [manager EXCEPT ![t] = current] /\ UNCHANGED <<session, settings>>
    BY <1>5 DEF Enter
  <2>2. CASE free[current][ModelOfTurn(t)] > 0
    <3>1. /\ free' = [free EXCEPT ![current][ModelOfTurn(t)] = @ - 1]
          /\ phase' = [phase EXCEPT ![t] = "calling"] /\ queue' = queue
      BY <1>5, <2>2 DEF Enter
    <3> QED BY <2>1, <2>2, <3>1, SlotTaken
  <2>3. CASE ~ (free[current][ModelOfTurn(t)] > 0)
    <3>1. /\ queue' = [queue EXCEPT ![current][ModelOfTurn(t)] = Append(@, t)]
          /\ phase' = [phase EXCEPT ![t] = "waiting"] /\ free' = free
      BY <1>5, <2>3 DEF Enter
    <3> QED BY <2>1, <2>3, <3>1, SlotAwaited
  <2> QED BY <2>2, <2>3
<1>6. ASSUME NEW t \in Turn, Throttled(t) PROVE Slots'
  <2>1. /\ phase[t] = "lining" /\ phase' = [phase EXCEPT ![t] = "ended"]
        /\ UNCHANGED <<manager, session, slots, settings>>
    BY <1>6 DEF Throttled
  <2> QED BY <1>4, <2>1 DEF Holding
<1>7. ASSUME NEW t \in Turn, Answered(t) \/ HttpTimeout(t) PROVE Slots'
  <2>1. /\ phase[t] = "asking" /\ phase' = [phase EXCEPT ![t] = "calling"]
        /\ UNCHANGED <<manager, session, slots, settings>>
    BY <1>7 DEF Answered, HttpTimeout
  <2> QED BY <1>4, <2>1 DEF Holding
<1>8. ASSUME NEW t \in Turn, Return(t) \/ CallRaises(t) PROVE Slots'
  BY <1>8, SlotReleased, Phases DEF Return, CallRaises
<1>9. ASSUME NEW t \in Turn, Cancel(t) PROVE Slots'
  <2>1. CASE phase[t] \in Holding
    BY <1>9, <2>1, SlotReleased DEF Cancel
  <2>2. CASE phase[t] = "waiting"
    <3>1. /\ phase' = [phase EXCEPT ![t] = "ended"] /\ free' = free
          /\ queue' = [queue EXCEPT ![manager[t]][ModelOfTurn(t)] = Without(@, t)]
          /\ UNCHANGED <<session, manager, settings>>
      BY <1>9, <2>2 DEF Cancel, Holding
    <3> QED BY <2>2, <3>1, WaiterLeaves
  <2>3. CASE phase[t] \notin {"waiting"} \cup Holding
    <3>1. /\ phase' = [phase EXCEPT ![t] = "ended"]
          /\ UNCHANGED <<manager, session, slots, settings>>
      BY <1>9, <2>3 DEF Cancel, Holding, slots
    <3> QED BY <1>4, <2>3, <3>1 DEF Holding
  <2> QED BY <2>1, <2>2, <2>3
<1>13. ASSUME NEW t \in Turn, Prepared(t) \/ PrepareFails(t) PROVE Slots'
  <2>1. /\ phase[t] = "preparing" /\ UNCHANGED <<manager, session, slots, settings>>
        /\ phase' = [phase EXCEPT ![t] = "lining"] \/ phase' = [phase EXCEPT ![t] = "ended"]
    BY <1>13 DEF Prepared, PrepareFails
  <2> QED BY <1>4, <2>1 DEF Holding
<1>10. ASSUME NEW c \in Configs, Reload(c) PROVE Slots'
  BY <1>10, SlotsReload
<1>11. CASE UNCHANGED <<turns, slots, settings>>
  BY <1>11, SlotsStay DEF turns
<1>12. CASE Poll \/ UNCHANGED vars
  BY <1>11, <1>12 DEF Poll, vars
<1>14. ASSUME NEW s \in Session, Evict(s) PROVE Slots'
  BY <1>11, <1>14 DEF Evict
<1>15. ASSUME NEW t \in Turn, StrayEnds(t) PROVE Slots'
  BY <1>11, <1>15 DEF StrayEnds
<1> QED BY <1>2, <1>3, <1>5, <1>6, <1>7, <1>8, <1>9, <1>10, <1>12, <1>13, <1>14, <1>15 DEF Next

\* The invariant holds at the start.
LEMMA InitIInv == Init => IInv
<1> SUFFICES ASSUME Init PROVE IInv
  OBVIOUS
<1>1. PICK c \in Configs : /\ config = [g \in Manager |-> c]
                           /\ free = [g \in Manager |-> Limits(c)]
  BY DEF Init
<1>2. 1 \in Manager /\ current = 1
  BY ModelSlotsAssumption DEF Init, Manager
<1>3. Limits(c) \in [Model -> Nat]
  BY LimitsType DEF Limits
<1>4. TypeOK
  <2>1. /\ config \in [Manager -> Configs] /\ current \in Manager /\ high \in BOOLEAN
        /\ free \in [Manager -> [Model -> Nat]]
    BY <1>1, <1>2, <1>3 DEF Init
  <2>2. /\ line \in [Turn -> Seq(Turn)] /\ cache \in [Session -> Turn \cup {None}]
        /\ runner \in [Turn -> Turn \cup {None}] /\ stray \subseteq Turn
        /\ queue \in [Manager -> [Model -> Seq(Turn)]]
    BY DEF Init
  <2>3. /\ started \in 0 .. MaxTurns /\ session \in [Turn -> Session \cup {None}]
        /\ phase \in [Turn -> Phase] /\ manager \in [Turn -> Manager \cup {None}]
        /\ asked \in [Turn -> Turn \cup {None}]
    BY ModelSlotsAssumption DEF Init, Phase
  <2> QED BY <2>1, <2>2, <2>3 DEF TypeOK
<1>5. \A u \in Turn : phase[u] = "none" /\ u > started
  BY DEF Init, Turn
<1>6. Order
  <2>1. \A r \in Turn : Distinct(line[r]) /\ Elements(line[r]) = {}
    BY DEF Init, Distinct, Elements
  <2>2. \A u \in Turn : ~ (u <= started)
    BY <1>5, <1>4, TurnNumbers
  <2>3. Cached
    BY DEF Init, Cached
  <2> QED BY <1>5, <2>1, <2>2, <2>3, Phases DEF Order, Numbered, Lined, InFront
<1>7. \A g \in Manager, m \in Model : Distinct(queue[g][m]) /\ Elements(queue[g][m]) = {} /\ queue[g][m] = <<>>
  BY DEF Init, Distinct, Elements
<1>8. Managed /\ Queued /\ NoIdleSlot
  BY <1>5, <1>7 DEF Managed, Queued, NoIdleSlot, PastLock, Holding
<1>9. SlotsConserved
  <2> SUFFICES ASSUME NEW g \in 1 .. current, NEW m \in Model
               PROVE  Cardinality(Callers(g, m)) + free[g][m] = LimitFor(config[g], m)
    BY DEF SlotsConserved
  <2>1. g \in Manager
    BY <1>2
  <2>2. Callers(g, m) = {}
    BY <1>5 DEF Callers, Holding
  <2>3. free[g][m] = LimitFor(c, m) /\ config[g] = c /\ LimitFor(c, m) \in Nat
    BY <1>1, <2>1, LimitsType
  <2> QED BY <2>2, <2>3, FS_EmptySet
<1> QED BY <1>4, <1>6, <1>8, <1>9 DEF IInv, Slots

---------------------------------------------------------------------------
(* Theorems.                                                               *)

\* The invariant is inductive.
THEOREM Inductive == Spec => []IInv
<1>1. IInv /\ [Next]_vars => IInv'
  BY TypeNext, OrderNext, SlotsNext DEF IInv
<1> QED BY InitIInv, <1>1, PTL DEF Spec

\* The variables stay in their ranges (acquire, _run_lock, sessions_send).
THEOREM TypeCorrect == Spec => []TypeOK
<1>1. IInv => TypeOK
  BY DEF IInv
<1> QED BY Inductive, <1>1, PTL

\* The run lock of a runner keeps its turns apart, through waits, questions to other sessions,
\* failures, cancellations and reloads: turns of a session overlap only beside an evicted runner.
THEOREM TurnsOverlapOnlyAfterEviction == Spec => []OneTurnAtATime
<1>1. IInv => OneTurnAtATime
  BY OneAtALock DEF IInv
<1> QED BY Inductive, <1>1, PTL

\* No slot of a semaphore is lost or made up.
THEOREM SlotsAreKept == Spec => []SlotsConserved
<1>1. IInv => SlotsConserved
  BY DEF IInv, Slots
<1> QED BY Inductive, <1>1, PTL

\* Nobody waits for a slot that is free.
THEOREM NoSlotIsIdle == Spec => []NoIdleSlot
<1>1. IInv => NoIdleSlot
  BY DEF IInv, Slots
<1> QED BY Inductive, <1>1, PTL

\* Behind every turn that has not ended is one that can go on.
LEMMA SomebodyGoesOn ==
    ASSUME IInv
    PROVE  NobodyStuck
<1> SUFFICES ASSUME NEW t \in Turn, phase[t] \in Lining
             PROVE  LET u == Head(line[runner[t]]) IN
                    \/ phase[u] \in {"lining"} \cup Holding
                    \/ phase[u] = "waiting" /\ Callers(manager[u], ModelOfTurn(u)) # {}
  BY DEF NobodyStuck, Lining
<1>1. TypeOK /\ Order /\ Lined /\ Managed /\ Queued /\ NoIdleSlot /\ SlotsConserved
  BY DEF IInv, Order, Slots
<1>2. runner[t] \in Turn /\ t \in Elements(line[runner[t]])
  <2>1. runner[t] \in Turn
    BY <1>1, Begun, Phases
  <2> QED BY <1>1, <2>1 DEF Lined
<1>3. PICK q \in Seq(Turn) : q = line[runner[t]]
  BY <1>1, <1>2 DEF TypeOK
<1>4. PICK u \in Turn : u = Head(q) /\ u \in Elements(q)
  BY <1>2, <1>3 DEF Elements
<1>5. phase[u] \in Lining /\ session[u] \in Session
  <2>1. phase[u] \in Lining
    BY <1>1, <1>2, <1>3, <1>4 DEF Lined
  <2> QED BY <1>1, <2>1, Begun, Phases
<1>6. ASSUME phase[u] = "waiting"
      PROVE  Callers(manager[u], ModelOfTurn(u)) # {}
  <2>1. manager[u] \in 1 .. current /\ current \in Manager
    BY <1>1, <1>6 DEF Managed, PastLock, TypeOK
  <2>2. PICK g \in Manager : g = manager[u] /\ g \in 1 .. current
    BY <2>1, ModelSlotsAssumption DEF Manager
  <2>3. PICK m \in Model : m = ModelOfTurn(u)
    BY <1>5, ModelSlotsAssumption DEF ModelOfTurn
  <2>4. u \in Elements(queue[g][m])
    BY <1>1, <1>6, <2>2, <2>3 DEF Queued
  <2>5. queue[g][m] # <<>>
    BY <2>4 DEF Elements
  <2>6. free[g][m] = 0
    BY <1>1, <2>5 DEF NoIdleSlot
  <2>7. Cardinality(Callers(g, m)) + 0 = LimitFor(config[g], m)
    BY <1>1, <2>2, <2>6 DEF SlotsConserved
  <2>8. LimitFor(config[g], m) \in Nat \ {0}
    <3>1. config[g] \in [limits : [Model -> Nat], default : Nat \ {0}]
      BY <1>1, ModelSlotsAssumption DEF TypeOK
    <3>2. Base[m] \in Model
      BY ModelSlotsAssumption
    <3> QED BY <3>1, <3>2 DEF LimitFor
  <2>9. Callers(g, m) # {}
    <3> SUFFICES ASSUME Callers(g, m) = {} PROVE FALSE
      OBVIOUS
    <3> QED BY <2>7, <2>8, FS_EmptySet
  <2> QED BY <2>2, <2>3, <2>9
<1> QED BY <1>3, <1>4, <1>5, <1>6, Phases

\* The run locks and the semaphores never make turns wait for each other in a circle: who
\* waits for one of them waits in the end for a turn that has both.
THEOREM NobodyIsStuck == Spec => []NobodyStuck
<1>1. IInv => NobodyStuck
  BY SomebodyGoesOn
<1> QED BY Inductive, <1>1, PTL

\* The documented promise of the limits, where it holds: while the limits are not edited and no
\* two agents spell one model in two ways, whatever calls of a model are under way beyond its
\* limit are streamed calls whose turns have been cancelled or have failed.
THEOREM LimitHolds ==
    ASSUME MaxManagers = 1, \A a, b \in Model : Base[a] = Base[b] => a = b
    PROVE  Spec => []AwaitedWithinLimit
<1>1. ASSUME IInv PROVE AwaitedWithinLimit
  <2> SUFFICES ASSUME NEW m \in Model
               PROVE  Cardinality(CallsOf(m) \ stray) <= LimitFor(config[current], m)
    BY DEF AwaitedWithinLimit
  <2>1. TypeOK /\ Order /\ Managed /\ SlotsConserved
    BY <1>1 DEF IInv, Slots
  <2>2. current = 1 /\ 1 \in 1 .. current /\ 1 \in Manager
    BY <2>1 DEF TypeOK, Manager
  <2>3. ASSUME NEW t \in Turn, phase[t] \in Holding
        PROVE  manager[t] = 1 /\ ModelOfTurn(t) \in Model
    <3>1. manager[t] = 1
      BY <2>1, <2>2, <2>3 DEF Managed, PastLock
    <3> QED BY <2>1, <2>3, <3>1, Begun, Phases
  <2>4. CallsOf(m) \ stray \subseteq Callers(1, m)
    BY <2>3 DEF CallsOf, Callers
  <2>5. Cardinality(Callers(1, m)) + free[1][m] = LimitFor(config[1], m)
    BY <2>1, <2>2 DEF SlotsConserved
  <2>6. /\ free[1][m] \in Nat /\ Cardinality(Callers(1, m)) \in Nat
        /\ Cardinality(CallsOf(m) \ stray) \in Nat
        /\ Cardinality(CallsOf(m) \ stray) <= Cardinality(Callers(1, m))
    BY <2>1, <2>2, <2>4, CallersFinite, FS_Subset, FS_CardinalityType DEF TypeOK
  <2>7. PICK n \in Nat, f \in Nat, k \in Nat :
           n = Cardinality(Callers(1, m)) /\ f = free[1][m] /\ k = Cardinality(CallsOf(m) \ stray) /\ k <= n
    BY <2>6
  <2>8. LimitFor(config[current], m) = n + f
    BY <2>2, <2>5, <2>7, Zenon
  <2>9. k <= n + f
    BY <2>7
  <2> QED BY <2>7, <2>8, <2>9, Zenon
<1> QED BY Inductive, <1>1, PTL
=============================================================================
