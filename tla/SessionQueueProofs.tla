------------------------ MODULE SessionQueueProofs ------------------------
(***************************************************************************)
(* Proofs about SessionQueue for every number of messages, every choice of *)
(* modes, caps and drop policies, and any number of /stop commands and     *)
(* reconfigurations.                                                       *)
(***************************************************************************)
EXTENDS SessionQueue, SequenceTheorems, TLAPS

---------------------------------------------------------------------------
(* The elements of the sequences the queue is made of.                     *)

\* Appending adds one element.
LEMMA ElemsAppend ==
    ASSUME NEW s \in Seq(Msg), NEW m \in Msg
    PROVE  /\ Append(s, m) \in Seq(Msg)
           /\ Elems(Append(s, m)) = Elems(s) \cup {m}
BY DEF Elems

\* Concatenation joins the elements.
LEMMA ElemsConcat ==
    ASSUME NEW s \in Seq(Msg), NEW t \in Seq(Msg)
    PROVE  /\ s \o t \in Seq(Msg)
           /\ Elems(s \o t) = Elems(s) \cup Elems(t)
<1>1. s \o t \in Seq(Msg)
  OBVIOUS
<1>2. Elems(s \o t) \subseteq Elems(s) \cup Elems(t)
  <2> SUFFICES ASSUME NEW i \in 1 .. Len(s \o t)
               PROVE  (s \o t)[i] \in Elems(s) \cup Elems(t)
    BY DEF Elems
  <2>1. CASE i <= Len(s)
    BY <2>1 DEF Elems
  <2>2. CASE i > Len(s)
    <3>1. i - Len(s) \in 1 .. Len(t) /\ (s \o t)[i] = t[i - Len(s)]
      BY <2>2
    <3> QED BY <3>1 DEF Elems
  <2> QED BY <2>1, <2>2
<1>3. Elems(s) \subseteq Elems(s \o t)
  BY DEF Elems
<1>4. ASSUME NEW j \in 1 .. Len(t)
      PROVE  t[j] \in Elems(s \o t)
  <2>1. j + Len(s) \in 1 .. Len(s \o t) /\ (s \o t)[j + Len(s)] = t[j]
    OBVIOUS
  <2> QED BY <2>1 DEF Elems
<1> QED BY <1>1, <1>2, <1>3, <1>4 DEF Elems

\* Splitting a queue loses and adds nothing.
LEMMA ElemsSplit ==
    ASSUME NEW s \in Seq(Msg), NEW n \in 1 .. Len(s)
    PROVE  /\ SubSeq(s, 1, n) \in Seq(Msg)
           /\ SubSeq(s, n + 1, Len(s)) \in Seq(Msg)
           /\ SubSeq(s, 1, n) # <<>>
           /\ Elems(s) = Elems(SubSeq(s, 1, n)) \cup Elems(SubSeq(s, n + 1, Len(s)))
<1> DEFINE a == SubSeq(s, 1, n)
           b == SubSeq(s, n + 1, Len(s))
<1>1. /\ a \in Seq(Msg) /\ Len(a) = n
      /\ \A i \in 1 .. n : a[i] = s[i]
  OBVIOUS
<1>2. /\ b \in Seq(Msg) /\ Len(b) = Len(s) - n
      /\ \A i \in 1 .. Len(s) - n : b[i] = s[i + n]
  OBVIOUS
<1>3. a # <<>>
  BY <1>1
<1>4. Elems(a) \cup Elems(b) \subseteq Elems(s)
  BY <1>1, <1>2 DEF Elems
<1>5. Elems(s) \subseteq Elems(a) \cup Elems(b)
  <2> SUFFICES ASSUME NEW i \in 1 .. Len(s)
               PROVE  s[i] \in Elems(a) \cup Elems(b)
    BY DEF Elems
  <2>1. CASE i <= n
    BY <2>1, <1>1 DEF Elems
  <2>2. CASE i > n
    <3>1. i - n \in 1 .. Len(b) /\ b[i - n] = s[i]
      BY <2>2, <1>2
    <3> QED BY <3>1 DEF Elems
  <2> QED BY <2>1, <2>2
<1> QED BY <1>1, <1>2, <1>3, <1>4, <1>5

\* Evicting the oldest message loses that one only.
LEMMA ElemsTail ==
    ASSUME NEW s \in Seq(Msg), s # <<>>
    PROVE  /\ Head(s) \in Msg
           /\ Tail(s) \in Seq(Msg)
           /\ Elems(s) = {Head(s)} \cup Elems(Tail(s))
<1>1. Head(s) \in Msg /\ Tail(s) \in Seq(Msg) /\ Len(s) \in Nat /\ Len(s) >= 1
  OBVIOUS
<1>2. Len(Tail(s)) = Len(s) - 1 /\ \A i \in 1 .. Len(s) - 1 : Tail(s)[i] = s[i + 1]
  OBVIOUS
<1>3. Elems(Tail(s)) \cup {Head(s)} \subseteq Elems(s)
  BY <1>1, <1>2 DEF Elems
<1>4. Elems(s) \subseteq {Head(s)} \cup Elems(Tail(s))
  <2> SUFFICES ASSUME NEW i \in 1 .. Len(s)
               PROVE  s[i] \in {Head(s)} \cup Elems(Tail(s))
    BY DEF Elems
  <2>1. CASE i = 1
    BY <2>1
  <2>2. CASE i > 1
    <3>1. i - 1 \in 1 .. Len(Tail(s)) /\ Tail(s)[i - 1] = s[i]
      BY <2>2, <1>2
    <3> QED BY <3>1 DEF Elems
  <2> QED BY <2>1, <2>2
<1> QED BY <1>1, <1>3, <1>4

\* The empty queue and the queue of one.
LEMMA ElemsSmall ==
    /\ <<>> \in Seq(Msg) /\ Elems(<<>>) = {}
    /\ \A m \in Msg : <<m>> \in Seq(Msg) /\ Elems(<<m>>) = {m}
BY DEF Elems

\* The elements of a sequence of messages are messages.
LEMMA ElemsAreMsgs == ASSUME NEW s \in Seq(Msg) PROVE Elems(s) \subseteq Msg
BY DEF Elems

---------------------------------------------------------------------------
(* Type correctness.                                                       *)

\* Settling futures keeps the function of futures well typed.
LEMMA SettleType ==
    ASSUME NEW fs \in [Msg -> FutureState], NEW S, NEW a \in FutureState
    PROVE  Settle(fs, S, a) \in [Msg -> FutureState]
BY DEF Settle

\* What one iteration takes is a non-empty prefix of the queue.
LEMMA TakeCountType ==
    ASSUME TypeOK, queue # <<>>
    PROVE  TakeCount \in 1 .. Len(queue)
<1>1. Len(queue) \in Nat /\ Len(queue) >= 1
  BY DEF TypeOK
<1> QED BY <1>1 DEF TakeCount

\* One step of the program keeps every variable in its range.
LEMMA TypeStep == TypeOK /\ [Next]_vars => TypeOK'
<1> SUFFICES ASSUME TypeOK, [Next]_vars PROVE TypeOK'
  OBVIOUS
<1> USE SQAssumption, ElemsSmall
<1>1. ASSUME NEW m \in Msg, Enqueue(m) PROVE TypeOK'
  <2>1. m = arrived + 1 /\ arrived' \in 0 .. MaxMsgs
    BY <1>1 DEF Enqueue, TypeOK, Msg
  <2>2. Append(queue, m) \in Seq(Msg)
    BY ElemsAppend DEF TypeOK
  <2>3. [future EXCEPT ![m] = "pending"] \in [Msg -> FutureState]
    BY DEF TypeOK, FutureState
  <2>4. CASE EnqueueInterrupt(m)
    <3>1. future' \in [Msg -> FutureState]
      BY <2>4, <2>3, SettleType DEF EnqueueInterrupt, FutureState
    <3> QED BY <1>1, <2>1, <2>4, <3>1
        DEF Enqueue, EnqueueInterrupt, Admit, CancelCurrent, TypeOK, config
  <2>5. CASE EnqueueSteer(m)
    BY <1>1, <2>1, <2>2, <2>3, <2>5
    DEF Enqueue, EnqueueSteer, Admit, CancelCurrent, TypeOK, config
  <2>6. CASE EnqueueBacklog(m)
    BY <1>1, <2>1, <2>2, <2>3, <2>6 DEF Enqueue, EnqueueBacklog, Admit, TypeOK, config
  <2>7. CASE EnqueueCapped(m)
    BY <1>1, <2>1, <2>2, <2>3, <2>7 DEF Enqueue, EnqueueCapped, Admit, TypeOK, config
  <2>8. CASE RefuseNew(m)
    BY <1>1, <2>1, <2>8 DEF Enqueue, RefuseNew, TypeOK, config, FutureState
  <2>9. CASE EvictOldest(m)
    <3>1. Append(Tail(queue), m) \in Seq(Msg)
      BY <2>9, ElemsTail, ElemsAppend DEF EvictOldest, TypeOK
    <3>2. future' \in [Msg -> FutureState]
      BY <2>9, <2>3, SettleType DEF EvictOldest, FutureState
    <3> QED BY <1>1, <2>1, <2>9, <3>1, <3>2 DEF Enqueue, EvictOldest, Admit, TypeOK, config
  <2>10. CASE EnqueueRaises(m)
    BY <1>1, <2>1, <2>10 DEF Enqueue, EnqueueRaises, TypeOK, config, FutureState
  <2> QED BY <1>1, <2>4, <2>5, <2>6, <2>7, <2>8, <2>9, <2>10 DEF Enqueue
<1>2. CASE DrainTake
  <2>1. TakeCount \in 1 .. Len(queue)
    BY <1>2, TakeCountType DEF DrainTake
  <2>2. /\ batch' \in Seq(Msg) /\ inflight' \in Seq(Msg) /\ queue' \in Seq(Msg)
    BY <1>2, <2>1, ElemsSplit DEF DrainTake, TypeOK
  <2>3. sent' \in [Msg -> Nat]
    BY <1>2 DEF DrainTake, TypeOK
  <2> QED BY <1>2, <2>2, <2>3 DEF DrainTake, TypeOK, config, CallState
<1>3. CASE DrainBreak
  BY <1>3 DEF DrainBreak, TypeOK, config, counters
<1>4. CASE DrainKilled
  BY <1>4 DEF DrainKilled, TypeOK, config, counters
<1>5. CASE DrainResume
  <2>1. future' \in [Msg -> FutureState]
    BY <1>5, SettleType DEF DrainResume, FutureState, TypeOK
  <2> QED BY <1>5, <2>1 DEF DrainResume, ClearCurrent, TypeOK, config, counters, CallState
<1>6. CASE DrainReinsert
  <2>1. inflight \o queue \in Seq(Msg)
    BY ElemsConcat DEF TypeOK
  <2> QED BY <1>6, <2>1 DEF DrainReinsert, ClearCurrent, TypeOK, config, counters, CallState
<1>7. CASE DrainCancelBatch
  <2>1. future' \in [Msg -> FutureState]
    BY <1>7, SettleType DEF DrainCancelBatch, FutureState, TypeOK
  <2> QED BY <1>7, <2>1 DEF DrainCancelBatch, ClearCurrent, TypeOK, config, counters, CallState
<1>8. CASE DispatchEnds
  BY <1>8 DEF DispatchEnds, TypeOK, config, counters, CallState
<1>9. ASSUME NEW m \in Msg, CallerReturns(m) PROVE TypeOK'
  BY <1>9 DEF CallerReturns, TypeOK, config, counters, loop
<1>10. ASSUME NEW m \in Msg, CallerCancelled(m) PROVE TypeOK'
  BY <1>10 DEF CallerCancelled, TypeOK, config, counters, loop, FutureState
<1>11. CASE Stop
  <2>1. drainCancel' \in BOOLEAN /\ currentCancel' \in BOOLEAN
    BY <1>11, Zenon DEF Stop, TypeOK
  <2>2. stops' \in 0 .. MaxStops
    BY <1>11 DEF Stop, TypeOK
  <2> QED BY <1>11, <2>1, <2>2 DEF Stop, TypeOK, config, loop
<1>12. CASE UpdateConfig
  <2>1. mode' \in QueueMode /\ cap' \in Nat /\ drop' \in DropPolicy
    BY <1>12 DEF UpdateConfig
  <2>2. configs' \in 0 .. MaxConfigs
    BY <1>12 DEF UpdateConfig, TypeOK
  <2> QED BY <1>12, <2>1, <2>2 DEF UpdateConfig, TypeOK, loop
<1>13. CASE UNCHANGED vars
  BY <1>13 DEF vars, TypeOK, config, counters, loop
<1> QED
  BY <1>1, <1>2, <1>3, <1>4, <1>5, <1>6, <1>7, <1>8, <1>9, <1>10, <1>11, <1>12, <1>13
  DEF Next, Drain

\* Every variable of the queue stays in its range, whatever the configuration.
THEOREM TypeCorrect == Spec => []TypeOK
<1>1. Init => TypeOK
  <2> SUFFICES ASSUME Init PROVE TypeOK
    OBVIOUS
  <2>1. mode \in QueueMode /\ cap \in Nat /\ drop \in DropPolicy
    BY SQAssumption DEF Init
  <2>2. queue \in Seq(Msg) /\ inflight \in Seq(Msg) /\ batch \in Seq(Msg)
    BY ElemsSmall DEF Init
  <2>3. /\ label \in BOOLEAN /\ active \in BOOLEAN
        /\ drainCancel \in BOOLEAN /\ currentCancel \in BOOLEAN
    BY Zenon DEF Init
  <2>4. arrived \in 0 .. MaxMsgs /\ configs \in 0 .. MaxConfigs /\ stops \in 0 .. MaxStops
    BY SQAssumption DEF Init
  <2>5. /\ future \in [Msg -> FutureState]
        /\ caller \in [Msg -> {"away", "waiting", "returned"}]
        /\ drain \in {"idle", "asleep", "awaiting"} /\ current \in CallState
        /\ sent \in [Msg -> Nat]
    BY DEF Init, FutureState, CallState
  <2> QED BY <2>1, <2>2, <2>3, <2>4, <2>5, Zenon DEF TypeOK
<1> QED BY <1>1, TypeStep, PTL DEF Spec

---------------------------------------------------------------------------
(* Messages are worked on in arrival order.                                *)

\* A later message extends an increasing sequence.
LEMMA IncreasingAppend ==
    ASSUME NEW s \in Seq(Msg), NEW m \in Msg, Increasing(s), \A a \in Elems(s) : a < m
    PROVE  Increasing(Append(s, m))
<1> SUFFICES ASSUME NEW i \in 1 .. Len(Append(s, m)), NEW j \in 1 .. Len(Append(s, m)), i < j
             PROVE  Append(s, m)[i] < Append(s, m)[j]
  BY DEF Increasing
<1>1. i \in 1 .. Len(s) /\ Append(s, m)[i] = s[i] /\ s[i] \in Elems(s)
  BY DEF Elems
<1>2. CASE j \in 1 .. Len(s)
  BY <1>1, <1>2 DEF Increasing
<1>3. CASE j = Len(s) + 1
  BY <1>1, <1>3
<1> QED BY <1>2, <1>3

\* Two increasing sequences, the first below the second, join to one.
LEMMA IncreasingConcat ==
    ASSUME NEW s \in Seq(Msg), NEW t \in Seq(Msg), Increasing(s), Increasing(t),
           \A a \in Elems(s), b \in Elems(t) : a < b
    PROVE  Increasing(s \o t)
<1> SUFFICES ASSUME NEW i \in 1 .. Len(s \o t), NEW j \in 1 .. Len(s \o t), i < j
             PROVE  (s \o t)[i] < (s \o t)[j]
  BY DEF Increasing
<1>1. CASE j <= Len(s)
  BY <1>1 DEF Increasing
<1>2. CASE i > Len(s)
  <2>1. /\ i - Len(s) \in 1 .. Len(t) /\ (s \o t)[i] = t[i - Len(s)]
        /\ j - Len(s) \in 1 .. Len(t) /\ (s \o t)[j] = t[j - Len(s)]
    BY <1>2
  <2> QED BY <2>1 DEF Increasing
<1>3. CASE i <= Len(s) /\ j > Len(s)
  <2>1. /\ i \in 1 .. Len(s) /\ (s \o t)[i] = s[i]
        /\ j - Len(s) \in 1 .. Len(t) /\ (s \o t)[j] = t[j - Len(s)]
    BY <1>3
  <2>2. s[i] \in Elems(s) /\ t[j - Len(s)] \in Elems(t)
    BY <2>1 DEF Elems
  <2> QED BY <2>1, <2>2
<1> QED BY <1>1, <1>2, <1>3

\* Both parts of a split increasing sequence increase, the first below the second.
LEMMA IncreasingSplit ==
    ASSUME NEW s \in Seq(Msg), NEW n \in 1 .. Len(s), Increasing(s)
    PROVE  /\ Increasing(SubSeq(s, 1, n)) /\ Increasing(SubSeq(s, n + 1, Len(s)))
           /\ \A a \in Elems(SubSeq(s, 1, n)), b \in Elems(SubSeq(s, n + 1, Len(s))) : a < b
<1> DEFINE p == SubSeq(s, 1, n)
           q == SubSeq(s, n + 1, Len(s))
<1>1. /\ Len(p) = n
      /\ \A i \in 1 .. n : p[i] = s[i]
  OBVIOUS
<1>2. /\ Len(q) = Len(s) - n
      /\ \A i \in 1 .. Len(s) - n : q[i] = s[i + n]
  OBVIOUS
<1>3. Increasing(p)
  BY <1>1 DEF Increasing
<1>4. Increasing(q)
  BY <1>2 DEF Increasing
<1>5. ASSUME NEW a \in Elems(p), NEW b \in Elems(q) PROVE a < b
  <2>1. PICK i \in 1 .. n : a = s[i]
    BY <1>1 DEF Elems
  <2>2. PICK j \in 1 .. Len(s) - n : b = s[j + n]
    BY <1>2 DEF Elems
  <2>3. i \in 1 .. Len(s) /\ j + n \in 1 .. Len(s) /\ i < j + n
    OBVIOUS
  <2> QED BY <2>1, <2>2, <2>3 DEF Increasing
<1> QED BY <1>3, <1>4, <1>5

\* Without its oldest message an increasing queue increases.
LEMMA IncreasingTail ==
    ASSUME NEW s \in Seq(Msg), s # <<>>, Increasing(s)
    PROVE  Increasing(Tail(s))
<1>1. Len(Tail(s)) = Len(s) - 1 /\ \A i \in 1 .. Len(s) - 1 : Tail(s)[i] = s[i + 1]
  OBVIOUS
<1> QED BY <1>1 DEF Increasing

\* Queues of no or of one message are in order.
LEMMA IncreasingSmall == Increasing(<<>>) /\ \A m \in Msg : Increasing(<<m>>)
BY DEF Increasing

\* A newly arrived message, in any mode and with any drop policy, keeps the order.
LEMMA EnqueueKeepsOrder ==
    ASSUME TypeOK, OrderInv, NEW m \in Msg, Enqueue(m)
    PROVE  OrderInv'
<1> USE ElemsSmall, IncreasingSmall
<1>1. /\ m > arrived /\ arrived' = m /\ arrived \in Nat /\ m \in Nat
      /\ batch' = batch
  BY DEF Enqueue, TypeOK
<1>2. /\ queue \in Seq(Msg) /\ inflight \in Seq(Msg)
      /\ Elems(queue) \subseteq Nat /\ Elems(batch) \subseteq Nat
  BY ElemsAreMsgs DEF TypeOK, Msg
<1>3. \A a \in Elems(queue) \cup Elems(batch) : a < m
  BY <1>1, <1>2 DEF OrderInv
<1>4. CASE EnqueueInterrupt(m)
  <2>1. queue' = <<m>> /\ inflight' = <<>>
    BY <1>4 DEF EnqueueInterrupt
  <2> QED BY <1>1, <1>2, <1>3, <2>1 DEF OrderInv
<1>5. CASE EnqueueSteer(m) \/ EnqueueBacklog(m) \/ EnqueueCapped(m)
  <2>1. queue' = Append(queue, m) /\ inflight' = inflight
    BY <1>5 DEF EnqueueSteer, EnqueueBacklog, EnqueueCapped
  <2>2. Elems(queue') = Elems(queue) \cup {m}
    BY <1>2, <2>1, ElemsAppend
  <2>3. Increasing(queue')
    BY <1>2, <1>3, <2>1, IncreasingAppend DEF OrderInv
  <2> QED BY <1>1, <1>2, <1>3, <2>1, <2>2, <2>3 DEF OrderInv
<1>6. CASE RefuseNew(m) \/ EnqueueRaises(m)
  <2>1. queue' = queue /\ inflight' = inflight
    BY <1>6 DEF RefuseNew, EnqueueRaises
  <2> QED BY <1>1, <1>2, <1>3, <2>1 DEF OrderInv
<1>7. CASE EvictOldest(m)
  <2>1. queue # <<>> /\ queue' = Append(Tail(queue), m) /\ inflight' = inflight
    BY <1>7 DEF EvictOldest
  <2>2. /\ Tail(queue) \in Seq(Msg) /\ Elems(Tail(queue)) \subseteq Elems(queue)
        /\ Elems(queue') = Elems(Tail(queue)) \cup {m}
    BY <1>2, <2>1, ElemsTail, ElemsAppend
  <2>3. Increasing(Tail(queue))
    BY <1>2, <2>1, IncreasingTail DEF OrderInv
  <2>4. Increasing(queue')
    BY <1>3, <2>1, <2>2, <2>3, IncreasingAppend
  <2> QED BY <1>1, <1>2, <1>3, <2>1, <2>2, <2>4 DEF OrderInv
<1> QED BY <1>4, <1>5, <1>6, <1>7 DEF Enqueue

\* Every step keeps the messages in flight and the queue in arrival order.
LEMMA OrderStep == TypeOK /\ OrderInv /\ [Next]_vars => OrderInv'
<1> SUFFICES ASSUME TypeOK, OrderInv, [Next]_vars PROVE OrderInv'
  OBVIOUS
<1> USE ElemsSmall, IncreasingSmall
<1>1. CASE DrainTake
  <2>1. TakeCount \in 1 .. Len(queue) /\ queue \in Seq(Msg)
    BY <1>1, TakeCountType DEF DrainTake, TypeOK
  <2>2. /\ batch' = SubSeq(queue, 1, TakeCount) /\ inflight' = SubSeq(queue, 1, TakeCount)
        /\ queue' = SubSeq(queue, TakeCount + 1, Len(queue))
        /\ arrived' = arrived
    BY <1>1 DEF DrainTake, counters
  <2>3. /\ Elems(queue) = Elems(batch') \cup Elems(queue')
        /\ queue' \in Seq(Msg) /\ batch' \in Seq(Msg)
    BY <2>1, <2>2, ElemsSplit
  <2>4. /\ Increasing(inflight') /\ Increasing(queue')
        /\ \A a \in Elems(inflight'), b \in Elems(queue') : a < b
    BY <2>1, <2>2, IncreasingSplit DEF OrderInv
  <2>5. Elems(batch') \cap Elems(queue') = {}
    <3>1. Elems(queue') \subseteq Nat
      BY <2>3, ElemsAreMsgs DEF Msg
    <3> QED BY <3>1, <2>2, <2>4
  <2> QED BY <2>2, <2>3, <2>4, <2>5 DEF OrderInv
<1>2. CASE DrainReinsert
  <2>1. /\ queue' = inflight \o queue /\ inflight' = <<>> /\ batch' = <<>> /\ arrived' = arrived
    BY <1>2 DEF DrainReinsert, ClearCurrent, counters
  <2>2. Elems(queue') = Elems(inflight) \cup Elems(queue)
    BY <2>1, ElemsConcat DEF TypeOK
  <2>3. Increasing(queue')
    BY <2>1, IncreasingConcat DEF OrderInv, TypeOK
  <2> QED BY <2>1, <2>2, <2>3 DEF OrderInv
<1>3. ASSUME queue' = queue, inflight' = <<>>, batch' = <<>>, arrived' = arrived
      PROVE  OrderInv'
  BY <1>3 DEF OrderInv
<1>4. CASE DrainResume
  BY <1>3, <1>4 DEF DrainResume, ClearCurrent, counters
<1>5. CASE DrainCancelBatch
  BY <1>3, <1>5 DEF DrainCancelBatch, ClearCurrent, counters
<1>6. ASSUME UNCHANGED <<queue, inflight, batch, arrived>> PROVE OrderInv'
  BY <1>6 DEF OrderInv
<1>7. CASE DrainBreak \/ DrainKilled \/ DispatchEnds
  BY <1>6, <1>7 DEF DrainBreak, DrainKilled, DispatchEnds, counters
<1>8. CASE \E m \in Msg : CallerReturns(m) \/ CallerCancelled(m)
  BY <1>6, <1>8 DEF CallerReturns, CallerCancelled, loop, counters
<1>9. CASE Stop \/ UpdateConfig \/ UNCHANGED vars
  BY <1>6, <1>9 DEF Stop, UpdateConfig, vars, loop, counters
<1> QED BY <1>1, <1>2, <1>4, <1>5, <1>7, <1>8, <1>9, EnqueueKeepsOrder DEF Next, Drain

\* The order holds in every reachable state.
LEMMA OrderCorrect == Spec => []OrderInv
<1>1. Init => OrderInv
  BY ElemsSmall, IncreasingSmall DEF Init, OrderInv
<1> QED BY <1>1, OrderStep, TypeCorrect, PTL DEF Spec

\* The messages in flight, then the queue, are in order of arrival and none occurs
\* twice: a re-insertion, an eviction or a change of mode never reorders or
\* duplicates a message.
THEOREM ArrivalOrder == Spec => []InArrivalOrder
<1>1. TypeOK /\ OrderInv => InArrivalOrder
  BY IncreasingConcat DEF OrderInv, TypeOK, InArrivalOrder
<1> QED BY <1>1, TypeCorrect, OrderCorrect, PTL

---------------------------------------------------------------------------
(* No message is lost.                                                     *)

\* What Settle does to one future.
LEMMA SettleAt ==
    ASSUME NEW fs \in [Msg -> FutureState], NEW S, NEW a \in FutureState, NEW m \in Msg
    PROVE  Settle(fs, S, a)[m] = IF m \in S /\ fs[m] = "pending" THEN a ELSE fs[m]
BY DEF Settle

\* An arriving message is new, and later ones stay so.
LEMMA ArrivalIsNew ==
    ASSUME TypeOK, OrderInv, HeldInv, NEW m \in Msg, Enqueue(m)
    PROVE  /\ future[m] = "new"
           /\ m \notin Elems(queue) /\ m \notin Elems(batch) /\ m \notin Elems(inflight)
           /\ \A k \in Msg : k > arrived' => k # m /\ k > arrived
<1>1. m = arrived + 1 /\ arrived' = m /\ arrived \in Nat
  BY DEF Enqueue, TypeOK
<1>2. future[m] = "new"
  BY <1>1 DEF HeldInv, Msg
<1>3. m \notin Elems(queue) /\ m \notin Elems(batch) /\ m \notin Elems(inflight)
  BY <1>2 DEF HeldInv, OrderInv
<1>4. \A k \in Msg : k > arrived' => k # m /\ k > arrived
  BY <1>1 DEF Msg
<1> QED BY <1>2, <1>3, <1>4

\* An arrival leaves no waiting message outside queue and call, evictions included.
LEMMA EnqueueKeepsHeld ==
    ASSUME TypeOK, TypeOK', OrderInv, HeldInv, NEW m \in Msg, Enqueue(m)
    PROVE  HeldInv'
<1> USE ElemsSmall
<1>1. /\ future[m] = "new"
      /\ m \notin Elems(queue) /\ m \notin Elems(batch) /\ m \notin Elems(inflight)
      /\ \A k \in Msg : k > arrived' => k # m /\ k > arrived
  BY ArrivalIsNew
<1>2. /\ queue \in Seq(Msg) /\ future \in [Msg -> FutureState]
      /\ [future EXCEPT ![m] = "pending"] \in [Msg -> FutureState]
      /\ Elems(queue) \subseteq Msg /\ Elems(batch) \subseteq Msg
      /\ Elems(inflight) \subseteq Msg
  BY ElemsAreMsgs DEF TypeOK, FutureState
<1>3. Elems(Append(queue, m)) = Elems(queue) \cup {m}
  BY <1>2, ElemsAppend
<1>4. batch' = batch /\ current' = current
  BY DEF Enqueue
<1>5. drain' = "awaiting" <=> drain = "awaiting"
  BY DEF Enqueue, EnqueueInterrupt, EnqueueSteer, EnqueueBacklog, EnqueueCapped, RefuseNew,
         EvictOldest, EnqueueRaises, Admit
<1>6. CASE EnqueueInterrupt(m)
  <2>1. queue' = <<m>> /\ inflight' = <<>>
    BY <1>6 DEF EnqueueInterrupt
  <2>2. \A k \in Msg : future'[k] = IF k = m THEN "pending"
                         ELSE IF k \in Elems(queue) \cup Elems(inflight) /\ future[k] = "pending"
                         THEN "cancelled" ELSE future[k]
    <3>1. future' = Settle([future EXCEPT ![m] = "pending"],
                           Elems(queue) \cup Elems(inflight), "cancelled")
      BY <1>6 DEF EnqueueInterrupt
    <3>2. "cancelled" \in FutureState
      BY DEF FutureState
    <3>3. TAKE k \in Msg
    <3>4. [future EXCEPT ![m] = "pending"][k] = IF k = m THEN "pending" ELSE future[k]
      BY <1>2
    <3> DEFINE fs == [future EXCEPT ![m] = "pending"]
    <3>5. Settle(fs, Elems(queue) \cup Elems(inflight), "cancelled")[k]
            = IF k \in (Elems(queue) \cup Elems(inflight)) /\ fs[k] = "pending" THEN "cancelled" ELSE fs[k]
      BY <3>2, <1>2, SettleAt
    <3> QED BY <1>1, <3>1, <3>4, <3>5
  <2>3. PendingIsHeld'
    BY <2>1, <2>2, <1>1 DEF PendingIsHeld, HeldInv
  <2> QED BY <1>1, <1>2, <1>4, <1>5, <2>1, <2>2, <2>3 DEF HeldInv
<1>7. CASE EnqueueSteer(m) \/ EnqueueBacklog(m) \/ EnqueueCapped(m)
  <2>1. /\ queue' = Append(queue, m) /\ inflight' = inflight
        /\ future' = [future EXCEPT ![m] = "pending"]
    BY <1>7 DEF EnqueueSteer, EnqueueBacklog, EnqueueCapped
  <2>2. PendingIsHeld'
    BY <2>1, <1>1, <1>2, <1>3 DEF PendingIsHeld, HeldInv
  <2> QED BY <1>1, <1>2, <1>3, <1>4, <1>5, <2>1, <2>2 DEF HeldInv
<1>8. CASE RefuseNew(m) \/ EnqueueRaises(m)
  <2>1. /\ queue' = queue /\ inflight' = inflight
        /\ \A k \in Msg : k # m => future'[k] = future[k]
        /\ future'[m] \in {"cancelled", "raised"}
    BY <1>8, <1>2 DEF RefuseNew, EnqueueRaises
  <2>2. PendingIsHeld'
    BY <2>1, <1>1, <1>2 DEF PendingIsHeld, HeldInv
  <2> QED BY <1>1, <1>2, <1>4, <1>5, <2>1, <2>2 DEF HeldInv
<1>9. CASE EvictOldest(m)
  <2>1. /\ queue # <<>> /\ queue' = Append(Tail(queue), m) /\ inflight' = inflight
    BY <1>9 DEF EvictOldest
  <2>2. /\ Elems(queue) = {Head(queue)} \cup Elems(Tail(queue))
        /\ Elems(queue') = Elems(Tail(queue)) \cup {m}
    BY <2>1, <1>2, ElemsTail, ElemsAppend
  <2>3. \A k \in Msg : future'[k] = IF k = m THEN IF m = Head(queue) THEN "cancelled" ELSE "pending"
                         ELSE IF k = Head(queue) /\ future[k] = "pending"
                         THEN "cancelled" ELSE future[k]
    <3>1. future' = Settle([future EXCEPT ![m] = "pending"], {Head(queue)}, "cancelled")
      BY <1>9 DEF EvictOldest
    <3>2. "cancelled" \in FutureState
      BY DEF FutureState
    <3>3. TAKE k \in Msg
    <3>4. [future EXCEPT ![m] = "pending"][k] = IF k = m THEN "pending" ELSE future[k]
      BY <1>2
    <3> DEFINE fs == [future EXCEPT ![m] = "pending"]
    <3>5. Settle(fs, {Head(queue)}, "cancelled")[k]
            = IF k \in {Head(queue)} /\ fs[k] = "pending" THEN "cancelled" ELSE fs[k]
      BY <3>2, <1>2, SettleAt
    <3> QED BY <3>1, <3>4, <3>5
  <2>4. PendingIsHeld'
    BY <2>1, <2>2, <2>3, <1>1, <1>2 DEF PendingIsHeld, HeldInv
  <2> QED BY <1>1, <1>2, <1>4, <1>5, <2>1, <2>2, <2>3, <2>4 DEF HeldInv
<1> QED BY <1>6, <1>7, <1>8, <1>9 DEF Enqueue

\* Nor does any step of the drain loop.
LEMMA DrainKeepsHeld ==
    ASSUME TypeOK, TypeOK', OrderInv, HeldInv, Drain
    PROVE  HeldInv'
<1> USE ElemsSmall
<1>1. /\ queue \in Seq(Msg) /\ inflight \in Seq(Msg) /\ future \in [Msg -> FutureState]
      /\ Elems(queue) \subseteq Msg /\ Elems(batch) \subseteq Msg
  BY ElemsAreMsgs DEF TypeOK
<1>2. CASE DrainTake
  <2>1. TakeCount \in 1 .. Len(queue)
    BY <1>2, TakeCountType DEF DrainTake
  <2>2. /\ batch' = inflight' /\ batch' # <<>>
        /\ Elems(queue) = Elems(batch') \cup Elems(queue')
    BY <1>1, <1>2, <2>1, ElemsSplit DEF DrainTake
  <2>3. inflight = <<>> /\ batch = <<>>
    BY <1>2 DEF DrainTake, HeldInv
  <2>4. /\ future' = future /\ arrived' = arrived /\ drain' = "awaiting"
    BY <1>2 DEF DrainTake, counters
  <2> QED BY <2>2, <2>3, <2>4 DEF HeldInv, PendingIsHeld
<1>3. CASE DrainBreak
  BY <1>3 DEF DrainBreak, HeldInv, PendingIsHeld, counters
<1>4. CASE DrainKilled
  BY <1>4 DEF DrainKilled, HeldInv, PendingIsHeld, counters
<1>5. ASSUME NEW a \in {"result", "error", "cancelled"},
             future' = Settle(future, Elems(batch), a),
             queue' = queue, ClearCurrent, arrived' = arrived, drain' # "awaiting"
      PROVE  HeldInv'
  <2>1. \A k \in Msg : future'[k] = IF k \in Elems(batch) /\ future[k] = "pending"
                                    THEN a ELSE future[k]
    BY <1>1, <1>5, SettleAt DEF FutureState
  <2>2. inflight' = <<>> /\ batch' = <<>> /\ current' = "none"
    BY <1>5 DEF ClearCurrent
  <2>3. PendingIsHeld'
    BY <1>5, <2>1, <2>2 DEF HeldInv, PendingIsHeld, OrderInv
  <2>4. \A k \in Elems(queue) : future'[k] \in {"pending", "cancelled"}
    BY <1>1, <2>1 DEF HeldInv, OrderInv
  <2> QED BY <1>1, <1>5, <2>1, <2>2, <2>3, <2>4 DEF HeldInv
<1>6. CASE DrainResume
  BY <1>5, <1>6 DEF DrainResume, counters
<1>7. CASE DrainCancelBatch
  BY <1>5, <1>7 DEF DrainCancelBatch, counters
<1>8. CASE DrainReinsert
  <2>1. Elems(queue') = Elems(inflight) \cup Elems(queue)
    BY <1>1, <1>8, ElemsConcat DEF DrainReinsert
  <2>2. inflight' = <<>> /\ batch' = <<>> /\ current' = "none"
    BY <1>8 DEF DrainReinsert, ClearCurrent
  <2>3. future' = future /\ arrived' = arrived /\ drain' = "asleep"
    BY <1>8 DEF DrainReinsert, counters
  <2> QED BY <2>1, <2>2, <2>3 DEF HeldInv, OrderInv, PendingIsHeld
<1> QED BY <1>2, <1>3, <1>4, <1>6, <1>7, <1>8 DEF Drain

\* Every step keeps each waiting message in the queue or in the call under way.
LEMMA HeldStep == TypeOK /\ TypeOK' /\ OrderInv /\ HeldInv /\ [Next]_vars => HeldInv'
<1> SUFFICES ASSUME TypeOK, TypeOK', OrderInv, HeldInv, [Next]_vars PROVE HeldInv'
  OBVIOUS
<1>1. ASSUME NEW m \in Msg, CallerCancelled(m) PROVE HeldInv'
  <2>1. \A k \in Msg : future'[k] = IF k = m THEN "cancelled" ELSE future[k]
    BY <1>1 DEF CallerCancelled, TypeOK
  <2>2. future[m] = "pending"
    BY <1>1 DEF CallerCancelled
  <2>3. /\ UNCHANGED <<queue, drain, current, inflight, batch, arrived>>
    BY <1>1 DEF CallerCancelled, loop, counters
  <2>4. Elems(queue) \subseteq Msg /\ Elems(batch) \subseteq Msg
    BY ElemsAreMsgs DEF TypeOK
  <2> QED BY <2>1, <2>2, <2>3, <2>4 DEF HeldInv, PendingIsHeld
<1>2. ASSUME UNCHANGED <<queue, drain, inflight, batch, future, arrived>>,
             drain # "awaiting" => current' = current
      PROVE  HeldInv'
  BY <1>2 DEF HeldInv, PendingIsHeld
<1>3. CASE DispatchEnds
  <2>1. drain = "awaiting"
    BY <1>3 DEF DispatchEnds, HeldInv
  <2> QED BY <1>2, <1>3, <2>1 DEF DispatchEnds, counters
<1>4. ASSUME NEW m \in Msg, CallerReturns(m) PROVE HeldInv'
  BY <1>2, <1>4 DEF CallerReturns, loop, counters
<1>5. CASE Stop
  BY <1>2, <1>5 DEF Stop, loop
<1>6. CASE UpdateConfig
  BY <1>2, <1>6 DEF UpdateConfig, loop
<1>7. CASE UNCHANGED vars
  BY <1>2, <1>7 DEF vars, loop, counters
<1> QED
  BY <1>1, <1>3, <1>4, <1>5, <1>6, <1>7, EnqueueKeepsHeld, DrainKeepsHeld DEF Next

\* HeldInv is an invariant.
LEMMA HeldCorrect == Spec => []HeldInv
<1>1. Init => HeldInv
  BY ElemsSmall DEF Init, HeldInv, PendingIsHeld
<1>2. TypeOK /\ OrderInv /\ HeldInv /\ [Next]_vars => HeldInv'
  BY TypeStep, HeldStep
<1> QED BY <1>1, <1>2, TypeCorrect, OrderCorrect, PTL DEF Spec

\* Whoever waits for an answer has its message in the queue or in the call under
\* way: no interleaving of arrivals, evictions, cancellations, /stop commands and
\* mode changes loses a message.
THEOREM NoMessageLost == Spec => []PendingIsHeld
<1>1. HeldInv => PendingIsHeld
  BY DEF HeldInv
<1> QED BY <1>1, HeldCorrect, PTL

---------------------------------------------------------------------------
(* The queue implements MessageService.                                    *)

Serving == IF drain = "awaiting" THEN Elems(batch) ELSE {}

\* Settling is what MessageService calls cancelling or answering.
LEMMA SettleIsCancelSome ==
    ASSUME NEW fs, NEW S
    PROVE  Settle(fs, S, "cancelled") = Service!CancelSome(S, fs)
BY DEF Settle, Service!CancelSome

\* A non-empty sequence has elements.
LEMMA ElemsNonEmpty == ASSUME NEW s \in Seq(Msg), s # <<>> PROVE Elems(s) # {}
<1>1. Len(s) \in Nat /\ Len(s) >= 1
  OBVIOUS
<1>2. s[1] \in Elems(s)
  BY <1>1 DEF Elems
<1> QED BY <1>2

\* To the caller an arrival is a submission: it is waiting or already answered.
LEMMA EnqueueIsSubmit ==
    ASSUME TypeOK, OrderInv, HeldInv, NEW m \in Msg, Enqueue(m)
    PROVE  Service!Submit(m)
<1>1. future[m] = "new"
  BY ArrivalIsNew
<1>2. Serving' = Serving
  <2>1. batch' = batch
    BY DEF Enqueue
  <2>2. drain' = "awaiting" <=> drain = "awaiting"
    BY DEF Enqueue, EnqueueInterrupt, EnqueueSteer, EnqueueBacklog, EnqueueCapped, RefuseNew,
           EvictOldest, EnqueueRaises, Admit
  <2> QED BY <2>1, <2>2 DEF Serving
<1>3. \E st \in {"pending", "cancelled", "raised"}, S \in SUBSET Msg :
         future' = Service!CancelSome(S, [future EXCEPT ![m] = st])
  <2>1. ASSUME NEW st \in {"pending", "cancelled", "raised"},
               future' = [future EXCEPT ![m] = st]
        PROVE  future' = Service!CancelSome({}, [future EXCEPT ![m] = st])
    BY <2>1 DEF Service!CancelSome, TypeOK
  <2>2. CASE EnqueueInterrupt(m)
    <3>1. Elems(queue) \cup Elems(inflight) \in SUBSET Msg
      BY ElemsAreMsgs DEF TypeOK
    <3> QED BY <2>2, <3>1, SettleIsCancelSome DEF EnqueueInterrupt
  <2>3. CASE EvictOldest(m)
    <3>1. {Head(queue)} \in SUBSET Msg
      BY <2>3, ElemsTail DEF EvictOldest, TypeOK
    <3> QED BY <2>3, <3>1, SettleIsCancelSome DEF EvictOldest
  <2>4. CASE EnqueueSteer(m) \/ EnqueueBacklog(m) \/ EnqueueCapped(m)
    <3>1. future' = [future EXCEPT ![m] = "pending"]
      BY <2>4 DEF EnqueueSteer, EnqueueBacklog, EnqueueCapped
    <3> QED BY <3>1, <2>1
  <2>5. CASE RefuseNew(m)
    <3>1. future' = [future EXCEPT ![m] = "cancelled"]
      BY <2>5 DEF RefuseNew
    <3> QED BY <3>1, <2>1
  <2>6. CASE EnqueueRaises(m)
    <3>1. future' = [future EXCEPT ![m] = "raised"]
      BY <2>6 DEF EnqueueRaises
    <3> QED BY <3>1, <2>1
  <2> QED BY <2>2, <2>3, <2>4, <2>5, <2>6 DEF Enqueue
<1> QED BY <1>1, <1>2, <1>3 DEF Service!Submit, Serving

\* Every step of the queue is a step of the service, or changes nothing it shows.
LEMMA StepImplements ==
    ASSUME TypeOK, OrderInv, HeldInv, [Next]_vars
    PROVE  [Service!MSNext]_(Service!msVars)
<1>1. ASSUME NEW m \in Msg, Enqueue(m) PROVE Service!MSNext
  BY <1>1, EnqueueIsSubmit DEF Service!MSNext
<1>2. CASE DrainTake
  <2>1. TakeCount \in 1 .. Len(queue) /\ queue \in Seq(Msg)
    BY <1>2, TakeCountType DEF DrainTake, TypeOK
  <2>2. /\ batch' \in Seq(Msg) /\ batch' # <<>> /\ Elems(batch') \subseteq Elems(queue)
    <3>1. batch' = SubSeq(queue, 1, TakeCount)
      BY <1>2 DEF DrainTake
    <3> QED BY <2>1, <3>1, ElemsSplit
  <2>3. /\ Elems(batch') # {} /\ Elems(batch') \in SUBSET Msg
        /\ \A m \in Elems(batch') : future[m] \in {"pending", "cancelled"}
    BY <2>2, ElemsNonEmpty, ElemsAreMsgs DEF HeldInv
  <2>4. drain = "asleep" /\ drain' = "awaiting" /\ future' = future
    BY <1>2 DEF DrainTake
  <2>5. Service!Serve(Elems(batch'))
    BY <2>3, <2>4 DEF Service!Serve
  <2> QED BY <2>3, <2>5 DEF Service!MSNext
<1>3. ASSUME drain = "awaiting", drain' # "awaiting"
      PROVE  Serving # {} /\ Serving' = {}
  BY <1>3, ElemsNonEmpty DEF HeldInv, TypeOK, Serving
<1>4. ASSUME drain = "awaiting", drain' # "awaiting", NEW a \in {"result", "error", "cancelled"},
             future' = Settle(future, Elems(batch), a)
      PROVE  Service!MSNext
  <2>1. Service!Reply(a)
    BY <1>3, <1>4 DEF Service!Reply, Serving, Settle
  <2> QED BY <2>1 DEF Service!MSNext, Service!Answer
<1>5. CASE DrainResume
  BY <1>4, <1>5 DEF DrainResume
<1>6. CASE DrainCancelBatch
  BY <1>4, <1>6 DEF DrainCancelBatch, Interrupted
<1>7. CASE DrainReinsert
  <2>1. Service!Requeue
    BY <1>3, <1>7 DEF DrainReinsert, Interrupted, Service!Requeue, Serving
  <2> QED BY <2>1 DEF Service!MSNext
<1>8. ASSUME NEW m \in Msg, CallerCancelled(m) PROVE Service!MSNext
  <2>1. Service!GiveUp(m)
    BY <1>8 DEF CallerCancelled, loop, Service!GiveUp
  <2> QED BY <2>1 DEF Service!MSNext
<1>9. ASSUME future' = future, batch' = batch, drain' = "awaiting" <=> drain = "awaiting"
      PROVE  UNCHANGED Service!msVars
  BY <1>9 DEF Service!msVars
<1>10. CASE DrainBreak \/ DrainKilled
  BY <1>9, <1>10 DEF DrainBreak, DrainKilled
<1>11. CASE DispatchEnds \/ Stop \/ UpdateConfig
  BY <1>9, <1>11 DEF DispatchEnds, Stop, UpdateConfig, loop
<1>12. CASE \E m \in Msg : CallerReturns(m)
  BY <1>9, <1>12 DEF CallerReturns, loop
<1>13. CASE UNCHANGED vars
  BY <1>9, <1>13 DEF vars, loop
<1> QED
  BY <1>1, <1>2, <1>5, <1>6, <1>7, <1>8, <1>10, <1>11, <1>12, <1>13 DEF Next, Drain

\* At most one agent call at a time serves a session, a message is answered at most
\* once and only by the call that took it or by a cancellation: SessionQueue
\* implements MessageService for every configuration.
THEOREM QueueImplementsService == Spec => ImplementsService
<1>1. Init => Service!MSInit
  BY DEF Init, Service!MSInit
<1>2. TypeOK /\ OrderInv /\ HeldInv /\ [Next]_vars => [Service!MSNext]_(Service!msVars)
  BY StepImplements
<1> QED
  BY <1>1, <1>2, TypeCorrect, OrderCorrect, HeldCorrect, PTL
  DEF Spec, ImplementsService, Service!MSSpec

---------------------------------------------------------------------------
(* The drain task, and why a message is sent to the agent again.           *)

\* Only /stop cancels the drain task.
DrainInv == (drainCancel => stops > 0) /\ DrainRunsUntilEmpty

\* Every step that queues a message leaves a drain task, and the task ends with
\* messages left only when it was cancelled.
LEMMA DrainStep == TypeOK /\ DrainInv /\ [Next]_vars => DrainInv'
<1> SUFFICES ASSUME TypeOK, DrainInv, [Next]_vars PROVE DrainInv'
  OBVIOUS
<1> USE DEF DrainInv, DrainRunsUntilEmpty
<1>1. ASSUME NEW m \in Msg, Enqueue(m) PROVE DrainInv'
  BY <1>1 DEF Enqueue, EnqueueInterrupt, EnqueueSteer, EnqueueBacklog, EnqueueCapped, RefuseNew,
              EvictOldest, EnqueueRaises, Admit, TypeOK
<1>2. CASE Drain
  BY <1>2 DEF Drain, DrainTake, DrainBreak, DrainKilled, DrainResume, DrainReinsert,
              DrainCancelBatch, counters
<1>3. CASE Stop
  <2>1. stops' > 0
    BY <1>3 DEF Stop, TypeOK
  <2> QED BY <2>1
<1>4. CASE DispatchEnds \/ UpdateConfig \/ UNCHANGED vars
  BY <1>4 DEF DispatchEnds, UpdateConfig, vars, loop, counters
<1>5. ASSUME NEW m \in Msg, CallerReturns(m) \/ CallerCancelled(m) PROVE DrainInv'
  BY <1>5 DEF CallerReturns, CallerCancelled, loop, counters
<1> QED BY <1>1, <1>2, <1>3, <1>4, <1>5 DEF Next

\* Messages are left without a drain task only after a /stop.
THEOREM DrainEmptiesQueue == Spec => []DrainRunsUntilEmpty
<1>1. Init => DrainInv
  BY DEF Init, DrainInv, DrainRunsUntilEmpty
<1>2. DrainInv => DrainRunsUntilEmpty
  BY DEF DrainInv
<1> QED BY <1>1, <1>2, DrainStep, TypeCorrect, PTL DEF Spec

\* The elements of what an arrival leaves in the queue.
LEMMA EnqueueElems ==
    ASSUME TypeOK, NEW m \in Msg, Enqueue(m)
    PROVE  Elems(queue') \subseteq Elems(queue) \cup {m}
<1>1. CASE EnqueueInterrupt(m)
  BY <1>1, ElemsSmall DEF EnqueueInterrupt
<1>2. CASE EvictOldest(m)
  <2>1. queue \in Seq(Msg) /\ queue # <<>> /\ queue' = Append(Tail(queue), m)
    BY <1>2 DEF EvictOldest, TypeOK
  <2>2. Tail(queue) \in Seq(Msg) /\ Elems(Tail(queue)) \subseteq Elems(queue)
    BY <2>1, ElemsTail
  <2>3. Elems(queue') = Elems(Tail(queue)) \cup {m}
    BY <2>1, <2>2, ElemsAppend
  <2> QED BY <2>2, <2>3
<1>3. CASE EnqueueSteer(m) \/ EnqueueBacklog(m) \/ EnqueueCapped(m)
  BY <1>3, ElemsAppend DEF EnqueueSteer, EnqueueBacklog, EnqueueCapped, TypeOK
<1>4. CASE RefuseNew(m) \/ EnqueueRaises(m)
  BY <1>4 DEF RefuseNew, EnqueueRaises
<1> QED BY <1>1, <1>2, <1>3, <1>4 DEF Enqueue

\* An arrival is one cause more for every older message, and for itself none is needed.
LEMMA EnqueueKeepsCauses ==
    ASSUME TypeOK, OrderInv, HeldInv, CauseInv, NEW m \in Msg, Enqueue(m)
    PROVE  CauseInv'
<1>1. /\ arrived \in Nat /\ m = arrived + 1 /\ arrived' = m
      /\ UNCHANGED <<current, batch, drainCancel, stops, sent>>
  BY DEF Enqueue, TypeOK
<1>2. /\ sent \in [Msg -> Nat] /\ stops \in Nat /\ m \in Nat
      /\ Elems(queue) \subseteq Msg /\ Elems(batch) \subseteq Msg
      /\ Elems(queue') \subseteq Elems(queue) \cup {m}
  BY EnqueueElems, ElemsAreMsgs DEF TypeOK, Msg
<1>3. currentCancel' => current' = "running"
  <2>1. currentCancel => current = "running"
    BY DEF CauseInv
  <2> QED BY <1>1, <2>1 DEF Enqueue, EnqueueInterrupt, EnqueueSteer, EnqueueBacklog,
                          EnqueueCapped, RefuseNew, EvictOldest, EnqueueRaises, CancelCurrent
<1>4. sent[m] = 0
  BY <1>1, <1>2 DEF CauseInv
<1>5. ASSUME NEW k \in Elems(queue) \cup Elems(batch)
      PROVE  k \in Msg /\ k \in Nat /\ k >= 1 /\ k <= arrived
  BY <1>2 DEF OrderInv, Msg
<1>6. ASSUME NEW k \in 1 .. arrived PROVE k \in Msg /\ sent[k] \in Nat /\ sent[k] <= 1 + (arrived - k) + stops
  <2>1. k \in Msg /\ sent[k] \in Nat
    <3>1. k \in Nat /\ 1 <= k /\ k <= m /\ m \in 1 .. MaxMsgs /\ MaxMsgs \in Nat
      BY <1>1, SQAssumption DEF Msg
    <3>2. k \in Msg
      BY <3>1 DEF Msg
    <3> QED BY <1>2, <3>2
  <2>2. sent[k] <= 1 + (arrived - k) + stops
    BY DEF CauseInv, RepeatsHaveCauses
  <2> QED BY <2>1, <2>2
<1>7. ASSUME NEW k \in CauseLeft' PROVE sent'[k] <= (arrived' - k) + stops'
  <2>1. CASE k = m
    BY <1>1, <1>2, <1>4, <2>1
  <2>2. CASE k # m
    <3>1. k \in Elems(queue) \cup Elems(batch)
      BY <1>1, <1>2, <1>7, <2>2 DEF CauseLeft
    <3>2. k \in 1 .. arrived
      BY <3>1, <1>1, <1>5
    <3> QED BY <1>1, <1>2, <1>6, <3>2
  <2> QED BY <2>1, <2>2
<1>8. ASSUME NEW k \in 1 .. arrived' PROVE sent'[k] <= 1 + (arrived' - k) + stops'
  <2>1. CASE k = m
    BY <1>1, <1>2, <1>4, <2>1
  <2>2. CASE k # m
    BY <1>1, <1>2, <1>6, <2>2
  <2> QED BY <2>1, <2>2
<1>9. ASSUME NEW k \in Msg, k > arrived' PROVE sent'[k] = 0
  BY <1>1, <1>9 DEF CauseInv, Msg
<1> QED BY <1>3, <1>7, <1>8, <1>9 DEF CauseInv, RepeatsHaveCauses

\* A message is dispatched once for a cause it has, and goes back to the queue only
\* with one left.
LEMMA CauseStep == TypeOK /\ OrderInv /\ HeldInv /\ CauseInv /\ [Next]_vars => CauseInv'
<1> SUFFICES ASSUME TypeOK, OrderInv, HeldInv, CauseInv, [Next]_vars PROVE CauseInv'
  OBVIOUS
<1> USE ElemsSmall
<1>1. /\ arrived \in Nat /\ stops \in Nat /\ sent \in [Msg -> Nat]
      /\ queue \in Seq(Msg) /\ inflight \in Seq(Msg)
      /\ Elems(queue) \subseteq Msg /\ Elems(batch) \subseteq Msg
      /\ \A k \in 1 .. arrived : k \in Msg
      /\ \A k \in Elems(queue) \cup Elems(batch) : k \in 1 .. arrived
  <2>1. /\ arrived \in Nat /\ stops \in Nat /\ sent \in [Msg -> Nat]
        /\ queue \in Seq(Msg) /\ inflight \in Seq(Msg)
        /\ Elems(queue) \subseteq Msg /\ Elems(batch) \subseteq Msg
    BY ElemsAreMsgs DEF TypeOK
  <2>2. \A k \in 1 .. arrived : k \in Msg
    BY SQAssumption DEF TypeOK, Msg
  <2>3. ASSUME NEW k \in Elems(queue) \cup Elems(batch) PROVE k \in 1 .. arrived
    <3>1. k \in Msg /\ k <= arrived
      BY <2>1 DEF OrderInv
    <3> QED BY <2>1, <3>1 DEF Msg
  <2> QED BY <2>1, <2>2, <2>3
<1>2. CASE DrainTake
  <2>1. TakeCount \in 1 .. Len(queue)
    BY <1>2, TakeCountType DEF DrainTake
  <2>2. Elems(queue) = Elems(batch') \cup Elems(queue')
    BY <1>1, <1>2, <2>1, ElemsSplit DEF DrainTake
  <2>3. /\ \A k \in Msg : sent'[k] = IF k \in Elems(batch') THEN sent[k] + 1 ELSE sent[k]
        /\ UNCHANGED <<arrived, stops, drainCancel, currentCancel>> /\ current' = "running"
        /\ drain = "asleep" /\ ~drainCancel
    BY <1>2 DEF DrainTake
  <2>4. ~currentCancel
    BY <2>3 DEF CauseInv, HeldInv
  <2>5. CauseLeft' = Elems(queue')
    BY <2>3, <2>4 DEF CauseLeft, CancelDue
  <2>6. \A k \in Elems(queue) : k \in Msg /\ k \in 1 .. arrived /\ sent[k] <= (arrived - k) + stops
    BY <1>1 DEF CauseInv, CauseLeft
  <2>7. Elems(batch') \cap Elems(queue') = {}
    BY <1>2, OrderStep DEF OrderInv, Next, Drain
  <2>8. ASSUME NEW k \in Elems(queue') PROVE sent'[k] <= (arrived' - k) + stops'
    BY <2>2, <2>3, <2>6, <2>7
  <2>9. ASSUME NEW k \in 1 .. arrived' PROVE sent'[k] <= 1 + (arrived' - k) + stops'
    <3>1. k \in Msg /\ k \in Nat /\ sent[k] \in Nat /\ sent[k] <= 1 + (arrived - k) + stops
      BY <1>1, <2>3 DEF CauseInv, RepeatsHaveCauses
    <3>2. CASE k \in Elems(batch')
      BY <1>1, <2>2, <2>3, <2>6, <3>1, <3>2
    <3>3. CASE k \notin Elems(batch')
      BY <2>3, <3>1, <3>3
    <3> QED BY <3>2, <3>3
  <2>10. ASSUME NEW k \in Msg, k > arrived' PROVE sent'[k] = 0
    <3>1. k \notin Elems(batch')
      BY <1>1, <2>2, <2>3, <2>10
    <3> QED BY <2>3, <2>10, <3>1 DEF CauseInv
  <2> QED BY <2>3, <2>4, <2>5, <2>8, <2>9, <2>10 DEF CauseInv, RepeatsHaveCauses
<1>3. ASSUME UNCHANGED <<arrived, stops, sent>>,
             CauseLeft' \subseteq CauseLeft,
             currentCancel' => current' = "running"
      PROVE  CauseInv'
  BY <1>3 DEF CauseInv, RepeatsHaveCauses
<1>4. CASE DrainReinsert
  <2>1. /\ queue' = inflight \o queue /\ batch' = <<>>
        /\ UNCHANGED <<arrived, stops, sent, currentCancel>>
        /\ CancelDue /\ current # "running"
    BY <1>4 DEF DrainReinsert, ClearCurrent, Interrupted, CancelDue, counters
  <2>2. Elems(queue') = Elems(inflight) \cup Elems(queue)
    BY <1>1, <2>1, ElemsConcat
  <2>3. CauseLeft' \subseteq CauseLeft
    BY <2>1, <2>2 DEF CauseLeft, OrderInv
  <2>4. ~currentCancel
    BY <2>1 DEF CauseInv
  <2> QED BY <1>3, <2>1, <2>3, <2>4
<1>5. CASE DrainResume \/ DrainCancelBatch
  <2>1. /\ queue' = queue /\ batch' = <<>>
        /\ UNCHANGED <<arrived, stops, sent, currentCancel>>
        /\ current # "running"
    BY <1>5 DEF DrainResume, DrainCancelBatch, ClearCurrent, Interrupted, counters
  <2>2. CauseLeft' \subseteq CauseLeft /\ ~currentCancel
    BY <2>1 DEF CauseLeft, CauseInv
  <2> QED BY <1>3, <2>1, <2>2
<1>6. CASE DrainBreak
  BY <1>3, <1>6 DEF DrainBreak, CauseLeft, CancelDue, CauseInv, counters
<1>7. CASE DrainKilled
  <2>1. batch = <<>>
    BY <1>7 DEF DrainKilled, HeldInv
  <2> QED BY <1>3, <1>7, <2>1 DEF DrainKilled, CauseLeft, CancelDue, CauseInv, counters
<1>8. CASE DispatchEnds
  BY <1>3, <1>8 DEF DispatchEnds, CauseLeft, CancelDue, CauseInv, counters
<1>9. CASE Stop
  <2>1. /\ UNCHANGED <<arrived, sent, queue, batch, current>> /\ stops' = stops + 1
    BY <1>9 DEF Stop, loop
  <2>2. currentCancel' => current' = "running"
    BY <1>9, <2>1 DEF Stop, CauseInv
  <2>3. \A k \in 1 .. arrived : sent[k] \in Nat /\ sent[k] <= 1 + (arrived - k) + stops
    BY <1>1 DEF CauseInv, RepeatsHaveCauses
  <2>4. \A k \in CauseLeft' : k \in 1 .. arrived
    BY <1>1, <2>1 DEF CauseLeft
  <2>5. \A k \in CauseLeft' : sent'[k] <= (arrived' - k) + stops'
    BY <1>1, <2>1, <2>3, <2>4
  <2>6. \A k \in 1 .. arrived' : sent'[k] <= 1 + (arrived' - k) + stops'
    BY <1>1, <2>1, <2>3
  <2>7. \A k \in Msg : k > arrived' => sent'[k] = 0
    BY <2>1 DEF CauseInv
  <2> QED BY <2>2, <2>5, <2>6, <2>7 DEF CauseInv, RepeatsHaveCauses
<1>10. CASE UpdateConfig \/ UNCHANGED vars
  BY <1>3, <1>10 DEF UpdateConfig, vars, loop, counters, CauseLeft, CancelDue, CauseInv
<1>11. ASSUME NEW m \in Msg, CallerReturns(m) \/ CallerCancelled(m) PROVE CauseInv'
  BY <1>3, <1>11 DEF CallerReturns, CallerCancelled, loop, counters, CauseLeft, CancelDue, CauseInv
<1> QED
  BY <1>2, <1>4, <1>5, <1>6, <1>7, <1>8, <1>9, <1>10, <1>11, EnqueueKeepsCauses DEF Next, Drain

\* A message is sent to the agent again only for an arrival after it or a /stop, and at
\* most once for each, in every mode and under every change of mode.
THEOREM NoCauselessRepeat == Spec => []RepeatsHaveCauses
<1>1. Init => CauseInv
  BY ElemsSmall DEF Init, CauseInv, CauseLeft, CancelDue, RepeatsHaveCauses
<1>2. CauseInv => RepeatsHaveCauses
  BY DEF CauseInv
<1> QED BY <1>1, <1>2, CauseStep, TypeCorrect, OrderCorrect, HeldCorrect, PTL DEF Spec
=============================================================================
