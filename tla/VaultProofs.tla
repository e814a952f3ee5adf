---------------------------- MODULE VaultProofs ----------------------------
(***************************************************************************)
(* Proofs about Vault for every number of facts and ingestions, and all    *)
(* ages and counts.                                                        *)
(***************************************************************************)
EXTENDS Vault, TLAPS

---------------------------------------------------------------------------
(* The invariant.                                                          *)

\* What a function of the store has read it has a changed copy of.
OpOK ==
    \A a \in Actor : op[a] # None =>
        /\ op[a].step # "read" => op[a].out \in Record
        /\ op[a].kind = "compress" => op[a].tier < 4
        /\ op[a].kind = "supersede" => op[a].by \in Fact
        /\ op[a].step = "unlink" => op[a].kind \in Moves
        /\ op[a].step = "new" => op[a].kind = "supersede"

\* An ingestion whose new fact is written and which may supersede others.
Later == {"linking", "contradicting", "reweaving", "first", "more"}

MeOK == \A t \in Task : pc[t] \in Later \/ resume[t] \in Later => me[t] \in Fact

Typed == TypeOK /\ OpOK /\ MeOK

\* The facts that are kept.
Safe == {f \in Fact : Kept(f)}

\* A record's successor is among them.
Sound(r, safe) == r.by # None => r.by \in safe

Recorded ==
    /\ \A f \in Fact : facts[f] # None => Sound(facts[f], Safe)
    /\ \A f \in Fact : archive[f] # None => Sound(archive[f], Safe)

\* A function that retires a fact for another, or supersedes it: it writes the
\* successor itself.
Pending ==
    \A a \in Actor : op[a] # None =>
        /\ op[a].kind = "retire" => op[a].by \in Safe
        /\ op[a].step \in {"unlink", "write"} =>
              IF op[a].kind = "supersede" THEN op[a].out.by = op[a].by ELSE Sound(op[a].out, Safe)

Written == \A t \in Task : pc[t] \in Later \/ resume[t] \in Later => me[t] \in Safe

Sequel == Recorded /\ Pending /\ Written

IInv == Typed /\ Sequel

---------------------------------------------------------------------------
(* Types.                                                                  *)

\* A fresh fact is an active record.
LEMMA FreshType == Fresh \in Record /\ Fresh.state \in Active /\ Fresh.by = None /\ Fresh # None
BY VaultAssumption DEF Fresh, Record, Active, Tier

\* What a function makes of a record is one.
LEMMA ChangedType ==
    ASSUME NEW o \in Op, NEW r \in Record, o.kind = "compress" => o.tier < 4
    PROVE  /\ Changed(o, r) \in Record
           /\ o.kind \in {"supersede", "retire"} => Changed(o, r).by = o.by
           /\ o.kind \notin {"supersede", "retire"} => Changed(o, r).by = r.by
<1>0. o.kind \in Moves \cup Rewrites /\ o.by \in Fact \cup {None} /\ o.tier \in Tier /\ r.rc \in Nat
  BY DEF Op, Record
<1>1. CASE o.kind = "reinforce"
  BY <1>0, <1>1 DEF Changed, Record
<1>2. CASE o.kind = "archive"
  BY <1>0, <1>2 DEF Changed, Record
<1>3. CASE o.kind \in {"supersede", "retire"}
  BY <1>0, <1>3 DEF Changed, Record
<1>4. CASE o.kind = "crystallize"
  BY <1>0, <1>4 DEF Changed, Record, Active
<1>5. CASE o.kind = "promote"
  BY <1>0, <1>5 DEF Changed, Record, Active
<1>6. CASE o.kind = "compress"
  <2>1. o.tier + 1 \in Tier
    BY <1>0, <1>6 DEF Tier
  <2> QED BY <1>0, <1>6, <2>1 DEF Changed, Record
<1> QED BY <1>0, <1>1, <1>2, <1>3, <1>4, <1>5, <1>6 DEF Moves, Rewrites

\* A file is written into the directory of its state; no other file changes and
\* none goes.
LEMMA PutType ==
    ASSUME TypeOK, NEW f, NEW r \in Record, Put(f, r)
    PROVE  /\ facts' \in [Fact -> {x \in Record : x.state \in Active} \cup {None}]
           /\ archive' \in [Fact -> {x \in Record : x.state \notin Active} \cup {None}]
           /\ \A g \in Fact : g # f => facts'[g] = facts[g] /\ archive'[g] = archive[g]
           /\ \A g \in Fact : facts'[g] = facts[g] \/ facts'[g] = r
           /\ \A g \in Fact : archive'[g] = archive[g] \/ archive'[g] = r
           /\ f \in Fact => facts'[f] = r \/ archive'[f] = r
<1>1. CASE r.state \in Active
  <2>1. facts' = [facts EXCEPT ![f] = r] /\ archive' = archive
    BY <1>1 DEF Put
  <2> QED BY <1>1, <2>1 DEF TypeOK
<1>2. CASE r.state \notin Active
  <2>1. archive' = [archive EXCEPT ![f] = r] /\ facts' = facts
    BY <1>2 DEF Put
  <2> QED BY <1>2, <2>1 DEF TypeOK
<1> QED BY <1>1, <1>2

\* What is read is a record.
LEMMA ReadType ==
    ASSUME TypeOK, NEW f \in Fact, ReadFact(f) # None
    PROVE  ReadFact(f) \in Record /\ (ReadFact(f) = facts[f] \/ ReadFact(f) = archive[f])
BY DEF TypeOK, ReadFact

\* A call of a function of the store.
LEMMA CallType ==
    ASSUME NEW kind \in Moves \cup Rewrites, NEW f \in Fact, NEW by \in Fact \cup {None},
           NEW t \in Task \cup {None}
    PROVE  /\ Call(kind, f, by, t) \in Op /\ Call(kind, f, by, t) # None
           /\ Call(kind, f, by, t).kind = kind /\ Call(kind, f, by, t).fact = f /\ Call(kind, f, by, t).by = by
           /\ Call(kind, f, by, t).step = "read" /\ Call(kind, f, by, t).tier = 1
BY VaultAssumption DEF Call, Op, Tier


\* A step of an ingestion that leaves the store alone.
LEMMA StoreAlone ==
    ASSUME OpOK, UNCHANGED op
    PROVE  OpOK'
BY DEF OpOK

\* A function of the store is called by the event loop or the thread.
LEMMA CalledOK ==
    ASSUME Typed, NEW a \in Actor, NEW o \in Op, o.step = "read", o.kind = "compress" => o.tier < 4,
           o.kind = "supersede" => o.by \in Fact, op' = [op EXCEPT ![a] = o]
    PROVE  op' \in [Actor -> Op \cup {None}] /\ OpOK'
<1>1. op' \in [Actor -> Op \cup {None}] /\ \A b \in Actor : op'[b] = IF b = a THEN o ELSE op[b]
  BY DEF Typed, TypeOK
<1> QED BY <1>1 DEF Typed, OpOK

\* A function of the store called for an ingestion.
LEMMA StoreType ==
    ASSUME Typed, NEW t \in Task, NEW kind \in {"reinforce", "supersede", "retire"}, NEW f \in Fact,
           NEW by \in Fact \cup {None}, NEW then \in Pc, Store(t, kind, f, by, then),
           kind = "supersede" => by \in Fact
    PROVE  /\ op' \in [Actor -> Op \cup {None}] /\ OpOK'
           /\ pc' \in [Task -> Pc] /\ resume' \in [Task -> Pc]
<1>1. /\ Call(kind, f, by, t) \in Op /\ Call(kind, f, by, t).kind = kind
      /\ Call(kind, f, by, t).step = "read" /\ Call(kind, f, by, t).by = by
  BY CallType DEF Moves, Rewrites
<1>2. /\ op' = [op EXCEPT !["loop"] = Call(kind, f, by, t)]
      /\ pc' = [pc EXCEPT ![t] = "storing"] /\ resume' = [resume EXCEPT ![t] = then]
  BY DEF Store
<1>3. op' \in [Actor -> Op \cup {None}] /\ OpOK'
  BY <1>1, <1>2, CalledOK DEF Actor
<1> QED BY <1>2, <1>3 DEF Typed, TypeOK, Pc

\* The facts a search can find.
LEMMA CandidatesType == Candidates \subseteq Fact
BY DEF Candidates

\* The next fact to supersede.
LEMMA SupersedeType ==
    ASSUME Typed, NEW t \in Task, NEW kind \in {"supersede", "retire"}, NEW then \in Pc,
           Supersede(t, kind, then), pc[t] \in Later
    PROVE  /\ op' \in [Actor -> Op \cup {None}] /\ OpOK'
           /\ pc' \in [Task -> Pc] /\ resume' \in [Task -> Pc] /\ left' \in [Task -> Seq(Fact)]
<1>1. Head(left[t]) \in Fact /\ Tail(left[t]) \in Seq(Fact)
  BY DEF Supersede, Typed, TypeOK
<1>2. Store(t, kind, Head(left[t]), me[t], then) /\ left' = [left EXCEPT ![t] = Tail(@)]
  BY DEF Supersede
<1>3. me[t] \in Fact
  BY DEF Typed, MeOK
<1>4. left' \in [Task -> Seq(Fact)]
  BY <1>1, <1>2 DEF Typed, TypeOK
<1> QED BY <1>1, <1>2, <1>3, <1>4, StoreType

\* The end of the list.
LEMMA ExhaustedType ==
    ASSUME Typed, NEW t \in Task, NEW then \in Pc, Exhausted(t, then)
    PROVE  /\ op' \in [Actor -> Op \cup {None}] /\ OpOK'
           /\ pc' \in [Task -> Pc] /\ resume' \in [Task -> Pc] /\ left' \in [Task -> Seq(Fact)]
<1>1. /\ pc' = [pc EXCEPT ![t] = then] /\ resume' = [resume EXCEPT ![t] = "done"]
      /\ UNCHANGED <<left, op>>
  BY DEF Exhausted
<1> QED BY <1>1, StoreAlone DEF Typed, TypeOK, Pc

\* A new fact gets the next number.
LEMMA NewFactType ==
    ASSUME Typed, NEW t \in Task, NewFact(t)
    PROVE  /\ born + 1 \in Fact /\ born' \in 0 .. MaxFacts /\ birth' \in [Fact -> 0 .. MaxAge]
           /\ me' \in [Task -> Fact \cup {None}] /\ me' = [me EXCEPT ![t] = born + 1]
<1>1. born + 1 \in Fact /\ born + 1 \in 0 .. MaxFacts
  <2>1. MaxFacts \in Nat
    BY VaultAssumption
  <2>2. born \in 0 .. MaxFacts /\ born < MaxFacts
    BY DEF NewFact, Typed, TypeOK
  <2> QED BY <2>1, <2>2 DEF Fact
<1> QED BY <1>1 DEF NewFact, Typed, TypeOK

\* The steps of an ingestion keep the types.
LEMMA IngestType ==
    ASSUME Typed, NEW t \in Task, Ingest(t)
    PROVE  TypeOK' /\ OpOK'
<1> USE DEF Typed
<1> USE CandidatesType
<1>1. CASE Ask(t)
  BY <1>1, StoreAlone DEF Ask, TypeOK, Pc, files, ids, search, sweep, past
<1>2. CASE AnswerNothing(t)
  BY <1>2, StoreAlone DEF AnswerNothing, TypeOK, Pc, files, ids, search, sweep, past
<1>3. CASE AnswerCreate(t)
  <2>1. PICK c \in {<<>>} \cup {<<f>> : f \in shown[t]} : left' = [left EXCEPT ![t] = c]
    BY <1>3 DEF AnswerCreate
  <2>2. c \in Seq(Fact)
    <3>1. shown[t] \subseteq Fact
      BY DEF TypeOK
    <3>2. \A f \in Fact : <<f>> \in Seq(Fact)
      OBVIOUS
    <3>3. <<>> \in Seq(Fact)
      OBVIOUS
    <3> QED BY <3>1, <3>2, <3>3, Zenon
  <2>3. left' \in [Task -> Seq(Fact)]
    BY <2>1, <2>2 DEF TypeOK
  <2> QED BY <1>3, <2>3, StoreAlone DEF AnswerCreate, TypeOK, Pc, files, ids, search, sweep, past
<1>4. CASE AnswerReinforce(t)
  <2>1. PICK f \in shown[t] : Store(t, "reinforce", f, None, "done")
    BY <1>4 DEF AnswerReinforce
  <2>2. f \in Fact /\ "done" \in Pc
    BY DEF TypeOK, Pc
  <2>3. /\ op' \in [Actor -> Op \cup {None}] /\ OpOK'
        /\ pc' \in [Task -> Pc] /\ resume' \in [Task -> Pc]
    BY <2>1, <2>2, StoreType
  <2> QED BY <1>4, <2>3 DEF AnswerReinforce, TypeOK, files, ids, search, sweep, past
<1>5. CASE AnswerSupersede(t)
  <2>1. PICK f \in shown[t] : Store(t, "supersede", f, born + 1, "done")
    BY <1>5 DEF AnswerSupersede
  <2>2. f \in Fact /\ "done" \in Pc
    BY DEF TypeOK, Pc
  <2>3. /\ born + 1 \in Fact /\ born' \in 0 .. MaxFacts /\ birth' \in [Fact -> 0 .. MaxAge]
        /\ me' \in [Task -> Fact \cup {None}]
    BY <1>5, NewFactType DEF AnswerSupersede
  <2>4. /\ op' \in [Actor -> Op \cup {None}] /\ OpOK'
        /\ pc' \in [Task -> Pc] /\ resume' \in [Task -> Pc]
    BY <2>1, <2>2, <2>3, StoreType
  <2> QED BY <1>5, <2>3, <2>4 DEF AnswerSupersede, TypeOK, files, search, sweep, past
<1>6. CASE Dedup(t)
  BY <1>6, StoreAlone DEF Dedup, TypeOK, Pc, files, ids, search, sweep, past
<1>7. CASE ReinforceDuplicate(t)
  <2>1. Store(t, "reinforce", item[t], None, "done") /\ item[t] # None
    BY <1>7 DEF ReinforceDuplicate
  <2>2. item[t] \in Fact /\ "done" \in Pc
    BY <2>1 DEF TypeOK, Pc
  <2>3. /\ op' \in [Actor -> Op \cup {None}] /\ OpOK'
        /\ pc' \in [Task -> Pc] /\ resume' \in [Task -> Pc]
    BY <2>1, <2>2, StoreType
  <2> QED BY <1>7, <2>3 DEF ReinforceDuplicate, TypeOK, files, ids, search, sweep, past
<1>8. CASE Create(t)
  <2>1. /\ NewFact(t) /\ Put(born + 1, Fresh) /\ UNCHANGED <<clock, search, shown, left, gone, op, sweep, past>>
        /\ pc' = [pc EXCEPT ![t] = "indexing"] /\ item' = [item EXCEPT ![t] = born + 1]
        /\ copy' = [copy EXCEPT ![t] = Fresh] /\ resume' = [resume EXCEPT ![t] = "linking"]
    BY <1>8 DEF Create
  <2>2. /\ born + 1 \in Fact /\ born' \in 0 .. MaxFacts /\ birth' \in [Fact -> 0 .. MaxAge]
        /\ me' \in [Task -> Fact \cup {None}]
    BY <2>1, NewFactType
  <2>3. /\ facts' \in [Fact -> {x \in Record : x.state \in Active} \cup {None}]
        /\ archive' \in [Fact -> {x \in Record : x.state \notin Active} \cup {None}]
    BY <2>1, FreshType, PutType
  <2> QED BY <2>1, <2>2, <2>3, FreshType, StoreAlone DEF TypeOK, Pc, search, sweep, past
<1>9. CASE AutoLink(t)
  <2>1. Put(me[t], Fresh) \/ UNCHANGED files
    BY <1>9 DEF AutoLink
  <2>2. /\ facts' \in [Fact -> {x \in Record : x.state \in Active} \cup {None}]
        /\ archive' \in [Fact -> {x \in Record : x.state \notin Active} \cup {None}]
    BY <2>1, FreshType, PutType DEF TypeOK, files
  <2> QED BY <1>9, <2>2, StoreAlone DEF AutoLink, TypeOK, Pc, ids, search, sweep, past
<1>10. CASE Contradict(t)
  <2>1. /\ op' \in [Actor -> Op \cup {None}] /\ OpOK'
        /\ pc' \in [Task -> Pc] /\ resume' \in [Task -> Pc] /\ left' \in [Task -> Seq(Fact)]
    BY <1>10, SupersedeType, ExhaustedType DEF Contradict, At, Pc, Later
  <2> QED BY <1>10, <2>1 DEF Contradict, TypeOK, files, ids, search, sweep, past
<1>11. CASE Reweave(t)
  <2>1. PICK s \in Conflicting(t) : left' = [left EXCEPT ![t] = s]
    BY <1>11 DEF Reweave
  <2>2. s \in Seq(Fact)
    <3>1. PICK n \in 0 .. MaxConflicts : s \in [1 .. n -> Candidates \ (gone[t] \cup {me[t]})]
      BY DEF Conflicting
    <3>2. n \in Nat /\ s \in [1 .. n -> Fact]
      BY <3>1, VaultAssumption
    <3> QED BY <3>2
  <2>3. left' \in [Task -> Seq(Fact)]
    BY <2>1, <2>2 DEF TypeOK
  <2> QED BY <1>11, <2>3, StoreAlone DEF Reweave, TypeOK, Pc, files, ids, search, sweep, past
<1>12. CASE First(t)
  <2>1. /\ op' \in [Actor -> Op \cup {None}] /\ OpOK'
        /\ pc' \in [Task -> Pc] /\ resume' \in [Task -> Pc] /\ left' \in [Task -> Seq(Fact)]
    BY <1>12, SupersedeType, ExhaustedType DEF First, At, Pc, Later
  <2> QED BY <1>12, <2>1 DEF First, TypeOK, files, ids, search, sweep, past
<1>13. CASE More(t)
  <2>1. /\ op' \in [Actor -> Op \cup {None}] /\ OpOK'
        /\ pc' \in [Task -> Pc] /\ resume' \in [Task -> Pc] /\ left' \in [Task -> Seq(Fact)]
    BY <1>13, SupersedeType, ExhaustedType DEF More, At, Pc, Later
  <2> QED BY <1>13, <2>1 DEF More, TypeOK, files, ids, search, sweep, past
<1>14. CASE UpdateIndex(t)
  <2>1. index' \in [Fact -> Record \cup {None}]
    BY <1>14, FreshType DEF UpdateIndex, TypeOK
  <2> QED BY <1>14, <2>1, StoreAlone DEF UpdateIndex, TypeOK, files, ids, sweep, past
<1> QED
  BY <1>1, <1>2, <1>3, <1>4, <1>5, <1>6, <1>7, <1>8, <1>9, <1>10, <1>11, <1>12, <1>13, <1>14 DEF Ingest


\* What follows a function of the store: the ingestion goes on.
LEMMA FinishType ==
    ASSUME Typed, NEW a \in Actor, op[a] # None, op[a].step # "read", Finish(a)
    PROVE  /\ op' \in [Actor -> Op \cup {None}] /\ OpOK'
           /\ pc' \in [Task -> Pc] /\ resume' \in [Task -> Pc] /\ me' \in [Task -> Fact \cup {None}]
           /\ item' \in [Task -> Fact \cup {None}] /\ shown' \in [Task -> SUBSET Fact]
           /\ gone' \in [Task -> SUBSET Fact] /\ left' \in [Task -> Seq(Fact)]
           /\ copy' \in [Task -> Record \cup {None}]
<1> USE DEF Typed
<1>1. op' = [op EXCEPT ![a] = None]
  BY DEF Finish
<1>2. op' \in [Actor -> Op \cup {None}] /\ OpOK'
  BY <1>1 DEF TypeOK, OpOK
<1>3. op[a] \in Op /\ op[a].fact \in Fact /\ op[a].out \in Record
  BY DEF TypeOK, OpOK, Op
<1>4. CASE op[a].task = None
  BY <1>2, <1>4 DEF Finish, TypeOK, work
<1>5. CASE op[a].task # None
  <2>1. Return(op[a])
    BY <1>5 DEF Finish
  <2> QED BY <1>2, <1>3, <2>1 DEF Return, TypeOK, Pc
<1> QED BY <1>2, <1>4, <1>5

\* The steps of the functions of the store keep the types.
LEMMA AccessType ==
    ASSUME Typed, NEW a \in Actor, Access(a)
    PROVE  TypeOK' /\ OpOK'
<1> USE DEF Typed
<1>1. CASE ReadMissing(a)
  <2>1. op' = [op EXCEPT ![a] = None] /\ UNCHANGED <<files, ids, search, me, shown, left, gone, item, copy, resume, past>>
    BY <1>1 DEF ReadMissing
  <2>2. op' \in [Actor -> Op \cup {None}] /\ OpOK'
    BY <2>1 DEF TypeOK, OpOK
  <2>3. pc' \in [Task -> Pc]
    <3>1. \/ pc' = pc
          \/ \E p : pc' = [pc EXCEPT ![op[a].task] = p] /\ (op[a].task \in Task => p \in Pc)
      <4>1. CASE op[a].task = None
        BY <1>1, <4>1 DEF ReadMissing
      <4>2. CASE op[a].task # None
        <5>1. pc' = [pc EXCEPT ![op[a].task] =
                IF op[a].kind = "supersede" /\ resume[op[a].task] = "more" THEN "first"
                ELSE resume[op[a].task]]
          BY <1>1, <4>2 DEF ReadMissing
        <5> QED BY <5>1 DEF TypeOK, Pc
      <4> QED BY <4>1, <4>2
    <3> QED BY <3>1 DEF TypeOK
  <2>4. phase' \in Phase /\ todo' \in [Fact -> Record \cup {None}]
    BY <1>1 DEF ReadMissing, TypeOK, sweep, Phase, Nothing
  <2> QED BY <2>1, <2>2, <2>3, <2>4 DEF TypeOK, files, ids, search, past
<1>2. CASE Read(a)
  <2> DEFINE f == op[a].fact
             r == Changed(op[a], ReadFact(f))
             next == IF op[a].kind \in Moves THEN "unlink" ELSE "write"
  <2>1. op[a] \in Op /\ f \in Fact /\ ReadFact(f) # None
    BY <1>2 DEF Read, TypeOK, Op
  <2>2. r \in Record
    <3>1. ReadFact(f) \in Record
      BY <2>1, ReadType
    <3>2. op[a].kind = "compress" => op[a].tier < 4
      BY <1>2 DEF Read, OpOK
    <3> QED BY <2>1, <3>1, <3>2, ChangedType
  <2>3. op' = [op EXCEPT ![a].out = r, ![a].step = next]
        /\ UNCHANGED <<files, ids, search, work, sweep, past>>
    BY <1>2 DEF Read
  <2>4. op' = [op EXCEPT ![a] = [op[a] EXCEPT !.out = r, !.step = next]]
    BY <2>3 DEF TypeOK
  <2> DEFINE o == [op[a] EXCEPT !.out = r, !.step = next]
  <2>5. /\ o \in Op /\ o.out = r /\ o.kind = op[a].kind /\ o.tier = op[a].tier
        /\ o.by = op[a].by /\ o.step = next /\ next # "new"
        /\ next = "unlink" => op[a].kind \in Moves
    BY <2>1, <2>2 DEF Op
  <2> HIDE DEF o, r
  <2>6. op' \in [Actor -> Op \cup {None}] /\ \A b \in Actor : op'[b] = IF b = a THEN o ELSE op[b]
    BY <2>4, <2>5 DEF TypeOK, o
  <2>7. op[a] # None
    BY <1>2 DEF Read
  <2>8. OpOK'
    BY <2>2, <2>5, <2>6, <2>7 DEF OpOK
  <2> QED BY <2>3, <2>6, <2>8 DEF TypeOK, files, ids, search, work, sweep, past
<1>3. ASSUME NEW next \in {"write", "new"}, op[a] # None, op[a].step # "read",
             next = "new" => op[a].kind = "supersede",
             op' = [op EXCEPT ![a].step = next]
      PROVE  op' \in [Actor -> Op \cup {None}] /\ OpOK'
  <2>1. op[a] \in Op
    BY <1>3 DEF TypeOK
  <2>2. op' = [op EXCEPT ![a] = [op[a] EXCEPT !.step = next]]
    BY <1>3 DEF TypeOK
  <2> DEFINE o == [op[a] EXCEPT !.step = next]
  <2>3. /\ o \in Op /\ o.out = op[a].out /\ o.kind = op[a].kind /\ o.tier = op[a].tier
        /\ o.by = op[a].by /\ o.step = next
    BY <2>1 DEF Op
  <2> HIDE DEF o
  <2>4. op' \in [Actor -> Op \cup {None}] /\ \A b \in Actor : op'[b] = IF b = a THEN o ELSE op[b]
    BY <2>2, <2>3 DEF TypeOK, o
  <2> QED BY <1>3, <2>3, <2>4 DEF OpOK
<1>4. CASE Unlink(a)
  <2>1. /\ op[a] # None /\ op[a].step # "read" /\ op' = [op EXCEPT ![a].step = "write"]
        /\ facts' = [facts EXCEPT ![op[a].fact] = None]
        /\ UNCHANGED <<archive, ids, search, work, sweep, past>>
    BY <1>4 DEF Unlink
  <2> QED BY <1>3, <2>1 DEF TypeOK, ids, search, work, sweep, past
<1>5. CASE Write(a)
  <2>1. op[a] # None /\ op[a].step # "read" /\ Put(op[a].fact, op[a].out) /\ op[a].out \in Record
    BY <1>5 DEF Write, OpOK
  <2>2. /\ facts' \in [Fact -> {x \in Record : x.state \in Active} \cup {None}]
        /\ archive' \in [Fact -> {x \in Record : x.state \notin Active} \cup {None}]
    BY <2>1, PutType
  <2>3. UNCHANGED <<ids, search, sweep, past>>
    BY <1>5 DEF Write
  <2>4. CASE op[a].kind = "supersede"
    BY <1>3, <1>5, <2>1, <2>2, <2>3, <2>4 DEF Write, TypeOK, ids, search, work, sweep, past
  <2>5. CASE op[a].kind # "supersede"
    <3>1. Finish(a)
      BY <1>5, <2>5 DEF Write
    <3> QED BY <2>1, <2>2, <2>3, <3>1, FinishType DEF TypeOK, ids, search, sweep, past
  <2> QED BY <2>4, <2>5
<1>6. CASE WriteNew(a)
  <2>1. op[a] # None /\ op[a].step # "read" /\ Put(op[a].by, Fresh) /\ Finish(a)
        /\ UNCHANGED <<ids, search, sweep, past>>
    BY <1>6 DEF WriteNew
  <2>2. /\ facts' \in [Fact -> {x \in Record : x.state \in Active} \cup {None}]
        /\ archive' \in [Fact -> {x \in Record : x.state \notin Active} \cup {None}]
    BY <2>1, FreshType, PutType
  <2> QED BY <2>1, <2>2, FinishType DEF TypeOK, ids, search, sweep, past
<1> QED BY <1>1, <1>2, <1>4, <1>5, <1>6 DEF Access


\* What the lifecycle does to a fact.
LEMMA VerdictType ==
    ASSUME TypeOK, NEW f \in Fact, todo[f] # None, phase # "idle", NEW v \in Verdict(f)
    PROVE  /\ v \in {"archive", "crystallize", "promote", "compress"}
           /\ v = "compress" => todo[f].tier < 4
<1>1. phase \in {"crystallize", "hypotheses", "compress", "reap"}
  BY DEF TypeOK, Phase
<1>2. CASE phase = "crystallize"
  BY <1>2 DEF Verdict
<1>3. CASE phase = "hypotheses"
  BY <1>3 DEF Verdict
<1>4. CASE phase = "compress"
  BY <1>4 DEF Verdict
<1>5. CASE phase = "reap"
  BY <1>5 DEF Verdict
<1> QED BY <1>1, <1>2, <1>3, <1>4, <1>5

\* The lifecycle's list.
LEMMA ListedType ==
    ASSUME TypeOK, NEW p
    PROVE  Listed(p) \in [Fact -> Record \cup {None}]
BY DEF Listed, TypeOK

\* Every step keeps the types.
LEMMA TypeNext ==
    ASSUME Typed, [Next]_vars
    PROVE  TypeOK' /\ OpOK'
<1> USE DEF Typed
<1>1. CASE Boot
  BY <1>1, StoreAlone DEF Boot, TypeOK, files, ids, work, sweep, past
<1>2. CASE Tick
  <2>1. clock' \in 0 .. MaxAge
    BY <1>2, VaultAssumption DEF Tick, TypeOK
  <2> QED BY <1>2, <2>1, StoreAlone DEF Tick, TypeOK, files, search, work, sweep, past
<1>3. CASE Crash
  <2>1. /\ crashes' = crashes + 1 /\ crashes < MaxCrashes
        /\ lost' = lost \cup UNION {Caught(op[a]) : a \in Actor}
        /\ op' = [a \in Actor |-> None]
        /\ pc' = [t \in Task |-> IF pc[t] = "ready" THEN "ready" ELSE "done"]
        /\ index' = Nothing /\ booted' = FALSE
        /\ phase' = "idle" /\ todo' = Nothing
        /\ me' = Each(None) /\ shown' = Each({}) /\ left' = Each(<<>>) /\ gone' = Each({})
        /\ item' = Each(None) /\ copy' = Each(None) /\ resume' = Each("done")
        /\ UNCHANGED <<files, ids, forgotten>>
    BY <1>3 DEF Crash
  <2>2. lost' \subseteq Fact
    <3>1. ASSUME NEW a \in Actor PROVE Caught(op[a]) \subseteq Fact
      <4>1. op[a] \in Op \/ op[a] = None
        BY DEF TypeOK
      <4>2. CASE op[a] = None
        BY <4>2 DEF Caught
      <4>3. CASE op[a] # None /\ op[a].step = "new"
        <5>1. op[a].by \in Fact
          BY <4>3 DEF OpOK
        <5> QED BY <4>3, <5>1 DEF Caught
      <4>4. CASE op[a] # None /\ op[a].step # "new"
        BY <4>1, <4>4 DEF Caught, Op
      <4> QED BY <4>2, <4>3, <4>4
    <3> QED BY <2>1, <3>1 DEF TypeOK
  <2>3. crashes' \in 0 .. MaxCrashes
    BY <2>1, VaultAssumption DEF TypeOK
  <2>4. op' \in [Actor -> Op \cup {None}] /\ OpOK'
    BY <2>1 DEF OpOK
  <2>5. /\ pc' \in [Task -> Pc] /\ resume' \in [Task -> Pc] /\ left' \in [Task -> Seq(Fact)]
        /\ me' \in [Task -> Fact \cup {None}] /\ item' \in [Task -> Fact \cup {None}]
        /\ shown' \in [Task -> SUBSET Fact] /\ gone' \in [Task -> SUBSET Fact]
        /\ copy' \in [Task -> Record \cup {None}]
    BY <2>1 DEF Each, Pc
  <2>6. /\ index' \in [Fact -> Record \cup {None}] /\ todo' \in [Fact -> Record \cup {None}]
        /\ booted' \in BOOLEAN /\ phase' \in Phase
    BY <2>1 DEF Nothing, Phase
  <2> QED BY <2>1, <2>2, <2>3, <2>4, <2>5, <2>6 DEF TypeOK, files, ids
<1>4. CASE SweepBegins
  BY <1>4, StoreAlone, ListedType DEF SweepBegins, TypeOK, Phase, files, ids, search, work, past
<1>5. CASE PhaseEnds
  <2>1. phase' \in Phase /\ todo' \in [Fact -> Record \cup {None}]
    <3>1. phase \in {"crystallize", "hypotheses", "compress", "reap"}
      BY <1>5 DEF PhaseEnds, TypeOK, Phase
    <3>2. phase' = Following(phase) /\ todo' = IF phase = "reap" THEN Nothing ELSE Listed(Following(phase))
      BY <1>5 DEF PhaseEnds
    <3>3. Following(phase) \in Phase
      BY <3>1 DEF Following, Phase
    <3> QED BY <3>2, <3>3, ListedType DEF Nothing
  <2> QED BY <1>5, <2>1, StoreAlone DEF PhaseEnds, TypeOK, files, ids, search, work, past
<1>6. ASSUME NEW f \in Fact, Judge(f) PROVE TypeOK' /\ OpOK'
  <2>1. /\ phase # "idle" /\ todo[f] # None /\ todo' = [todo EXCEPT ![f] = None]
        /\ UNCHANGED <<files, ids, search, work, phase, past>>
    BY <1>6 DEF Judge
  <2>2. op' \in [Actor -> Op \cup {None}] /\ OpOK'
    <3>1. CASE op' = op
      BY <3>1, StoreAlone DEF TypeOK
    <3>2. ASSUME NEW v \in Verdict(f),
                 op' = [op EXCEPT !["thread"] = [Call(v, f, None, None) EXCEPT !.tier = todo[f].tier]]
          PROVE  op' \in [Actor -> Op \cup {None}] /\ OpOK'
      <4> DEFINE o == [Call(v, f, None, None) EXCEPT !.tier = todo[f].tier]
      <4>1. v \in Moves \cup Rewrites /\ (v = "compress" => todo[f].tier < 4)
        BY <2>1, VerdictType DEF Moves, Rewrites
      <4>2. todo[f].tier \in Tier
        BY <2>1 DEF TypeOK, Record
      <4>3. v # "supersede"
        BY <2>1, VerdictType
      <4>4. /\ Call(v, f, None, None) \in Op /\ Call(v, f, None, None).kind = v
            /\ Call(v, f, None, None).step = "read"
        BY <4>1, CallType
      <4>5. o \in Op /\ o.step = "read" /\ o.kind = v /\ o.tier = todo[f].tier
        BY <4>2, <4>4 DEF Op
      <4>6. op' = [op EXCEPT !["thread"] = o]
        BY <3>2
      <4> HIDE DEF o
      <4> QED BY <4>1, <4>3, <4>5, <4>6, CalledOK DEF Actor
    <3> QED BY <1>6, <3>1, <3>2 DEF Judge
  <2> QED BY <2>1, <2>2 DEF TypeOK, files, ids, search, work, past
<1>7. ASSUME NEW f \in Fact, Forget(f) PROVE TypeOK' /\ OpOK'
  <2>1. /\ op' = [op EXCEPT !["loop"] = Call("archive", f, None, None)]
        /\ forgotten' = forgotten \cup {f} /\ UNCHANGED <<files, ids, search, work, sweep, crashes, lost>>
    BY <1>7 DEF Forget
  <2>2. op' \in [Actor -> Op \cup {None}] /\ OpOK'
    <3> DEFINE o == Call("archive", f, None, None)
    <3>1. o \in Op /\ o.step = "read" /\ o.kind = "archive"
      BY CallType DEF Moves, Rewrites
    <3> HIDE DEF o
    <3> QED BY <2>1, <3>1, CalledOK DEF Actor, o
  <2> QED BY <2>1, <2>2 DEF TypeOK, files, ids, search, work, sweep
<1>8. CASE UNCHANGED vars
  BY <1>8, StoreAlone DEF vars, TypeOK, files, ids, search, work, sweep, past
<1> QED
  BY <1>1, <1>2, <1>3, <1>4, <1>5, <1>6, <1>7, <1>8, IngestType, AccessType DEF Next, Sweep

---------------------------------------------------------------------------
(* The fact an ingestion has written.                                      *)

\* An ingestion comes among those that may supersede others by writing its fact.
LEMMA LaterIngest ==
    ASSUME Typed, NEW u \in Task, Ingest(u), NEW t \in Task, pc'[t] \in Later \/ resume'[t] \in Later
    PROVE  \/ (pc[t] \in Later \/ resume[t] \in Later) /\ me'[t] = me[t]
           \/ me'[t] \in Fact /\ facts'[me'[t]] # None
<1> USE DEF Typed
<1>1. CASE UNCHANGED <<pc, me, resume>>
  BY <1>1
<1>2. CASE Ask(u) \/ AnswerNothing(u) \/ AnswerCreate(u) \/ Dedup(u)
  <2>1. me' = me /\ resume' = resume
    BY <1>2 DEF Ask, AnswerNothing, AnswerCreate, Dedup
  <2>2. \E p \in {"asked", "done", "searching", "found"} : pc' = [pc EXCEPT ![u] = p]
    BY <1>2 DEF Ask, AnswerNothing, AnswerCreate, Dedup
  <2> QED BY <2>1, <2>2 DEF TypeOK, Later
<1>3. CASE AnswerReinforce(u) \/ ReinforceDuplicate(u)
  <2>1. me' = me /\ pc' = [pc EXCEPT ![u] = "storing"] /\ resume' = [resume EXCEPT ![u] = "done"]
    BY <1>3 DEF AnswerReinforce, ReinforceDuplicate, Store
  <2> QED BY <2>1 DEF TypeOK, Later
<1>4. CASE AnswerSupersede(u)
  <2>1. /\ me' = [me EXCEPT ![u] = born + 1] /\ pc' = [pc EXCEPT ![u] = "storing"]
        /\ resume' = [resume EXCEPT ![u] = "done"]
    BY <1>4 DEF AnswerSupersede, Store, NewFact
  <2> QED BY <2>1 DEF TypeOK, Later
<1>5. CASE Create(u)
  <2>1. /\ NewFact(u) /\ Put(born + 1, Fresh) /\ pc' = [pc EXCEPT ![u] = "indexing"]
        /\ resume' = [resume EXCEPT ![u] = "linking"]
    BY <1>5 DEF Create
  <2>2. born + 1 \in Fact /\ me' = [me EXCEPT ![u] = born + 1]
    BY <2>1, NewFactType
  <2>3. facts' = [facts EXCEPT ![born + 1] = Fresh]
    BY <2>1, FreshType DEF Put
  <2>4. facts'[born + 1] # None
    BY <2>2, <2>3, FreshType DEF TypeOK
  <2>5. CASE t = u
    BY <2>2, <2>4, <2>5 DEF TypeOK
  <2>6. CASE t # u
    BY <2>1, <2>2, <2>6 DEF TypeOK
  <2> QED BY <2>5, <2>6
<1>6. CASE AutoLink(u) \/ Contradict(u) \/ Reweave(u) \/ First(u) \/ More(u)
  <2>1. me' = me /\ pc[u] \in Later
    BY <1>6 DEF AutoLink, Contradict, Reweave, First, More, At, Later
  <2>2. \A s \in Task : s # u => pc'[s] = pc[s] /\ resume'[s] = resume[s]
    BY <1>6 DEF AutoLink, Contradict, Reweave, First, More, Supersede, Exhausted, Store, TypeOK
  <2> QED BY <2>1, <2>2
<1>7. CASE UpdateIndex(u)
  BY <1>7 DEF UpdateIndex, TypeOK
<1> QED BY <1>2, <1>3, <1>4, <1>5, <1>6, <1>7 DEF Ingest

\* Nothing else brings it there.
LEMMA LaterNext ==
    ASSUME Typed, [Next]_vars, NEW t \in Task, pc'[t] \in Later \/ resume'[t] \in Later
    PROVE  \/ (pc[t] \in Later \/ resume[t] \in Later) /\ me'[t] = me[t]
           \/ me'[t] \in Fact /\ facts'[me'[t]] # None
<1> USE DEF Typed
<1>1. CASE UNCHANGED work
  BY <1>1 DEF work
<1>2. CASE Boot \/ Tick \/ Sweep \/ (\E f \in Fact : Forget(f)) \/ UNCHANGED vars
  BY <1>1, <1>2 DEF Boot, Tick, Sweep, SweepBegins, PhaseEnds, Judge, Forget, vars
<1>3. CASE Crash
  <2>1. pc'[t] \in {"ready", "done"} /\ resume'[t] = "done"
    BY <1>3 DEF Crash, Each
  <2> QED BY <2>1 DEF Later
<1>4. ASSUME NEW a \in Actor, op[a] # None, Finish(a)
      PROVE  \/ (pc[t] \in Later \/ resume[t] \in Later) /\ me'[t] = me[t]
             \/ me'[t] \in Fact /\ facts'[me'[t]] # None
  <2>1. CASE op[a].task = None
    BY <1>1, <1>4, <2>1 DEF Finish
  <2>2. CASE op[a].task # None
    <3>1. Return(op[a])
      BY <1>4, <2>2 DEF Finish
    <3>2. me' = me /\ resume' = resume
      BY <3>1 DEF Return
    <3>3. \E p \in {"indexing", "swapping", "removing"} : pc' = [pc EXCEPT ![op[a].task] = p]
      BY <3>1 DEF Return
    <3> QED BY <3>2, <3>3 DEF TypeOK, Later
  <2> QED BY <2>1, <2>2
<1>5. ASSUME NEW a \in Actor, Access(a)
      PROVE  \/ (pc[t] \in Later \/ resume[t] \in Later) /\ me'[t] = me[t]
             \/ me'[t] \in Fact /\ facts'[me'[t]] # None
  <2>1. CASE Read(a) \/ Unlink(a)
    BY <1>1, <2>1 DEF Read, Unlink
  <2>2. CASE Write(a)
    BY <1>1, <1>4, <2>2 DEF Write
  <2>3. CASE WriteNew(a)
    BY <1>4, <2>3 DEF WriteNew
  <2>4. CASE ReadMissing(a)
    <3>1. me' = me /\ resume' = resume
      BY <2>4 DEF ReadMissing
    <3>2. CASE pc' = pc
      BY <3>1, <3>2
    <3>3. CASE pc' # pc
      <4>1. pc' = [pc EXCEPT ![op[a].task] =
                IF op[a].kind = "supersede" /\ resume[op[a].task] = "more" THEN "first"
                ELSE resume[op[a].task]]
        BY <2>4, <3>3 DEF ReadMissing
      <4> QED BY <3>1, <4>1 DEF TypeOK, Later
    <3> QED BY <3>2, <3>3
  <2> QED BY <1>5, <2>1, <2>2, <2>3, <2>4 DEF Access
<1> QED BY <1>2, <1>3, <1>5, LaterIngest DEF Next

\* Every step keeps the types.
LEMMA TypedNext ==
    ASSUME Typed, [Next]_vars
    PROVE  Typed'
<1>1. TypeOK' /\ OpOK'
  BY TypeNext
<1>2. MeOK'
  BY LaterNext DEF MeOK, Typed
<1> QED BY <1>1, <1>2 DEF Typed

---------------------------------------------------------------------------
(* What is kept.                                                           *)

\* A step outside the functions of the store: it writes at most a new record, and
\* calls at most one of them.
Quiet ==
    /\ UNCHANGED files \/ \E f \in Fact : Put(f, Fresh)
    /\ \/ UNCHANGED op
       \/ \E a \in Actor, o \in Op :
             /\ op[a] = None /\ op' = [op EXCEPT ![a] = o] /\ o.step = "read"
             /\ o.kind = "retire" => \E t \in Task : pc[t] \in Later /\ o.by = me[t]
    /\ UNCHANGED lost

\* The ingestion's call.
LEMMA StoreQuiet ==
    ASSUME Typed, NEW t \in Task, NEW kind \in {"reinforce", "supersede", "retire"}, NEW f \in Fact,
           NEW by \in Fact \cup {None}, NEW then, Store(t, kind, f, by, then), op["loop"] = None,
           kind = "retire" => pc[t] \in Later /\ by = me[t]
    PROVE  \E a \in Actor, o \in Op :
             /\ op[a] = None /\ op' = [op EXCEPT ![a] = o] /\ o.step = "read"
             /\ o.kind = "retire" => \E u \in Task : pc[u] \in Later /\ o.by = me[u]
<1>1. op' = [op EXCEPT !["loop"] = Call(kind, f, by, t)]
  BY DEF Store
<1>2. /\ Call(kind, f, by, t) \in Op /\ Call(kind, f, by, t).kind = kind
      /\ Call(kind, f, by, t).step = "read" /\ Call(kind, f, by, t).by = by
  BY CallType DEF Moves, Rewrites
<1> QED BY <1>1, <1>2 DEF Actor

\* The call for the next fact of the list.
LEMMA SupersedeQuiet ==
    ASSUME Typed, NEW t \in Task, NEW kind \in {"supersede", "retire"}, NEW then,
           Supersede(t, kind, then), op["loop"] = None, pc[t] \in Later
    PROVE  \E a \in Actor, o \in Op :
             /\ op[a] = None /\ op' = [op EXCEPT ![a] = o] /\ o.step = "read"
             /\ o.kind = "retire" => \E u \in Task : pc[u] \in Later /\ o.by = me[u]
<1>1. Store(t, kind, Head(left[t]), me[t], then) /\ Head(left[t]) \in Fact
  BY DEF Supersede, Typed, TypeOK
<1>2. me[t] \in Fact
  BY DEF Typed, MeOK
<1> QED BY <1>1, <1>2, StoreQuiet

\* The ingestions are quiet.
LEMMA IngestQuiet ==
    ASSUME Typed, NEW t \in Task, Ingest(t)
    PROVE  Quiet
<1> USE DEF Typed
<1>1. UNCHANGED lost
  BY DEF Ingest, Ask, AnswerNothing, AnswerCreate, AnswerReinforce, AnswerSupersede, Dedup,
         ReinforceDuplicate, Create, AutoLink, Contradict, Reweave, First, More, UpdateIndex, past
<1>2. UNCHANGED files \/ \E f \in Fact : Put(f, Fresh)
  <2>1. CASE Create(t)
    <3>1. born + 1 \in Fact /\ Put(born + 1, Fresh)
      BY <2>1, NewFactType DEF Create
    <3> QED BY <3>1
  <2>2. CASE AutoLink(t)
    <3>1. me[t] \in Fact
      BY <2>2 DEF AutoLink, At, Later, MeOK
    <3>2. Put(me[t], Fresh) \/ UNCHANGED files
      BY <2>2 DEF AutoLink
    <3> QED BY <3>1, <3>2
  <2> QED
    BY <2>1, <2>2 DEF Ingest, Ask, AnswerNothing, AnswerCreate, AnswerReinforce, AnswerSupersede, Dedup,
           ReinforceDuplicate, Contradict, Reweave, First, More, UpdateIndex
<1>3. \/ UNCHANGED op
      \/ \E a \in Actor, o \in Op :
            /\ op[a] = None /\ op' = [op EXCEPT ![a] = o] /\ o.step = "read"
            /\ o.kind = "retire" => \E u \in Task : pc[u] \in Later /\ o.by = me[u]
  <2>1. CASE AnswerReinforce(t)
    <3>1. PICK f \in shown[t] : Store(t, "reinforce", f, None, "done")
      BY <2>1 DEF AnswerReinforce
    <3>2. f \in Fact /\ op["loop"] = None
      BY <2>1 DEF AnswerReinforce, At, TypeOK
    <3> QED BY <3>1, <3>2, StoreQuiet
  <2>2. CASE AnswerSupersede(t)
    <3>1. PICK f \in shown[t] : Store(t, "supersede", f, born + 1, "done")
      BY <2>2 DEF AnswerSupersede
    <3>2. f \in Fact /\ op["loop"] = None /\ born + 1 \in Fact
      BY <2>2, NewFactType DEF AnswerSupersede, At, TypeOK
    <3> QED BY <3>1, <3>2, StoreQuiet
  <2>3. CASE ReinforceDuplicate(t)
    <3>1. Store(t, "reinforce", item[t], None, "done") /\ item[t] \in Fact /\ op["loop"] = None
      BY <2>3 DEF ReinforceDuplicate, At, TypeOK
    <3> QED BY <3>1, StoreQuiet
  <2>4. CASE Contradict(t)
    <3>1. op["loop"] = None /\ pc[t] \in Later
      BY <2>4 DEF Contradict, At, Later
    <3>2. UNCHANGED op \/ Supersede(t, "supersede", "contradicting")
      BY <2>4 DEF Contradict, Exhausted
    <3> QED BY <3>1, <3>2, SupersedeQuiet
  <2>5. CASE First(t)
    <3>1. op["loop"] = None /\ pc[t] \in Later
      BY <2>5 DEF First, At, Later
    <3>2. UNCHANGED op \/ Supersede(t, "supersede", "more")
      BY <2>5 DEF First, Exhausted
    <3> QED BY <3>1, <3>2, SupersedeQuiet
  <2>6. CASE More(t)
    <3>1. op["loop"] = None /\ pc[t] \in Later
      BY <2>6 DEF More, At, Later
    <3>2. UNCHANGED op \/ Supersede(t, "retire", "more")
      BY <2>6 DEF More, Exhausted
    <3> QED BY <3>1, <3>2, SupersedeQuiet
  <2> QED
    BY <2>1, <2>2, <2>3, <2>4, <2>5, <2>6 DEF Ingest, Ask, AnswerNothing, AnswerCreate, Dedup,
           Create, AutoLink, Reweave, UpdateIndex
<1> QED BY <1>1, <1>2, <1>3 DEF Quiet

\* All steps but a crash and those of the functions of the store are quiet.
LEMMA QuietNext ==
    ASSUME Typed, [Next]_vars
    PROVE  Quiet \/ Crash \/ \E a \in Actor : Access(a)
<1> USE DEF Typed
<1>1. CASE Boot \/ Tick \/ SweepBegins \/ PhaseEnds \/ UNCHANGED vars
  BY <1>1 DEF Boot, Tick, SweepBegins, PhaseEnds, vars, past, Quiet
<1>2. ASSUME NEW f \in Fact, Judge(f) PROVE Quiet
  <2>1. UNCHANGED <<files, lost>> /\ op["thread"] = None /\ phase # "idle" /\ todo[f] # None
    BY <1>2 DEF Judge, past
  <2>2. CASE UNCHANGED op
    BY <2>1, <2>2 DEF Quiet
  <2>3. ASSUME NEW v \in Verdict(f),
               op' = [op EXCEPT !["thread"] = [Call(v, f, None, None) EXCEPT !.tier = todo[f].tier]]
        PROVE  Quiet
    <3> DEFINE o == [Call(v, f, None, None) EXCEPT !.tier = todo[f].tier]
    <3>1. v \in {"archive", "crystallize", "promote", "compress"}
      BY <2>1, VerdictType
    <3>2. todo[f].tier \in Tier
      BY <2>1 DEF TypeOK, Record
    <3>3. /\ Call(v, f, None, None) \in Op /\ Call(v, f, None, None).kind = v
          /\ Call(v, f, None, None).step = "read"
      BY <3>1, CallType DEF Moves, Rewrites
    <3>4. o \in Op /\ o.step = "read" /\ o.kind = v
      BY <3>2, <3>3 DEF Op
    <3>5. op' = [op EXCEPT !["thread"] = o]
      BY <2>3
    <3> HIDE DEF o
    <3> QED BY <2>1, <3>1, <3>4, <3>5 DEF Quiet, Actor
  <2> QED BY <1>2, <2>2, <2>3 DEF Judge
<1>3. ASSUME NEW f \in Fact, Forget(f) PROVE Quiet
  <2> DEFINE o == Call("archive", f, None, None)
  <2>1. UNCHANGED <<files, lost>> /\ op["loop"] = None /\ op' = [op EXCEPT !["loop"] = o]
    BY <1>3 DEF Forget
  <2>2. o \in Op /\ o.step = "read" /\ o.kind = "archive"
    BY CallType DEF Moves, Rewrites
  <2> HIDE DEF o
  <2> QED BY <2>1, <2>2 DEF Quiet, Actor
<1> QED BY <1>1, <1>2, <1>3, IngestQuiet DEF Next, Sweep

\* A quiet step takes no file away and ends no function of the store.
LEMMA QuietKeeps ==
    ASSUME Typed, Quiet
    PROVE  /\ \A f \in Fact : Kept(f) => Kept(f)'
           /\ \A f \in Fact : facts'[f] = facts[f] \/ facts'[f] = Fresh
           /\ \A f \in Fact : archive'[f] = archive[f] \/ archive'[f] = Fresh
<1> USE DEF Typed
<1>1. /\ \A f \in Fact : facts'[f] = facts[f] \/ facts'[f] = Fresh
      /\ \A f \in Fact : archive'[f] = archive[f] \/ archive'[f] = Fresh
  <2>1. CASE UNCHANGED files
    BY <2>1 DEF files
  <2>2. ASSUME NEW f \in Fact, Put(f, Fresh)
        PROVE  /\ \A g \in Fact : facts'[g] = facts[g] \/ facts'[g] = Fresh
               /\ \A g \in Fact : archive'[g] = archive[g] \/ archive'[g] = Fresh
    BY <2>2, FreshType, PutType
  <2> QED BY <2>1, <2>2 DEF Quiet
<1>2. \A a \in Actor : Caught(op[a]) \subseteq Caught(op'[a])
  <2>1. CASE UNCHANGED op
    BY <2>1
  <2>2. ASSUME NEW a \in Actor, NEW o \in Op, op[a] = None, op' = [op EXCEPT ![a] = o]
        PROVE  \A b \in Actor : Caught(op[b]) \subseteq Caught(op'[b])
    <3>1. Caught(op[a]) = {}
      BY <2>2 DEF Caught
    <3>2. \A b \in Actor : b # a => op'[b] = op[b]
      BY <2>2 DEF TypeOK
    <3> QED BY <3>1, <3>2
  <2> QED BY <2>1, <2>2 DEF Quiet
<1>3. lost' = lost
  BY DEF Quiet
<1>4. ASSUME NEW f \in Fact, Kept(f) PROVE Kept(f)'
  <2>1. CASE facts[f] # None \/ archive[f] # None
    BY <1>1, <2>1, FreshType DEF Kept
  <2>2. CASE f \in lost
    BY <1>3, <2>2 DEF Kept
  <2>3. ASSUME NEW a \in Actor, f \in Caught(op[a]) PROVE Kept(f)'
    BY <1>2, <2>3 DEF Kept
  <2> QED BY <1>4, <2>1, <2>2, <2>3 DEF Kept
<1> QED BY <1>1, <1>4

\* A function of the store that finds a file missing, reads or finishes one.
LEMMA OthersCaught ==
    ASSUME Typed, NEW a \in Actor, NEW x, op' = [op EXCEPT ![a] = x]
    PROVE  op'[a] = x /\ \A b \in Actor : b # a => op'[b] = op[b]
BY DEF Typed, TypeOK

\* The step of a function of the store: what it writes and what becomes of it.
LEMMA AccessStep ==
    ASSUME Typed, NEW a \in Actor, Access(a)
    PROVE  /\ op[a] # None /\ op[a] \in Op
           /\ \A b \in Actor : b # a => op'[b] = op[b]
           /\ UNCHANGED lost
           /\ \/ UNCHANGED files /\ op[a].step = "read" /\ op'[a] = None
              \/ /\ UNCHANGED files /\ op[a].step = "read" /\ ReadFact(op[a].fact) # None
                 /\ op'[a] = [op[a] EXCEPT !.out = Changed(op[a], ReadFact(op[a].fact)),
                                           !.step = IF op[a].kind \in Moves THEN "unlink" ELSE "write"]
              \/ /\ op[a].step = "unlink" /\ archive' = archive
                 /\ facts' = [facts EXCEPT ![op[a].fact] = None]
                 /\ op'[a] = [op[a] EXCEPT !.step = "write"]
              \/ /\ op[a].step = "write" /\ Put(op[a].fact, op[a].out)
                 /\ IF op[a].kind = "supersede" THEN op'[a] = [op[a] EXCEPT !.step = "new"]
                    ELSE op'[a] = None
              \/ op[a].step = "new" /\ Put(op[a].by, Fresh) /\ op'[a] = None
<1> USE DEF Typed
<1>1. op[a] # None /\ op[a] \in Op
  BY DEF Access, ReadMissing, Read, Unlink, Write, WriteNew, TypeOK
<1>2. UNCHANGED lost
  BY DEF Access, ReadMissing, Read, Unlink, Write, WriteNew, past
<1>3. CASE ReadMissing(a)
  BY <1>1, <1>2, <1>3, OthersCaught DEF ReadMissing
<1>4. CASE Read(a)
  <2>1. op' = [op EXCEPT ![a] = [op[a] EXCEPT !.out = Changed(op[a], ReadFact(op[a].fact)),
                                              !.step = IF op[a].kind \in Moves THEN "unlink" ELSE "write"]]
    BY <1>4 DEF Read, TypeOK
  <2> QED BY <1>1, <1>2, <1>4, <2>1, OthersCaught DEF Read
<1>5. CASE Unlink(a)
  <2>1. op' = [op EXCEPT ![a] = [op[a] EXCEPT !.step = "write"]]
    BY <1>5 DEF Unlink, TypeOK
  <2> QED BY <1>1, <1>2, <1>5, <2>1, OthersCaught DEF Unlink
<1>6. CASE Write(a)
  <2>1. CASE op[a].kind = "supersede"
    <3>1. op' = [op EXCEPT ![a] = [op[a] EXCEPT !.step = "new"]]
      BY <1>6, <2>1 DEF Write, TypeOK
    <3> QED BY <1>1, <1>2, <1>6, <2>1, <3>1, OthersCaught DEF Write
  <2>2. CASE op[a].kind # "supersede"
    <3>1. op' = [op EXCEPT ![a] = None]
      BY <1>6, <2>2 DEF Write, Finish
    <3> QED BY <1>1, <1>2, <1>6, <2>2, <3>1, OthersCaught DEF Write
  <2> QED BY <2>1, <2>2
<1>7. CASE WriteNew(a)
  <2>1. op' = [op EXCEPT ![a] = None]
    BY <1>7 DEF WriteNew, Finish
  <2> QED BY <1>1, <1>2, <1>7, <2>1, OthersCaught DEF WriteNew
<1> QED BY <1>3, <1>4, <1>5, <1>6, <1>7 DEF Access

\* A step of a function of the store leaves every fact a file or has it in its hands.
LEMMA AccessKeeps ==
    ASSUME Typed, NEW a \in Actor, Access(a), NEW f \in Fact, Kept(f)
    PROVE  Kept(f)'
<1> USE DEF Typed
<1> DEFINE o == op[a]
<1>1. /\ o # None /\ o \in Op /\ UNCHANGED lost
      /\ \A b \in Actor : b # a => op'[b] = op[b]
  BY AccessStep
<1>2. CASE f \in lost \/ \E b \in Actor : b # a /\ f \in Caught(op[b])
  BY <1>1, <1>2 DEF Kept
<1>3. CASE facts[f] # None \/ archive[f] # None \/ f \in Caught(o)
  <2>1. CASE UNCHANGED files /\ o.step = "read"
    <3>1. Caught(o) = {}
      BY <1>1, <2>1 DEF Caught
    <3> QED BY <1>3, <2>1, <3>1 DEF Kept, files
  <2>2. CASE /\ o.step = "unlink" /\ archive' = archive
             /\ facts' = [facts EXCEPT ![o.fact] = None]
             /\ op'[a] = [op[a] EXCEPT !.step = "write"]
    <3>1. Caught(o) = {}
      BY <1>1, <2>2 DEF Caught
    <3>2. CASE f = o.fact
      <4>1. o.kind \in Moves
        BY <1>1, <2>2 DEF OpOK
      <4>2. op'[a] # None /\ op'[a].step = "write" /\ op'[a].kind = o.kind /\ op'[a].fact = o.fact
        BY <1>1, <2>2, VaultAssumption DEF Op
      <4>3. f \in Caught(op'[a])
        BY <3>2, <4>1, <4>2 DEF Caught
      <4> QED BY <4>3 DEF Kept
    <3>3. CASE f # o.fact
      BY <1>3, <2>2, <3>1, <3>3 DEF Kept, TypeOK
    <3> QED BY <3>2, <3>3
  <2>3. CASE /\ o.step = "write" /\ Put(o.fact, o.out)
    <3>1. o.out \in Record
      BY <1>1, <2>3 DEF OpOK
    <3>2. o.out # None
      BY <3>1, VaultAssumption
    <3>3. CASE f = o.fact
      BY <2>3, <3>1, <3>2, <3>3, PutType DEF Kept
    <3>4. CASE f # o.fact
      <4>1. facts'[f] = facts[f] /\ archive'[f] = archive[f]
        BY <2>3, <3>1, <3>4, PutType
      <4>2. f \notin Caught(o)
        BY <1>1, <2>3, <3>4 DEF Caught
      <4> QED BY <1>3, <4>1, <4>2 DEF Kept
    <3> QED BY <3>3, <3>4
  <2>4. CASE o.step = "new" /\ Put(o.by, Fresh)
    <3>1. CASE f = o.by
      BY <2>4, <3>1, FreshType, PutType DEF Kept
    <3>2. CASE f # o.by
      <4>1. facts'[f] = facts[f] /\ archive'[f] = archive[f]
        BY <2>4, <3>2, FreshType, PutType
      <4>2. f \notin Caught(o)
        BY <1>1, <2>4, <3>2 DEF Caught
      <4> QED BY <1>3, <4>1, <4>2 DEF Kept
    <3> QED BY <3>1, <3>2
  <2> QED BY <2>1, <2>2, <2>3, <2>4, AccessStep
<1> QED BY <1>2, <1>3 DEF Kept

\* Nothing a fact has is lost, but for what is noted in a crash.
LEMMA KeptNext ==
    ASSUME Typed, [Next]_vars, NEW f \in Fact, Kept(f)
    PROVE  Kept(f)'
<1>1. CASE Quiet
  BY <1>1, QuietKeeps
<1>2. CASE Crash
  <2>1. facts' = facts /\ archive' = archive /\ lost' = lost \cup UNION {Caught(op[a]) : a \in Actor}
    BY <1>2 DEF Crash, files
  <2> QED BY <2>1 DEF Kept
<1>3. ASSUME NEW a \in Actor, Access(a) PROVE Kept(f)'
  BY <1>3, AccessKeeps
<1> QED BY <1>1, <1>2, <1>3, QuietNext

---------------------------------------------------------------------------
(* The successor of a fact.                                                *)

\* The kept facts become no fewer.
LEMMA SafeGrows ==
    ASSUME Typed, [Next]_vars
    PROVE  Safe \subseteq Safe'
BY KeptNext DEF Safe

\* What is written is sound; so are all records.
LEMMA FilesSound ==
    ASSUME IInv, [Next]_vars, NEW x, x # None => Sound(x, Safe'),
           \A f \in Fact : facts'[f] = facts[f] \/ facts'[f] = x \/ facts'[f] = None,
           \A f \in Fact : archive'[f] = archive[f] \/ archive'[f] = x
    PROVE  Recorded'
<1>1. \A f \in Fact : facts[f] # None => Sound(facts[f], Safe)
  BY DEF IInv, Sequel, Recorded
<1>2. \A f \in Fact : archive[f] # None => Sound(archive[f], Safe)
  BY DEF IInv, Sequel, Recorded
<1>3. Safe \subseteq Safe'
  BY SafeGrows DEF IInv
<1> QED BY <1>1, <1>2, <1>3 DEF Recorded, Sound

\* No file changes.
LEMMA RecordedSame ==
    ASSUME IInv, [Next]_vars, UNCHANGED files
    PROVE  Recorded'
<1>1. facts' = facts /\ archive' = archive
  BY DEF files
<1> QED BY <1>1, SafeGrows DEF IInv, Sequel, Recorded, Sound

\* What a function of the store reads and makes of it.
LEMMA ReadSound ==
    ASSUME IInv, NEW a \in Actor, op[a] # None, op[a].step = "read", ReadFact(op[a].fact) # None
    PROVE  IF op[a].kind = "supersede"
           THEN Changed(op[a], ReadFact(op[a].fact)).by = op[a].by
           ELSE Sound(Changed(op[a], ReadFact(op[a].fact)), Safe)
<1> DEFINE o == op[a]
           r == ReadFact(o.fact)
<1> USE DEF IInv, Typed
<1>1. o \in Op /\ o.fact \in Fact /\ (o.kind = "compress" => o.tier < 4)
  BY DEF TypeOK, OpOK, Op
<1>2. r \in Record /\ (r = facts[o.fact] \/ r = archive[o.fact])
  BY <1>1, ReadType
<1>3. /\ o.kind \in {"supersede", "retire"} => Changed(o, r).by = o.by
      /\ o.kind \notin {"supersede", "retire"} => Changed(o, r).by = r.by
  BY <1>1, <1>2, ChangedType
<1>4. Sound(r, Safe)
  BY <1>1, <1>2 DEF Sequel, Recorded
<1>5. o.kind = "retire" => o.by \in Safe
  BY DEF Sequel, Pending
<1> QED BY <1>3, <1>4, <1>5 DEF Sound

\* An ingestion's fact stays kept.
LEMMA WrittenNext ==
    ASSUME IInv, [Next]_vars
    PROVE  Written'
<1>1. SUFFICES ASSUME NEW t \in Task, pc'[t] \in Later \/ resume'[t] \in Later
               PROVE  me'[t] \in Safe'
  BY DEF Written
<1>2. \/ (pc[t] \in Later \/ resume[t] \in Later) /\ me'[t] = me[t]
      \/ me'[t] \in Fact /\ facts'[me'[t]] # None
  BY <1>1, LaterNext DEF IInv
<1>3. Safe \subseteq Safe'
  BY SafeGrows DEF IInv
<1>4. CASE (pc[t] \in Later \/ resume[t] \in Later) /\ me'[t] = me[t]
  BY <1>3, <1>4 DEF IInv, Sequel, Written
<1>5. CASE me'[t] \in Fact /\ facts'[me'[t]] # None
  BY <1>5 DEF Safe, Kept
<1> QED BY <1>2, <1>4, <1>5

\* A quiet step.
LEMMA QuietSequel ==
    ASSUME IInv, [Next]_vars, Quiet
    PROVE  Recorded' /\ Pending'
<1>1. Recorded'
  <2>1. Sound(Fresh, Safe')
    BY FreshType DEF Sound
  <2> QED BY <2>1, FilesSound, QuietKeeps DEF IInv
<1>2. Safe \subseteq Safe'
  BY SafeGrows DEF IInv
<1>3. Pending'
  <2>1. CASE UNCHANGED op
    BY <1>2, <2>1 DEF IInv, Sequel, Pending, Sound
  <2>2. ASSUME NEW a \in Actor, NEW o \in Op, op[a] = None, op' = [op EXCEPT ![a] = o], o.step = "read",
               o.kind = "retire" => \E t \in Task : pc[t] \in Later /\ o.by = me[t]
        PROVE  Pending'
    <3>1. op'[a] = o /\ \A b \in Actor : b # a => op'[b] = op[b]
      BY <2>2, OthersCaught DEF IInv
    <3>2. o.kind = "retire" => o.by \in Safe'
      BY <1>2, <2>2 DEF IInv, Sequel, Written
    <3> QED BY <1>2, <2>2, <3>1, <3>2 DEF IInv, Sequel, Pending, Sound
  <2> QED BY <2>1, <2>2 DEF Quiet
<1> QED BY <1>1, <1>3

\* A step of a function of the store.
LEMMA AccessSequel ==
    ASSUME IInv, [Next]_vars, NEW a \in Actor, Access(a)
    PROVE  Recorded' /\ Pending'
<1> DEFINE o == op[a]
<1>1. Safe \subseteq Safe'
  BY SafeGrows DEF IInv
<1>2. /\ o # None /\ o \in Op
      /\ \A b \in Actor : b # a => op'[b] = op[b]
  BY AccessStep DEF IInv
<1>3. ASSUME \/ op'[a] = None
             \/ /\ op'[a].kind = "retire" => op'[a].by \in Safe
                /\ op'[a].step \in {"unlink", "write"} =>
                     IF op'[a].kind = "supersede" THEN op'[a].out.by = op'[a].by
                     ELSE Sound(op'[a].out, Safe)
      PROVE  Pending'
  BY <1>1, <1>2, <1>3 DEF IInv, Sequel, Pending, Sound
<1>4. /\ o.kind = "retire" => o.by \in Safe
      /\ o.step \in {"unlink", "write"} =>
           IF o.kind = "supersede" THEN o.out.by = o.by ELSE Sound(o.out, Safe)
  BY <1>2 DEF IInv, Sequel, Pending
<1>5. CASE UNCHANGED files /\ o.step = "read" /\ op'[a] = None
  <2>1. Recorded'
    BY <1>5, RecordedSame
  <2> QED BY <1>3, <1>5, <2>1
<1>6. CASE /\ UNCHANGED files /\ o.step = "read" /\ ReadFact(o.fact) # None
           /\ op'[a] = [op[a] EXCEPT !.out = Changed(op[a], ReadFact(op[a].fact)),
                                     !.step = IF op[a].kind \in Moves THEN "unlink" ELSE "write"]
  <2>1. Recorded'
    BY <1>6, RecordedSame
  <2>2. op'[a].kind = o.kind /\ op'[a].by = o.by /\ op'[a].out = Changed(o, ReadFact(o.fact))
    BY <1>2, <1>6 DEF Op
  <2>3. IF o.kind = "supersede" THEN Changed(o, ReadFact(o.fact)).by = o.by
        ELSE Sound(Changed(o, ReadFact(o.fact)), Safe)
    BY <1>2, <1>6, ReadSound
  <2> QED BY <1>3, <1>4, <2>1, <2>2, <2>3
<1>7. CASE /\ o.step = "unlink" /\ archive' = archive
           /\ facts' = [facts EXCEPT ![o.fact] = None]
           /\ op'[a] = [op[a] EXCEPT !.step = "write"]
  <2>1. Recorded'
    <3>1. \A f \in Fact : facts'[f] = facts[f] \/ facts'[f] = None
      BY <1>7 DEF IInv, Typed, TypeOK
    <3> QED BY <1>7, <3>1, FilesSound
  <2>2. op'[a].kind = o.kind /\ op'[a].by = o.by /\ op'[a].out = o.out
    BY <1>2, <1>7 DEF Op
  <2> QED BY <1>3, <1>4, <1>7, <2>1, <2>2
<1>8. CASE /\ o.step = "write" /\ Put(o.fact, o.out)
           /\ IF o.kind = "supersede" THEN op'[a] = [op[a] EXCEPT !.step = "new"] ELSE op'[a] = None
  <2>1. o.out \in Record
    BY <1>2, <1>8 DEF IInv, Typed, OpOK
  <2>2. /\ \A f \in Fact : facts'[f] = facts[f] \/ facts'[f] = o.out
        /\ \A f \in Fact : archive'[f] = archive[f] \/ archive'[f] = o.out
    BY <1>8, <2>1, PutType DEF IInv, Typed
  <2>3. CASE o.kind = "supersede"
    <3>1. /\ op'[a] # None /\ op'[a].kind = o.kind /\ op'[a].by = o.by /\ op'[a].step = "new"
      BY <1>2, <1>8, <2>3, VaultAssumption DEF Op
    <3>2. o.by \in Fact /\ o.out.by = o.by
      BY <1>2, <1>4, <1>8, <2>3 DEF IInv, Typed, OpOK
    <3>3. o.by \in Caught(op'[a])
      BY <3>1 DEF Caught
    <3>4. Sound(o.out, Safe')
      BY <3>2, <3>3 DEF Sound, Safe, Kept
    <3>5. Recorded'
      BY <2>2, <3>4, FilesSound
    <3> QED BY <1>3, <2>3, <3>1, <3>5
  <2>4. CASE o.kind # "supersede"
    <3>1. Sound(o.out, Safe')
      BY <1>1, <1>4, <1>8, <2>4 DEF Sound
    <3>2. Recorded'
      BY <2>2, <3>1, FilesSound
    <3> QED BY <1>3, <1>8, <2>4, <3>2
  <2> QED BY <2>3, <2>4
<1>9. CASE o.step = "new" /\ Put(o.by, Fresh) /\ op'[a] = None
  <2>1. /\ \A f \in Fact : facts'[f] = facts[f] \/ facts'[f] = Fresh
        /\ \A f \in Fact : archive'[f] = archive[f] \/ archive'[f] = Fresh
    BY <1>9, FreshType, PutType DEF IInv, Typed
  <2>2. Sound(Fresh, Safe')
    BY FreshType DEF Sound
  <2> QED BY <1>3, <1>9, <2>1, <2>2, FilesSound
<1> QED BY <1>5, <1>6, <1>7, <1>8, <1>9, AccessStep DEF IInv

\* A crash ends all of them.
LEMMA CrashSequel ==
    ASSUME IInv, [Next]_vars, Crash
    PROVE  Recorded' /\ Pending'
<1>1. facts' = facts /\ archive' = archive /\ op' = [a \in Actor |-> None]
  BY DEF Crash, files
<1> QED BY <1>1, RecordedSame DEF Pending, files

---------------------------------------------------------------------------
(* The theorems.                                                           *)

\* The invariant holds at the start.
LEMMA InitIInv == Init => IInv
<1> SUFFICES ASSUME Init PROVE IInv
  OBVIOUS
<1> USE DEF Init, Each, Nothing
<1>1. TypeOK
  <2>1. Fresh \in Record /\ Fresh.state \in Active
    BY FreshType
  <2>2. facts \in [Fact -> {r \in Record : r.state \in Active} \cup {None}]
    BY <2>1
  <2>3. born \in 0 .. MaxFacts /\ birth \in [Fact -> 0 .. MaxAge] /\ clock \in 0 .. MaxAge
    BY VaultAssumption
  <2>4. crashes \in 0 .. MaxCrashes
    BY VaultAssumption
  <2>5. left \in [Task -> Seq(Fact)]
    OBVIOUS
  <2> QED BY <2>2, <2>3, <2>4, <2>5 DEF TypeOK, Pc, Phase
<1>2. OpOK /\ MeOK
  BY DEF OpOK, MeOK, Later
<1>3. Recorded
  BY FreshType DEF Recorded, Sound
<1>4. Pending /\ Written
  BY DEF Pending, Written, Later
<1> QED BY <1>1, <1>2, <1>3, <1>4 DEF IInv, Typed, Sequel

\* Every step keeps it.
LEMMA NextIInv == IInv /\ [Next]_vars => IInv'
<1> SUFFICES ASSUME IInv, [Next]_vars PROVE IInv'
  OBVIOUS
<1>1. Typed' /\ Written'
  BY TypedNext, WrittenNext DEF IInv
<1>2. Quiet \/ Crash \/ \E a \in Actor : Access(a)
  BY QuietNext DEF IInv
<1>3. Recorded' /\ Pending'
  BY <1>2, QuietSequel, CrashSequel, AccessSequel
<1> QED BY <1>1, <1>3 DEF IInv, Sequel

\* The invariant is inductive: types, what the functions of the store hold in
\* memory between two accesses, and where every successor is.
THEOREM Inductive == Spec => []IInv
<1>1. Init => IInv
  BY InitIInv
<1>2. IInv /\ [Next]_vars => IInv'
  BY NextIInv
<1> QED BY <1>1, <1>2, PTL DEF Spec

\* Every variable has its type, and every file is in the directory its state calls
\* for (fact_path in store.py).
THEOREM TypeCorrect == Spec => []TypeOK
<1>1. IInv => TypeOK
  BY DEF IInv, Typed
<1> QED BY <1>1, Inductive, PTL

\* A fact that was written keeps a file, whatever the ingestions, the lifecycle's
\* thread and the user do to it at the same time, but for a crash between the
\* removal of one file and the writing of the other (archive_fact and
\* supersede_fact in store.py).
THEOREM FactsRemain == Spec => NothingVanishes
<1>1. IInv /\ [Next]_vars => [\A f \in Fact : Kept(f) => Kept(f)']_vars
  BY KeptNext DEF IInv
<1> QED BY <1>1, Inductive, PTL DEF Spec, NothingVanishes

\* A fact is superseded by one that was written too (supersede_fact in store.py and
\* reweave in ingestion.py).
THEOREM SuccessorWritten == Spec => []SuccessorExists
<1>1. IInv => SuccessorExists
  <2> SUFFICES ASSUME IInv, NEW f \in Fact, archive[f] # None, archive[f].by # None
               PROVE  Kept(archive[f].by)
    BY DEF SuccessorExists
  <2>1. archive[f].by \in Safe
    BY DEF IInv, Sequel, Recorded, Sound
  <2> QED BY <2>1 DEF Safe
<1> QED BY <1>1, Inductive, PTL
=============================================================================
