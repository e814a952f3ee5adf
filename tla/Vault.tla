------------------------------- MODULE Vault -------------------------------
(***************************************************************************)
(* The vault of one agent: facts extracted from its conversations, one     *)
(* file each, in facts/ while they are active and in archive/ afterwards.  *)
(*                                                                         *)
(* Three parts of the program change the files.  Ingestions (ingestion.py) *)
(* are coroutines of the event loop: one after every turn, and those of    *)
(* the background worker.  The lifecycle (lifecycle.py) runs in a thread   *)
(* of its own beside them.  /forget archives a fact for the user.  All go  *)
(* through VaultStore (store.py), whose functions read a file and write it *)
(* back without a lock, and the search backend keeps copies in memory.     *)
(*                                                                         *)
(* A step of an ingestion is the code between two awaits that can suspend  *)
(* it (with the hybrid search backend they all can); a step of a function  *)
(* of the store is one access to a file.                                   *)
(***************************************************************************)
EXTENDS Naturals, Sequences, FiniteSets

CONSTANTS
    MaxFacts,        \* bound: facts ever created, in this order
    Known,           \* facts there are at the start
    Kind,            \* Kind[f]: "fact", "hypothesis" or "anti"
    Task,            \* ingestions, each of one extraction
    MaxConflicts,    \* bound: older facts the reweave pass finds in conflict
    MaxAge,          \* bound: how far the clock goes
    MaxCrashes,      \* bound: crashes
    MaxForgets,      \* bound: facts the user archives
    None,
    CrystallizeCount, PromoteCount,     \* reinforcements (3 and 2)
    CrystallizeAge, HypothesisAge, ForgetAge, ExpiryAge,   \* 7, 14 and 30 days; expires_at
    TierAge          \* TierAge[n]: the age at which tier n is left (30, 90 and 365 days)

Fact == 1 .. MaxFacts
Tier == 1 .. 4
Active == {"provisional", "crystallized"}
Record == [state : Active \cup {"superseded", "archived"}, rc : Nat, by : Fact \cup {None}, tier : Tier]

\* What the functions of the store do to a file: remove it and write it, or write it.
Moves == {"archive", "supersede"}
Rewrites == {"reinforce", "retire", "crystallize", "promote", "compress"}
Op == [kind : Moves \cup Rewrites, fact : Fact, by : Fact \cup {None}, task : Task \cup {None},
       tier : Tier, out : Record \cup {None}, step : {"read", "unlink", "write", "new"}]

ASSUME VaultAssumption ==
    /\ MaxFacts \in Nat /\ Known \in 0 .. MaxFacts
    /\ Kind \in [Fact -> {"fact", "hypothesis", "anti"}]
    /\ MaxConflicts \in Nat /\ MaxAge \in Nat /\ MaxCrashes \in Nat /\ MaxForgets \in Nat
    /\ {CrystallizeCount, PromoteCount, CrystallizeAge, HypothesisAge, ForgetAge, ExpiryAge} \subseteq Nat
    /\ TierAge \in [1 .. 3 -> Nat]
    /\ None \notin Fact \cup Task \cup Record \cup Op

VARIABLES
    facts, archive,   \* the files of the two directories
    born,             \* how many ids were given out
    birth,            \* written_at
    clock,
    index, booted,    \* the copies of the keyword search, loaded at the first search
    pc,               \* where an ingestion is
    me,               \* the fact it creates
    shown,            \* facts the extraction model was shown
    left,             \* facts it still has to supersede
    gone,             \* facts it superseded in reweave's first pass
    item, copy,       \* a fact to reinforce, index or remove, and its new copy
    resume,           \* where it goes on after the index was updated
    op,               \* the store function the event loop and the thread are in
    phase, todo,      \* the lifecycle's pass and its list of facts
    crashes,
    lost,             \* facts a crash caught between two accesses
    forgotten         \* facts the user archived

files == <<facts, archive>>
ids == <<born, birth, clock>>
search == <<index, booted>>
work == <<pc, me, shown, left, gone, item, copy, resume>>
sweep == <<phase, todo>>
past == <<crashes, lost, forgotten>>
vars == <<files, ids, search, work, op, sweep, past>>

\* A new fact as _build_fact_from_extraction makes it, and as the ingestion that
\* makes it keeps it in memory.
Fresh == [state |-> "provisional", rc |-> 0, by |-> None, tier |-> 1]

Actor == {"loop", "thread"}
Pc == {"ready",
       "asked",        \* the extraction model is at work
       "searching",    \* for near duplicates of a new claim
       "found",        \* the search has answered
       "storing",      \* in a function of the store
       "indexing", "swapping", "removing",     \* updating the search backend
       "linking",      \* searching for related facts
       "contradicting",     \* reweave, pass 1
       "reweaving",         \* searching for conflicting facts
       "first", "more",     \* reweave, pass 2
       "done"}
Phase == {"idle", "crystallize", "hypotheses", "compress", "reap"}

\* Every file is in the directory its state calls for.
TypeOK ==
    /\ facts \in [Fact -> {r \in Record : r.state \in Active} \cup {None}]
    /\ archive \in [Fact -> {r \in Record : r.state \notin Active} \cup {None}]
    /\ born \in 0 .. MaxFacts /\ birth \in [Fact -> 0 .. MaxAge] /\ clock \in 0 .. MaxAge
    /\ index \in [Fact -> Record \cup {None}] /\ booted \in BOOLEAN
    /\ pc \in [Task -> Pc] /\ resume \in [Task -> Pc]
    /\ me \in [Task -> Fact \cup {None}] /\ item \in [Task -> Fact \cup {None}]
    /\ shown \in [Task -> SUBSET Fact] /\ gone \in [Task -> SUBSET Fact]
    /\ left \in [Task -> Seq(Fact)]
    /\ copy \in [Task -> Record \cup {None}]
    /\ op \in [Actor -> Op \cup {None}]
    /\ phase \in Phase /\ todo \in [Fact -> Record \cup {None}]
    /\ crashes \in 0 .. MaxCrashes /\ lost \subseteq Fact /\ forgotten \subseteq Fact

Nothing == [f \in Fact |-> None]
Each(x) == [t \in Task |-> x]

Init ==
    /\ facts = [f \in Fact |-> IF f <= Known THEN Fresh ELSE None]
    /\ archive = Nothing
    /\ born = Known /\ birth = [f \in Fact |-> 0] /\ clock = 0
    /\ index = Nothing /\ booted = FALSE
    /\ pc = Each("ready") /\ me = Each(None) /\ shown = Each({}) /\ left = Each(<<>>)
    /\ gone = Each({}) /\ item = Each(None) /\ copy = Each(None) /\ resume = Each("done")
    /\ op = [a \in Actor |-> None]
    /\ phase = "idle" /\ todo = Nothing
    /\ crashes = 0 /\ lost = {} /\ forgotten = {}

-----------------------------------------------------------------------------
(* Functions of the store.                                                  *)

\* read_fact: facts/ is looked at before archive/.
ReadFact(f) == IF facts[f] # None THEN facts[f] ELSE archive[f]

BugPutBeside(f, r) ==
    /\ facts' = [facts EXCEPT ![f] = r]
    /\ UNCHANGED archive

\* write_fact: the state tells the directory; a file in the other one stays.
Put(f, r) ==
    IF r.state \in Active
    THEN facts' = [facts EXCEPT ![f] = r] /\ UNCHANGED archive
    ELSE archive' = [archive EXCEPT ![f] = r] /\ UNCHANGED facts

\* What a function makes of the fact it has read.
Changed(o, r) ==
    CASE o.kind = "reinforce" -> [r EXCEPT !.rc = @ + 1]
      [] o.kind = "archive" -> [r EXCEPT !.state = "archived"]
      [] o.kind \in {"supersede", "retire"} -> [r EXCEPT !.state = "superseded", !.by = o.by]
      [] o.kind = "crystallize" -> [r EXCEPT !.state = "crystallized"]
      [] o.kind = "promote" -> [r EXCEPT !.state = "provisional"]
      [] o.kind = "compress" -> [r EXCEPT !.tier = o.tier + 1]

Call(kind, f, by, t) ==
    [kind |-> kind, fact |-> f, by |-> by, task |-> t, tier |-> 1, out |-> None, step |-> "read"]

\* The ingestion goes on after a function of the store: a reinforced fact is
\* indexed again, a superseded one is taken from the index.
Return(o) ==
    /\ pc' = [pc EXCEPT ![o.task] =
            CASE o.kind = "reinforce" -> "indexing"
              [] o.kind = "supersede" -> "swapping"
              [] OTHER -> "removing"]
    /\ item' = [item EXCEPT ![o.task] = o.fact]
    /\ copy' = [copy EXCEPT ![o.task] = IF o.kind = "reinforce" THEN o.out ELSE None]
    /\ gone' = IF resume[o.task] = "contradicting" THEN [gone EXCEPT ![o.task] = @ \cup {o.fact}] ELSE gone
    /\ UNCHANGED <<me, shown, left, resume>>

Finish(a) ==
    /\ op' = [op EXCEPT ![a] = None]
    /\ IF op[a].task = None THEN UNCHANGED work ELSE Return(op[a])

\* FileNotFoundError, or nothing to retire.  The lifecycle gives up its pass, an
\* ingestion goes on with the next fact.
ReadMissing(a) ==
    /\ op[a] # None /\ op[a].step = "read" /\ ReadFact(op[a].fact) = None
    /\ op' = [op EXCEPT ![a] = None]
    /\ IF op[a].task = None
       THEN UNCHANGED pc
       ELSE pc' = [pc EXCEPT ![op[a].task] =
                IF op[a].kind = "supersede" /\ resume[op[a].task] = "more" THEN "first"
                ELSE resume[op[a].task]]
    /\ IF a = "thread" THEN phase' = "idle" /\ todo' = Nothing ELSE UNCHANGED sweep
    /\ UNCHANGED <<files, ids, search, me, shown, left, gone, item, copy, resume, past>>

Read(a) ==
    /\ op[a] # None /\ op[a].step = "read" /\ ReadFact(op[a].fact) # None
    /\ op' = [op EXCEPT ![a].out = Changed(op[a], ReadFact(op[a].fact)),
                        ![a].step = IF op[a].kind \in Moves THEN "unlink" ELSE "write"]
    /\ UNCHANGED <<files, ids, search, work, sweep, past>>

\* The check that there is a file and its removal are one step.
Unlink(a) ==
    /\ op[a] # None /\ op[a].step = "unlink"
    /\ facts' = [facts EXCEPT ![op[a].fact] = None]
    /\ op' = [op EXCEPT ![a].step = "write"]
    /\ UNCHANGED <<archive, ids, search, work, sweep, past>>

BugWriteForgets(a) ==
    /\ op[a] # None /\ op[a].step = "write"
    /\ IF op[a].kind = "archive" THEN UNCHANGED files ELSE Put(op[a].fact, op[a].out)
    /\ IF op[a].kind = "supersede"
       THEN op' = [op EXCEPT ![a].step = "new"] /\ UNCHANGED work
       ELSE Finish(a)
    /\ UNCHANGED <<ids, search, sweep, past>>

Write(a) ==
    /\ op[a] # None /\ op[a].step = "write"
    /\ Put(op[a].fact, op[a].out)
    /\ IF op[a].kind = "supersede"
       THEN op' = [op EXCEPT ![a].step = "new"] /\ UNCHANGED work
       ELSE Finish(a)
    /\ UNCHANGED <<ids, search, sweep, past>>

BugWriteNewNot(a) ==
    /\ op[a] # None /\ op[a].step = "new"
    /\ Finish(a)
    /\ UNCHANGED <<files, ids, search, sweep, past>>

\* supersede_fact writes the new fact, as the ingestion has it in memory, last.
WriteNew(a) ==
    /\ op[a] # None /\ op[a].step = "new"
    /\ Put(op[a].by, Fresh)
    /\ Finish(a)
    /\ UNCHANGED <<ids, search, sweep, past>>

Access(a) == ReadMissing(a) \/ Read(a) \/ Unlink(a) \/ Write(a) \/ WriteNew(a)

-----------------------------------------------------------------------------
(* Search.  The hybrid backend lists the files of facts/, the keyword one    *)
(* its copies; a fact in both is seen as it is in its file.                  *)

Candidates ==
    {f \in Fact : IF facts[f] # None THEN TRUE ELSE index[f] # None /\ index[f].state \in Active}

\* The first search, whoever makes it.
Boot ==
    /\ ~booted /\ op["loop"] = None
    /\ booted' = TRUE
    /\ index' = [f \in Fact |-> IF facts[f] # None THEN facts[f] ELSE index[f]]
    /\ UNCHANGED <<files, ids, work, op, sweep, past>>

-----------------------------------------------------------------------------
(* Ingestion of a turn.                                                     *)

\* An ingestion may run: the event loop is not inside a function of the store.
At(t, where) == pc[t] = where /\ op["loop"] = None /\ booted

Store(t, kind, f, by, then) ==
    /\ op' = [op EXCEPT !["loop"] = Call(kind, f, by, t)]
    /\ pc' = [pc EXCEPT ![t] = "storing"]
    /\ resume' = [resume EXCEPT ![t] = then]

NewFact(t) ==
    /\ born < MaxFacts
    /\ born' = born + 1
    /\ birth' = [birth EXCEPT ![born + 1] = clock]
    /\ me' = [me EXCEPT ![t] = born + 1]

Ask(t) ==
    /\ At(t, "ready")
    /\ pc' = [pc EXCEPT ![t] = "asked"]
    /\ shown' = [shown EXCEPT ![t] = Candidates]
    /\ UNCHANGED <<files, ids, search, me, left, gone, item, copy, resume, op, sweep, past>>

\* Nothing to extract, or the model fails.
AnswerNothing(t) ==
    /\ At(t, "asked")
    /\ pc' = [pc EXCEPT ![t] = "done"]
    /\ shown' = [shown EXCEPT ![t] = {}]
    /\ UNCHANGED <<files, ids, search, me, left, gone, item, copy, resume, op, sweep, past>>

\* A new claim, with at most one fact it is said to contradict.
AnswerCreate(t) ==
    /\ At(t, "asked")
    /\ pc' = [pc EXCEPT ![t] = "searching"]
    /\ \E c \in {<<>>} \cup {<<f>> : f \in shown[t]} : left' = [left EXCEPT ![t] = c]
    /\ shown' = [shown EXCEPT ![t] = {}]
    /\ UNCHANGED <<files, ids, search, me, gone, item, copy, resume, op, sweep, past>>

AnswerReinforce(t) ==
    /\ At(t, "asked")
    /\ \E f \in shown[t] : Store(t, "reinforce", f, None, "done")
    /\ shown' = [shown EXCEPT ![t] = {}]
    /\ UNCHANGED <<files, ids, search, me, left, gone, item, copy, sweep, past>>

AnswerSupersede(t) ==
    /\ At(t, "asked")
    /\ NewFact(t)
    /\ \E f \in shown[t] : Store(t, "supersede", f, born + 1, "done")
    /\ shown' = [shown EXCEPT ![t] = {}]
    /\ UNCHANGED <<files, clock, search, left, gone, item, copy, sweep, past>>

\* _find_near_duplicate: which facts say the same is left open.
Dedup(t) ==
    /\ At(t, "searching")
    /\ pc' = [pc EXCEPT ![t] = "found"]
    /\ \E d \in Candidates \cup {None} : item' = [item EXCEPT ![t] = d]
    /\ UNCHANGED <<files, ids, search, me, shown, left, gone, copy, resume, op, sweep, past>>

ReinforceDuplicate(t) ==
    /\ At(t, "found") /\ item[t] # None
    /\ Store(t, "reinforce", item[t], None, "done")
    /\ UNCHANGED <<files, ids, search, me, shown, left, gone, item, copy, sweep, past>>

Create(t) ==
    /\ At(t, "found") /\ item[t] = None
    /\ NewFact(t)
    /\ Put(born + 1, Fresh)
    /\ pc' = [pc EXCEPT ![t] = "indexing"]
    /\ item' = [item EXCEPT ![t] = born + 1]
    /\ copy' = [copy EXCEPT ![t] = Fresh]
    /\ resume' = [resume EXCEPT ![t] = "linking"]
    /\ UNCHANGED <<clock, search, shown, left, gone, op, sweep, past>>

\* If it finds related facts, _auto_link_fact writes the fact again as it was made.
AutoLink(t) ==
    /\ At(t, "linking")
    /\ pc' = [pc EXCEPT ![t] = "contradicting"]
    /\ \/ Put(me[t], Fresh)
       \/ UNCHANGED files
    /\ UNCHANGED <<ids, search, me, shown, left, gone, item, copy, resume, op, sweep, past>>

\* The next fact of the list is dealt with, or the list is at its end.
Supersede(t, kind, then) ==
    /\ left[t] # <<>>
    /\ Store(t, kind, Head(left[t]), me[t], then)
    /\ left' = [left EXCEPT ![t] = Tail(@)]

Exhausted(t, then) ==
    /\ left[t] = <<>>
    /\ pc' = [pc EXCEPT ![t] = then]
    /\ resume' = [resume EXCEPT ![t] = "done"]
    /\ UNCHANGED <<left, op>>

Contradict(t) ==
    /\ At(t, "contradicting")
    /\ Supersede(t, "supersede", "contradicting") \/ Exhausted(t, "reweaving")
    /\ UNCHANGED <<files, ids, search, me, shown, gone, item, copy, sweep, past>>

\* Which facts are about the same and differ is left open.
Conflicting(t) ==
    {s \in UNION {[1 .. n -> Candidates \ (gone[t] \cup {me[t]})] : n \in 0 .. MaxConflicts} :
        \A i, j \in DOMAIN s : i # j => s[i] # s[j]}

Reweave(t) ==
    /\ At(t, "reweaving")
    /\ \E s \in Conflicting(t) : left' = [left EXCEPT ![t] = s]
    /\ pc' = [pc EXCEPT ![t] = "first"]
    /\ gone' = [gone EXCEPT ![t] = {}]
    /\ UNCHANGED <<files, ids, search, me, shown, item, copy, resume, op, sweep, past>>

\* The first conflicting fact is superseded, the others are retired: they are
\* written to archive/ and their files in facts/ stay.
First(t) ==
    /\ At(t, "first")
    /\ Supersede(t, "supersede", "more") \/ Exhausted(t, "done")
    /\ UNCHANGED <<files, ids, search, me, shown, gone, item, copy, sweep, past>>

More(t) ==
    /\ At(t, "more")
    /\ Supersede(t, "retire", "more") \/ Exhausted(t, "done")
    /\ UNCHANGED <<files, ids, search, me, shown, gone, item, copy, sweep, past>>

\* index_fact and remove_fact, and both for a fact that supersedes another.
UpdateIndex(t) ==
    /\ op["loop"] = None
    /\ \/ pc[t] = "indexing" /\ index' = [index EXCEPT ![item[t]] = copy[t]]
       \/ pc[t] = "swapping" /\ index' = [index EXCEPT ![item[t]] = None, ![me[t]] = Fresh]
       \/ pc[t] = "removing" /\ index' = [index EXCEPT ![item[t]] = None]
    /\ pc' = [pc EXCEPT ![t] = resume[t]]
    /\ item' = [item EXCEPT ![t] = None] /\ copy' = [copy EXCEPT ![t] = None]
    /\ UNCHANGED <<files, ids, booted, me, shown, left, gone, resume, op, sweep, past>>

Ingest(t) ==
    \/ Ask(t) \/ AnswerNothing(t) \/ AnswerCreate(t) \/ AnswerReinforce(t) \/ AnswerSupersede(t)
    \/ Dedup(t) \/ ReinforceDuplicate(t) \/ Create(t) \/ AutoLink(t)
    \/ Contradict(t) \/ Reweave(t) \/ First(t) \/ More(t) \/ UpdateIndex(t)

\* /forget.
Forget(f) ==
    /\ op["loop"] = None
    /\ ReadFact(f) # None /\ ReadFact(f).state # "archived"
    /\ Cardinality(forgotten \cup {f}) <= MaxForgets
    /\ op' = [op EXCEPT !["loop"] = Call("archive", f, None, None)]
    /\ forgotten' = forgotten \cup {f}
    /\ UNCHANGED <<files, ids, search, work, sweep, crashes, lost>>

-----------------------------------------------------------------------------
(* The lifecycle.                                                           *)

Age(f) == clock - birth[f]

Listed(p) ==
    [f \in Fact |->
        IF facts[f] # None /\ CASE p = "crystallize" -> facts[f].state = "provisional"
                                [] p = "hypotheses" -> Kind[f] = "hypothesis"
                                [] p = "compress" -> facts[f].state = "crystallized"
                                [] p = "reap" -> Kind[f] = "anti"
        THEN facts[f] ELSE None]

BugVerdictReinforcedOnly(f) ==
    LET r == todo[f] IN
    CASE phase = "crystallize" ->
            (IF Age(f) > ForgetAge /\ r.rc = 0 THEN {"archive"}
             ELSE IF r.rc >= CrystallizeCount THEN {"crystallize"} ELSE {})
      [] phase = "hypotheses" ->
            (IF r.rc >= PromoteCount THEN {"promote"}
             ELSE IF Age(f) > HypothesisAge /\ r.rc = 0 THEN {"archive"} ELSE {})
      [] phase = "compress" -> IF r.tier < 4 /\ Age(f) > TierAge[r.tier] THEN {"compress"} ELSE {}
      [] phase = "reap" -> IF Age(f) > ExpiryAge THEN {"archive"} ELSE {}

\* What is to be done with a fact of the list.
Verdict(f) ==
    LET r == todo[f] IN
    CASE phase = "crystallize" ->
            (IF Age(f) > ForgetAge /\ r.rc = 0 THEN {"archive"}
             ELSE IF r.rc >= CrystallizeCount \/ Age(f) > CrystallizeAge THEN {"crystallize"} ELSE {})
      [] phase = "hypotheses" ->
            (IF r.rc >= PromoteCount THEN {"promote"}
             ELSE IF Age(f) > HypothesisAge /\ r.rc = 0 THEN {"archive"} ELSE {})
      [] phase = "compress" -> IF r.tier < 4 /\ Age(f) > TierAge[r.tier] THEN {"compress"} ELSE {}
      [] phase = "reap" -> IF Age(f) > ExpiryAge THEN {"archive"} ELSE {}

\* The worker starts the lifecycle in a thread.
SweepBegins ==
    /\ phase = "idle"
    /\ phase' = "crystallize" /\ todo' = Listed("crystallize")
    /\ UNCHANGED <<files, ids, search, work, op, past>>

Judge(f) ==
    /\ phase # "idle" /\ op["thread"] = None /\ todo[f] # None
    /\ todo' = [todo EXCEPT ![f] = None]
    /\ \/ \E v \in Verdict(f) :
            op' = [op EXCEPT !["thread"] = [Call(v, f, None, None) EXCEPT !.tier = todo[f].tier]]
       \/ Verdict(f) = {} /\ UNCHANGED op
    /\ UNCHANGED <<files, ids, search, work, phase, past>>

Following(p) ==
    CASE p = "crystallize" -> "hypotheses" [] p = "hypotheses" -> "compress"
      [] p = "compress" -> "reap" [] p = "reap" -> "idle"

PhaseEnds ==
    /\ phase # "idle" /\ op["thread"] = None /\ todo = Nothing
    /\ phase' = Following(phase)
    /\ todo' = IF phase = "reap" THEN Nothing ELSE Listed(Following(phase))
    /\ UNCHANGED <<files, ids, search, work, op, past>>

Sweep == SweepBegins \/ PhaseEnds \/ \E f \in Fact : Judge(f)

-----------------------------------------------------------------------------

\* Days pass, not within a lifecycle pass.
Tick ==
    /\ clock < MaxAge /\ phase = "idle"
    /\ clock' = clock + 1
    /\ UNCHANGED <<files, born, birth, search, work, op, sweep, past>>

\* The facts a function has removed from facts/ and not yet written, or is about
\* to write for the first time.
Caught(o) ==
    IF o = None THEN {}
    ELSE IF o.step = "write" /\ o.kind \in Moves THEN {o.fact}
    ELSE IF o.step = "new" THEN {o.by}
    ELSE {}

\* The process ends and is started again: what was in memory is gone.
Crash ==
    /\ crashes < MaxCrashes
    /\ crashes' = crashes + 1
    /\ lost' = lost \cup UNION {Caught(op[a]) : a \in Actor}
    /\ op' = [a \in Actor |-> None]
    /\ pc' = [t \in Task |-> IF pc[t] = "ready" THEN "ready" ELSE "done"]
    /\ index' = Nothing /\ booted' = FALSE
    /\ phase' = "idle" /\ todo' = Nothing
    /\ me' = Each(None) /\ shown' = Each({}) /\ left' = Each(<<>>) /\ gone' = Each({})
    /\ item' = Each(None) /\ copy' = Each(None) /\ resume' = Each("done")
    /\ UNCHANGED <<files, ids, forgotten>>

Next ==
    \/ Boot \/ Tick \/ Crash \/ Sweep
    \/ \E t \in Task : Ingest(t)
    \/ \E f \in Fact : Forget(f)
    \/ \E a \in Actor : Access(a)

\* The thread and a function of the store that was called run on, and the worker
\* starts the lifecycle again and again.
Fairness == WF_vars(Sweep) /\ \A a \in Actor : WF_vars(Access(a))

Spec == Init /\ [][Next]_vars /\ Fairness

-----------------------------------------------------------------------------
(* Properties                                                               *)

Kept(f) ==
    \/ facts[f] # None \/ archive[f] # None
    \/ f \in lost \cup UNION {Caught(op[a]) : a \in Actor}

\* A fact that was written keeps a file, in facts/ or in archive/, unless a crash
\* falls between the removal of one and the writing of the other: whatever the
\* ingestions, the lifecycle's thread and the user do to it at the same time.
NothingVanishes == [][\A f \in Fact : Kept(f) => Kept(f)']_vars

\* A fact is superseded by one that was written too.
SuccessorExists == \A f \in Fact : archive[f] # None /\ archive[f].by # None => Kept(archive[f].by)

\* A plain fact that is old enough leaves the provisional state, whatever writes it
\* back meanwhile.
FactSettles ==
    \A f \in Fact :
        LET waits == /\ Kind[f] = "fact" /\ facts[f] # None /\ facts[f].state = "provisional"
                     /\ Age(f) > CrystallizeAge
        IN  waits ~> ~waits

\* "Archived facts are no longer included in context injection" (commands.py 1784):
\* a search does not find what the user archived.
ForgottenNotRecalled ==
    \A f \in forgotten : op["loop"] = None /\ booted => f \notin Candidates

\* "Archived and superseded facts are moved to vault/archive" (docs/VAULT.md 121).
OneCopy == \A f \in Fact : facts[f] # None => archive[f] = None
=============================================================================
