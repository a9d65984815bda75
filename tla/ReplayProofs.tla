---------------------------- MODULE ReplayProofs ----------------------------
(***************************************************************************)
(* Proofs about Replay, for any number of processes, tasks and changes the *)
(* other program makes: one process at most replays in a directory, and    *)
(* what its receipts and its exit status say is true.                      *)
(***************************************************************************)
EXTENDS Replay, TLAPS

(***************************************************************************)
(* The inductive invariant                                                 *)
(***************************************************************************)
\* Stages of one task of the replay.
InTask == Replaying \ {"open receipt", "write receipt", "print"}
Placed == InTask \ {"stage"}
Hashed == Placed \ {"snapshot base", "snapshot gold", "hash"}
Answered == Hashed \ {"run base", "run gold"}
Committing == {"truncate", "write", "add", "commit"}

Commits == [tree : Modules, sequence : 0 .. NumTasks]
Made == {h \in Seq(Commits) : h # <<>>}
Entries == Modules \cup {Missing}
Runs == Seq({"pass", "fail", "exception"})
Receipts == [verifier : Verifiers \cup {Missing},
             base : Workspaces \cup {Missing}, gold : Workspaces \cup {Missing},
             base_runs : Runs, gold_runs : Runs,
             source_only : BOOLEAN, read_only : BOOLEAN, unchanged : BOOLEAN]

Repos == [made : BOOLEAN, git : BOOLEAN, module : Entries, index : Entries,
          head : Seq(Commits)]

\* What the processes share.
SharedInv ==
    /\ repo \in Repos
    /\ source \in {Missing, Torn, "good"} /\ claimed \in BOOLEAN
    /\ dirs \in [Tasks -> Directories \cup {Missing}]
    /\ edits \in [Tasks -> Nat] /\ changes \in Nat
    /\ bound \in Bounds /\ changes <= bound.edits

\* What each process keeps.
LocalInv ==
    /\ pc \in [Procs -> Stages] /\ code \in [Procs -> {0, 1, 2, Missing}]
    /\ step \in [Procs -> 0 .. NumTasks] /\ base \in [Procs -> Seq(Commits)]
    /\ tasks \in [Procs -> Seq([base : Made, gold : Made])]
    /\ receipt \in [Procs -> Receipts] /\ receipts \in [Procs -> Seq(Receipts)]
    /\ used \in [Procs -> [Tasks -> SUBSET Verifiers]]

\* The loop of the builder, and what its stages find in the repository.
BuildInv(p) ==
    /\ pc[p] \in {"idle", "empty", "init"} => step[p] = 0 /\ tasks[p] = <<>>
    /\ pc[p] \in Committing /\ step[p] = 0 => tasks[p] = <<>>
    /\ pc[p] \in Committing \cup {"gold"} /\ step[p] > 0 =>
          Len(tasks[p]) = step[p] - 1 /\ base[p] # <<>>
    /\ pc[p] = "base" => Len(tasks[p]) = step[p] /\ step[p] < NumTasks
    /\ pc[p] = "gold" => step[p] > 0
    /\ pc[p] \in {"check source", "create source", "write source", "claim"} \cup Replaying =>
          Len(tasks[p]) = NumTasks
    /\ pc[p] \in {"write", "add"} => repo.module \in Modules
    /\ pc[p] = "commit" => repo.index \in Modules
    /\ pc[p] \in {"base", "gold"} => repo.head # <<>>
    /\ pc[p] \in {"write source", "claim"} \cup Replaying => source # Missing

\* The loop over the tasks and the loops over the repetitions.
TaskInv(p) ==
    /\ pc[p] \in Building \cup {"idle"} => receipts[p] = <<>>
    /\ pc[p] # "ended" => code[p] = Missing
    /\ pc[p] \in InTask => Len(receipts[p]) < NumTasks
    /\ pc[p] \in Placed => dirs[Task(p)] # Missing
    /\ pc[p] \in Placed \ (Hashed \cup Answered) =>
          receipt[p].base_runs = <<>> /\ receipt[p].gold_runs = <<>>
    /\ pc[p] = "run base" =>
          Len(receipt[p].base_runs) < Repetitions /\ receipt[p].gold_runs = <<>>
    /\ pc[p] \in {"run gold"} \cup Answered => Len(receipt[p].base_runs) = Repetitions
    /\ pc[p] = "run gold" => Len(receipt[p].gold_runs) < Repetitions
    /\ pc[p] \in Answered => Len(receipt[p].gold_runs) = Repetitions
    /\ \A k \in DOMAIN receipts[p] : Len(receipts[p][k].gold_runs) = Repetitions

\* Who has claimed the directory: what only that process can have done.
Owner(p) == pc[p] \in Replaying \/ receipts[p] # <<>> \/ code[p] = 0
OwnerInv(p) == /\ Owner(p) => claimed = TRUE
               /\ \A q \in Procs : Owner(p) /\ Owner(q) => p = q

\* The receipt file when it has been written.
ZeroInv(p) ==
    /\ pc[p] = "print" \/ code[p] = 0 => out = [by |-> p, receipts |-> receipts[p]]
    /\ code[p] = 0 => /\ pc[p] = "ended" /\ Len(receipts[p]) = NumTasks
                      /\ \A k \in DOMAIN receipts[p] : GatePassed(receipts[p][k])

\* One change of the verifier after it was hashed is still there.
VerifierInv(p) ==
    /\ \A k \in Tasks : k > Task(p) => used[p][k] = {}
    /\ pc[p] \in (Building \cup Replaying \cup {"idle"}) \ Hashed =>
          \A k \in Tasks : k = Task(p) => used[p][k] = {}
    /\ pc[p] \in {"run gold"} \cup Answered => used[p][Task(p)] # {}
    /\ pc[p] \in Hashed \ {"digest base", "digest gold"} /\ edits[Task(p)] <= 1 =>
          \/ /\ dirs[Task(p)].verifier = receipt[p].verifier
             /\ used[p][Task(p)] \subseteq {receipt[p].verifier}
          \/ dirs[Task(p)].verifier # receipt[p].verifier /\ edits[Task(p)] = 1
    /\ pc[p] \in {"digest base", "digest gold"} /\ edits[Task(p)] <= 1
          /\ receipt[p].unchanged =>
          used[p][Task(p)] \subseteq {receipt[p].verifier}
    /\ \A k \in DOMAIN receipts[p] :
          edits[k] <= 1 /\ receipts[p][k].unchanged =>
             used[p][k] = {receipts[p][k].verifier}

\* A process that nobody disturbs: commits, workspaces and receipts.
Alone(p) == changes = 0 /\ \A q \in Procs \ {p} : pc[q] = "idle" \/ code[q] = 2
Log(n) == [i \in 1 .. n |-> [tree |-> 1 .. (i - 1), sequence |-> i - 1]]
Clean(n) == [module |-> 1 .. n, extra |-> "none"]

AloneBuilding(p) ==
    /\ pc[p] = "idle" => repo.head = <<>>
    /\ pc[p] \in {"empty", "init"} \cup Committing => repo.head = Log(step[p])
    /\ pc[p] \in {"base", "gold"} => repo.head = Log(step[p] + 1)
    /\ pc[p] \in Committing \cup {"gold"} /\ step[p] > 0 => base[p] = Log(step[p])
    /\ pc[p] = "write" => repo.module = Torn
    /\ pc[p] = "add" => repo.module = Repaired(step[p])
    /\ pc[p] = "commit" => repo.index = Repaired(step[p])
    /\ pc[p] \in {"claim"} \cup Replaying => source = "good"
    /\ \A k \in DOMAIN tasks[p] : tasks[p][k] = [base |-> Log(k), gold |-> Log(k + 1)]

AloneReplaying(p) ==
    /\ pc[p] \in Placed => /\ dirs[Task(p)].verifier = "good"
                           /\ dirs[Task(p)].writable = FALSE
    /\ pc[p] \in Placed \ {"snapshot base"} => dirs[Task(p)].base = Clean(Task(p) - 1)
    /\ pc[p] \in Placed \ {"snapshot base", "snapshot gold"} =>
          dirs[Task(p)].gold = Clean(Task(p))
    /\ pc[p] \in Hashed => receipt[p].verifier = "good"
    /\ pc[p] \in Hashed => \A i \in DOMAIN receipt[p].base_runs :
                              receipt[p].base_runs[i] = "fail"
    /\ pc[p] \in Hashed => \A i \in DOMAIN receipt[p].gold_runs :
                              receipt[p].gold_runs[i] = "pass"
    /\ pc[p] \in Answered \ {"sources"} => receipt[p].source_only = TRUE
    /\ pc[p] \in Answered \ {"sources", "mode"} => receipt[p].read_only = TRUE
    /\ pc[p] \in {"digest base", "digest gold"} => receipt[p].unchanged = TRUE
    /\ pc[p] = "digest gold" => receipt[p].base = Clean(Task(p) - 1)
    /\ \A k \in DOMAIN receipts[p] : receipts[p][k] = Expected(k)

AloneInv(p) == Alone(p) => AloneBuilding(p) /\ AloneReplaying(p)

TypeInv == /\ SharedInv /\ LocalInv
           /\ \A p \in Procs : BuildInv(p) /\ TaskInv(p)
IInv == /\ TypeInv
        /\ \A p \in Procs : OwnerInv(p) /\ ZeroInv(p) /\ VerifierInv(p) /\ AloneInv(p)

(***************************************************************************)
(* Lemmas about the operators                                              *)
(***************************************************************************)
LEMMA Appending ==
  ASSUME NEW S, NEW s \in Seq(S), NEW e \in S
  PROVE  /\ Append(s, e) \in Seq(S) /\ Append(s, e) # <<>>
         /\ Len(s) \in Nat /\ Len(Append(s, e)) = Len(s) + 1
         /\ DOMAIN s = 1 .. Len(s) /\ DOMAIN Append(s, e) = 1 .. Len(s) + 1
         /\ \A k \in DOMAIN s : Append(s, e)[k] = s[k]
         /\ Append(s, e)[Len(s) + 1] = e
  OBVIOUS

LEMMA ElementTyped ==
  ASSUME NEW S, NEW s \in Seq(S), NEW i \in 1 .. Len(s)
  PROVE  s[i] \in S
  OBVIOUS

LEMMA RepairedModule ==
  ASSUME NEW n \in 0 .. NumTasks
  PROVE  Repaired(n) \in Modules /\ Repaired(n) # Torn
  <1>1. Repaired(n) \subseteq Tasks
    BY TaskCount DEF Repaired, Tasks
  <1> QED
    BY <1>1, TornIsNoModule DEF Modules

LEMMA AnswerIsOne ==
  ASSUME NEW v, NEW m, NEW k, NEW answer \in Answers(v, m, k)
  PROVE  answer \in {"pass", "fail", "exception"}
  BY DEF Answers

\* The tree of the last commit of a history.
LEMMA TreeIsModule ==
  ASSUME NEW h \in Made
  PROVE  Tree(h) \in Modules
  <1>1. h \in Seq(Commits) /\ h # <<>>
    BY DEF Made
  <1>2. Len(h) \in DOMAIN h
    BY <1>1
  <1>3. h[Len(h)] \in Commits
    BY <1>1, <1>2
  <1> HIDE DEF Modules
  <1> QED
    BY <1>1, <1>3 DEF Tree, Commits

LEMMA SnapshotTyped ==
  ASSUME NEW h \in Made
  PROVE  Snapshot(h) \in Workspaces
  BY TreeIsModule DEF Snapshot, Workspaces, Extras

LEMMA TaskIsATask ==
  ASSUME LocalInv, NEW p \in Procs, Len(receipts[p]) < NumTasks
  PROVE  /\ Len(receipts[p]) \in Nat /\ Task(p) \in Tasks
         /\ Task(p) - 1 = Len(receipts[p]) /\ Task(p) = Len(receipts[p]) + 1
         /\ DOMAIN receipts[p] = 1 .. Len(receipts[p])
         /\ DOMAIN receipts[p] \subseteq Tasks /\ Task(p) \notin DOMAIN receipts[p]
  <1>1. receipts[p] \in Seq(Receipts)
    BY DEF LocalInv
  <1>2. Len(receipts[p]) \in Nat /\ DOMAIN receipts[p] = 1 .. Len(receipts[p])
    BY <1>1
  <1>3. NumTasks \in Nat
    BY TaskCount
  <1> QED
    BY <1>2, <1>3 DEF Task, Tasks

\* The sets of stages, written out.
LEMMA StageSets ==
  /\ InTask = {"stage", "snapshot base", "snapshot gold", "hash", "run base", "run gold",
               "sources", "mode", "unchanged", "digest base", "digest gold"}
  /\ Placed = {"snapshot base", "snapshot gold", "hash", "run base", "run gold",
               "sources", "mode", "unchanged", "digest base", "digest gold"}
  /\ Hashed = {"run base", "run gold",
               "sources", "mode", "unchanged", "digest base", "digest gold"}
  /\ Answered = {"sources", "mode", "unchanged", "digest base", "digest gold"}
  BY DEF Replaying, InTask, Placed, Hashed, Answered

(***************************************************************************)
(* What a process keeps                                                    *)
(***************************************************************************)
Moves(p) == \/ \E s \in Stages : Goto(p, s)
            \/ \E c \in 0 .. 2 : Exit(p, c)

\* Only p's own step touches what p keeps.
Same(q) == /\ pc'[q] = pc[q] /\ code'[q] = code[q]
           /\ step'[q] = step[q] /\ base'[q] = base[q] /\ tasks'[q] = tasks[q]
           /\ receipt'[q] = receipt[q] /\ receipts'[q] = receipts[q]
           /\ used'[q] = used[q]

LEMMA MovesTyped ==
  ASSUME LocalInv, NEW p \in Procs, Moves(p)
  PROVE  /\ pc' \in [Procs -> Stages] /\ code' \in [Procs -> {0, 1, 2, Missing}]
         /\ \A q \in Procs \ {p} : pc'[q] = pc[q] /\ code'[q] = code[q]
  <1> USE DEF LocalInv
  <1>1. CASE \E s \in Stages : Goto(p, s)
    BY <1>1 DEF Goto
  <1>2. CASE \E c \in 0 .. 2 : Exit(p, c)
    <2>1. "ended" \in Stages
      BY DEF Stages
    <2> HIDE DEF Stages
    <2> QED
      BY <1>2, <2>1 DEF Exit
  <1> QED
    BY <1>1, <1>2 DEF Moves

LEMMA ReceiptTyped ==
  ASSUME LocalInv, NEW p \in Procs
  PROVE  /\ NoReceipt \in Receipts
         /\ \A w \in Workspaces \cup {Missing} : /\ [receipt[p] EXCEPT !.base = w] \in Receipts
                                                 /\ [receipt[p] EXCEPT !.gold = w] \in Receipts
         /\ \A v \in Verifiers : [receipt[p] EXCEPT !.verifier = v] \in Receipts
         /\ \A a \in {"pass", "fail", "exception"} :
               /\ [receipt[p] EXCEPT !.base_runs = Append(receipt[p].base_runs, a)] \in Receipts
               /\ [receipt[p] EXCEPT !.gold_runs = Append(receipt[p].gold_runs, a)] \in Receipts
         /\ \A b \in BOOLEAN : /\ [receipt[p] EXCEPT !.source_only = b] \in Receipts
                               /\ [receipt[p] EXCEPT !.read_only = b] \in Receipts
                               /\ [receipt[p] EXCEPT !.unchanged = b] \in Receipts
  <1>1. receipt[p] \in Receipts
    BY DEF LocalInv
  <1>2. \A a \in {"pass", "fail", "exception"} : /\ Append(receipt[p].base_runs, a) \in Runs
                                                 /\ Append(receipt[p].gold_runs, a) \in Runs
    BY <1>1 DEF Receipts, Runs
  <1>3. NoReceipt \in Receipts
    BY DEF NoReceipt, Receipts, Runs
  <1> HIDE DEF Workspaces, Verifiers, Runs
  <1>4. ASSUME NEW w \in Workspaces \cup {Missing}
        PROVE  [receipt[p] EXCEPT !.base = w] \in Receipts
    BY <1>1, <1>4 DEF Receipts
  <1>5. ASSUME NEW w \in Workspaces \cup {Missing}
        PROVE  [receipt[p] EXCEPT !.gold = w] \in Receipts
    BY <1>1, <1>5 DEF Receipts
  <1>6. ASSUME NEW v \in Verifiers PROVE [receipt[p] EXCEPT !.verifier = v] \in Receipts
    BY <1>1, <1>6 DEF Receipts
  <1>7. ASSUME NEW runs \in Runs PROVE [receipt[p] EXCEPT !.base_runs = runs] \in Receipts
    BY <1>1, <1>7 DEF Receipts
  <1>8. ASSUME NEW runs \in Runs PROVE [receipt[p] EXCEPT !.gold_runs = runs] \in Receipts
    BY <1>1, <1>8 DEF Receipts
  <1>9. ASSUME NEW b \in BOOLEAN PROVE [receipt[p] EXCEPT !.source_only = b] \in Receipts
    BY <1>1, <1>9 DEF Receipts
  <1>10. ASSUME NEW b \in BOOLEAN PROVE [receipt[p] EXCEPT !.read_only = b] \in Receipts
    BY <1>1, <1>10 DEF Receipts
  <1>11. ASSUME NEW b \in BOOLEAN PROVE [receipt[p] EXCEPT !.unchanged = b] \in Receipts
    BY <1>1, <1>11 DEF Receipts
  <1> QED
    BY <1>2, <1>3, <1>4, <1>5, <1>6, <1>7, <1>8, <1>9, <1>10, <1>11

LEMMA StepMoves == ASSUME NEW p \in Procs, Step(p) PROVE Moves(p)
  <1> SUFFICES \/ \E s \in Stages : Goto(p, s)
               \/ \E c \in 0 .. 2 : Exit(p, c)
    BY DEF Moves
  <1>1. 0 \in 0 .. 2 /\ 1 \in 0 .. 2 /\ 2 \in 0 .. 2
    OBVIOUS
  <1>2. Stages = {"empty", "init", "truncate", "write", "add", "commit", "base", "gold",
                  "check source", "create source", "write source", "claim",
                  "stage", "snapshot base", "snapshot gold", "hash", "run base",
                  "run gold", "sources", "mode", "unchanged", "digest base",
                  "digest gold", "open receipt", "write receipt", "print",
                  "idle", "ended"}
    BY DEF Stages, Building, Replaying
  <1> HIDE DEF Stages
  <1>3. CASE Start(p)
    BY <1>1, <1>2, <1>3 DEF Start
  <1>4. CASE MakeRepository(p)
    BY <1>1, <1>2, <1>4 DEF MakeRepository
  <1>5. CASE GitInit(p)
    BY <1>1, <1>2, <1>5 DEF GitInit
  <1>6. CASE TruncateModule(p)
    BY <1>1, <1>2, <1>6 DEF TruncateModule
  <1>7. CASE FillModule(p)
    BY <1>1, <1>2, <1>7 DEF FillModule
  <1>8. CASE GitAdd(p)
    BY <1>1, <1>2, <1>8 DEF GitAdd
  <1>9. CASE GitCommit(p)
    <2>1. (IF step[p] = 0 THEN "base" ELSE "gold") \in Stages
      BY <1>2
    <2> QED
      BY <1>9, <2>1 DEF GitCommit
  <1>10. CASE RevParseBase(p)
    BY <1>1, <1>2, <1>10 DEF RevParseBase
  <1>11. CASE RevParseGold(p)
    <2>1. (IF LastFix(p) THEN "check source" ELSE "base") \in Stages
      BY <1>2
    <2> QED
      BY <1>1, <1>11, <2>1 DEF RevParseGold
  <1>12. CASE CheckSource(p)
    BY <1>1, <1>2, <1>12 DEF CheckSource
  <1>13. CASE WriteSource(p)
    BY <1>1, <1>2, <1>13 DEF WriteSource
  <1>14. CASE Claim(p)
    BY <1>1, <1>2, <1>14 DEF Claim
  <1>15. CASE StageVerifier(p)
    BY <1>1, <1>2, <1>15 DEF StageVerifier
  <1>16. CASE SnapshotBase(p)
    BY <1>1, <1>2, <1>16 DEF SnapshotBase
  <1>17. CASE SnapshotGold(p)
    BY <1>1, <1>2, <1>17 DEF SnapshotGold
  <1>18. CASE HashVerifier(p)
    BY <1>1, <1>2, <1>18 DEF HashVerifier
  <1>19. CASE RunVerifier(p)
    <2>1. \/ \E b : Goto(p, IF b THEN "run gold" ELSE "run base")
          \/ \E b : Goto(p, IF b THEN "sources" ELSE "run gold")
      BY <1>19 DEF RunVerifier, RunOn
    <2> QED
      BY <1>2, <2>1
  <1>20. CASE CheckSources(p)
    BY <1>1, <1>2, <1>20 DEF CheckSources
  <1>21. CASE CheckMode(p)
    BY <1>1, <1>2, <1>21 DEF CheckMode
  <1>22. CASE CheckUnchanged(p)
    BY <1>1, <1>2, <1>22 DEF CheckUnchanged
  <1>23. CASE DigestBase(p)
    BY <1>1, <1>2, <1>23 DEF DigestBase
  <1>24. CASE DigestGold(p)
    <2>1. (IF Task(p) = NumTasks THEN "open receipt" ELSE "stage") \in Stages
      BY <1>2
    <2> QED
      BY <1>24, <2>1 DEF DigestGold
  <1>25. CASE OpenReceipt(p)
    BY <1>1, <1>2, <1>25 DEF OpenReceipt
  <1>26. CASE WriteReceipt(p)
    BY <1>1, <1>2, <1>26 DEF WriteReceipt
  <1>27. CASE PrintReceipt(p)
    <2>1. \E b : Exit(p, IF b THEN 0 ELSE 1)
      BY <1>27 DEF PrintReceipt
    <2> QED
      BY <1>1, <2>1
  <1>28. CASE Fail(p)
    BY <1>1, <1>2, <1>28 DEF Fail
  <1> QED
    BY <1>3, <1>4, <1>5, <1>6, <1>7, <1>8, <1>9, <1>10, <1>11, <1>12, <1>13, <1>14, <1>15, <1>16,
       <1>17, <1>18, <1>19, <1>20, <1>21, <1>22, <1>23, <1>24, <1>25, <1>26, <1>27, <1>28 DEF Step

LEMMA LocalStep ==
  ASSUME TypeInv, NEW p \in Procs, Step(p)
  PROVE  LocalInv' /\ \A q \in Procs \ {p} : Same(q)
  <1>0. Moves(p)
    BY StepMoves
  <1> USE DEF building, replaying, environment
  <1>1. /\ pc \in [Procs -> Stages] /\ code \in [Procs -> {0, 1, 2, Missing}]
        /\ step \in [Procs -> 0 .. NumTasks] /\ base \in [Procs -> Seq(Commits)]
        /\ tasks \in [Procs -> Seq([base : Made, gold : Made])]
        /\ receipt \in [Procs -> Receipts] /\ receipts \in [Procs -> Seq(Receipts)]
        /\ used \in [Procs -> [Tasks -> SUBSET Verifiers]]
    BY DEF TypeInv, LocalInv
  <1>2. LocalInv /\ SharedInv /\ BuildInv(p) /\ TaskInv(p)
    BY DEF TypeInv
  <1>3. pc[p] \in Placed => Task(p) \in Tasks /\ dirs[Task(p)] \in Directories
    BY <1>2, TaskIsATask, StageSets DEF TaskInv, SharedInv
  <1> HIDE DEF Commits, Made, Receipts, Verifiers, Workspaces
  <1>4. ASSUME Moves(p), UNCHANGED <<step, base, tasks, receipt, receipts, used>>
        PROVE  LocalInv' /\ \A q \in Procs \ {p} : Same(q)
    BY <1>1, <1>2, <1>4, <1>0, MovesTyped DEF LocalInv, Same
  <1>5. ASSUME Moves(p), UNCHANGED <<step, base, tasks, receipts, used>>,
               NEW r \in Receipts, receipt' = [receipt EXCEPT ![p] = r]
        PROVE  LocalInv' /\ \A q \in Procs \ {p} : Same(q)
    BY <1>1, <1>2, <1>5, <1>0, MovesTyped DEF LocalInv, Same
  <1>6. CASE Start(p) \/ MakeRepository(p) \/ GitInit(p) \/ TruncateModule(p) \/ FillModule(p)
    <2>1. UNCHANGED <<step, base, tasks, receipt, receipts, used>>
      BY <1>6 DEF Start, MakeRepository, GitInit, TruncateModule, FillModule
    <2> QED
      BY <1>0, <1>4, <2>1
  <1>7. CASE GitAdd(p) \/ GitCommit(p) \/ CheckSource(p) \/ WriteSource(p) \/ Claim(p)
    <2>1. UNCHANGED <<step, base, tasks, receipt, receipts, used>>
      BY <1>7 DEF GitAdd, GitCommit, CheckSource, WriteSource, Claim
    <2> QED
      BY <1>0, <1>4, <2>1
  <1>8. CASE OpenReceipt(p) \/ WriteReceipt(p) \/ PrintReceipt(p) \/ Fail(p)
    <2>1. UNCHANGED <<step, base, tasks, receipt, receipts, used>>
      BY <1>8 DEF OpenReceipt, WriteReceipt, PrintReceipt, Fail
    <2> QED
      BY <1>0, <1>4, <2>1
  <1>9. CASE RevParseBase(p)
    <2>1. UNCHANGED <<tasks, receipt, receipts, used>>
          /\ base' = [base EXCEPT ![p] = repo.head] /\ step' = [step EXCEPT ![p] = @ + 1]
      BY <1>9 DEF RevParseBase
    <2>2. repo.head \in Seq(Commits)
      BY <1>2 DEF SharedInv, Repos
    <2>3. step[p] + 1 \in 0 .. NumTasks
      BY <1>1, <1>2, <1>9, TaskCount DEF BuildInv, RevParseBase
    <2> QED
      BY <1>1, <1>2, <2>1, <2>2, <2>3, <1>0, MovesTyped DEF LocalInv, Same
  <1>10. CASE RevParseGold(p)
    <2>1. UNCHANGED <<step, base, receipt, receipts, used>>
      BY <1>10 DEF RevParseGold
    <2>2. CASE UNCHANGED tasks
      BY <1>0, <1>4, <2>1, <2>2
    <2>3. CASE tasks' = [tasks EXCEPT ![p] = Append(@, [base |-> base[p], gold |-> repo.head])]
      <3>1. repo.head \in Made /\ base[p] \in Made
        BY <1>1, <1>2, <1>10 DEF BuildInv, SharedInv, Repos, RevParseGold, Made
      <3>2. [base |-> base[p], gold |-> repo.head] \in [base : Made, gold : Made]
        BY <3>1
      <3>3. Append(tasks[p], [base |-> base[p], gold |-> repo.head])
               \in Seq([base : Made, gold : Made])
        BY <1>1, <3>2, Appending
      <3> QED
        BY <1>1, <1>2, <2>1, <2>3, <3>3, <1>0, MovesTyped DEF LocalInv, Same
    <2> QED
      BY <1>10, <2>2, <2>3 DEF RevParseGold
  <1>11. CASE StageVerifier(p)
    <2>1. UNCHANGED <<step, base, tasks, receipts, used>>
          /\ (UNCHANGED receipt \/ receipt' = [receipt EXCEPT ![p] = NoReceipt])
      BY <1>11 DEF StageVerifier
    <2> QED
      BY <1>0, <1>2, <1>4, <1>5, <2>1, ReceiptTyped
  <1>12. CASE SnapshotBase(p) \/ SnapshotGold(p)
    <2>1. UNCHANGED <<step, base, tasks, receipt, receipts, used>>
      BY <1>12 DEF SnapshotBase, SnapshotGold
    <2> QED
      BY <1>0, <1>4, <2>1
  <1>13. CASE HashVerifier(p)
    <2>1. UNCHANGED <<step, base, tasks, receipts, used>>
          /\ receipt' = [receipt EXCEPT ![p] =
                           [receipt[p] EXCEPT !.verifier = dirs[Task(p)].verifier]]
      BY <1>13 DEF HashVerifier, Records
    <2>2. dirs[Task(p)].verifier \in Verifiers
      BY <1>3, <1>13, StageSets DEF HashVerifier, Directories
    <2> QED
      BY <1>0, <1>2, <1>5, <2>1, <2>2, ReceiptTyped
  <1>14. CASE RunVerifier(p)
    <2>1. UNCHANGED <<step, base, tasks, receipts>>
      BY <1>14 DEF RunVerifier, RunOn, Records
    <2>2. \E m : \E answer \in Answers(dirs[Task(p)].verifier, m, Task(p)) :
             \/ receipt' = [receipt EXCEPT ![p] =
                              [receipt[p] EXCEPT !.base_runs = Append(@, answer)]]
             \/ receipt' = [receipt EXCEPT ![p] =
                              [receipt[p] EXCEPT !.gold_runs = Append(@, answer)]]
      BY <1>14 DEF RunVerifier, RunOn, Records
    <2>3. \E r \in Receipts : receipt' = [receipt EXCEPT ![p] = r]
      BY <1>2, <2>2, AnswerIsOne, ReceiptTyped
    <2>4. used' = [used EXCEPT ![p][Task(p)] = @ \cup {dirs[Task(p)].verifier}]
      BY <1>14 DEF RunVerifier, RunOn
    <2>5. Task(p) \in Tasks /\ dirs[Task(p)].verifier \in Verifiers
      BY <1>3, <1>14, StageSets DEF RunVerifier, Directories
    <2>6. used' \in [Procs -> [Tasks -> SUBSET Verifiers]]
          /\ \A q \in Procs \ {p} : used'[q] = used[q]
      BY <1>1, <2>4, <2>5
    <2> QED
      BY <1>1, <1>2, <2>1, <2>3, <2>6, <1>0, MovesTyped DEF LocalInv, Same
  <1>15. CASE CheckSources(p)
    <2>1. UNCHANGED <<step, base, tasks, receipts, used>>
          /\ \E b \in BOOLEAN : receipt' = [receipt EXCEPT ![p] =
                                              [receipt[p] EXCEPT !.source_only = b]]
      BY <1>15 DEF CheckSources, Records
    <2> QED
      BY <1>0, <1>2, <1>5, <2>1, ReceiptTyped
  <1>16. CASE CheckMode(p)
    <2>1. UNCHANGED <<step, base, tasks, receipts, used>>
          /\ \E b \in BOOLEAN : receipt' = [receipt EXCEPT ![p] =
                                              [receipt[p] EXCEPT !.read_only = b]]
      BY <1>16 DEF CheckMode, Records
    <2> QED
      BY <1>0, <1>2, <1>5, <2>1, ReceiptTyped
  <1>17. CASE CheckUnchanged(p)
    <2>1. UNCHANGED <<step, base, tasks, receipts, used>>
          /\ \E b \in BOOLEAN : receipt' = [receipt EXCEPT ![p] =
                                              [receipt[p] EXCEPT !.unchanged = b]]
      BY <1>17 DEF CheckUnchanged, Unchanged, Records
    <2> QED
      BY <1>0, <1>2, <1>5, <2>1, ReceiptTyped
  <1>18. CASE DigestBase(p)
    <2>1. UNCHANGED <<step, base, tasks, receipts, used>>
          /\ receipt' = [receipt EXCEPT ![p] =
                           [receipt[p] EXCEPT !.base = dirs[Task(p)].base]]
      BY <1>18 DEF DigestBase, Records
    <2>2. dirs[Task(p)].base \in Workspaces \cup {Missing}
      BY <1>3, <1>18, StageSets DEF DigestBase, Directories
    <2> QED
      BY <1>0, <1>2, <1>5, <2>1, <2>2, ReceiptTyped
  <1>19. CASE DigestGold(p)
    <2>1. UNCHANGED <<step, base, tasks, receipt, used>>
          /\ receipts' = [receipts EXCEPT ![p] =
                            Append(@, [receipt[p] EXCEPT !.gold = dirs[Task(p)].gold])]
      BY <1>19 DEF DigestGold
    <2>2. dirs[Task(p)].gold \in Workspaces \cup {Missing}
      BY <1>3, <1>19, StageSets DEF DigestGold, Directories
    <2>3. [receipt[p] EXCEPT !.gold = dirs[Task(p)].gold] \in Receipts
      BY <1>2, <2>2, ReceiptTyped
    <2>4. Append(receipts[p], [receipt[p] EXCEPT !.gold = dirs[Task(p)].gold]) \in Seq(Receipts)
      BY <1>1, <2>3, Appending
    <2> QED
      BY <1>1, <1>2, <2>1, <2>4, <1>0, MovesTyped DEF LocalInv, Same
  <1> QED
    BY <1>6, <1>7, <1>8, <1>9, <1>10, <1>11, <1>12, <1>13, <1>14, <1>15, <1>16, <1>17,
       <1>18, <1>19 DEF Step

(***************************************************************************)
(* What the processes share                                                *)
(***************************************************************************)
\* What no step takes back.
Grown == /\ repo.module \in Modules => repo'.module \in Modules
         /\ repo.index \in Modules => repo'.index \in Modules
         /\ repo.head # <<>> => repo'.head # <<>>
         /\ source # Missing => source' # Missing
         /\ claimed = TRUE => claimed' = TRUE
         /\ \A k \in Tasks : dirs[k] # Missing => dirs'[k] # Missing

\* What a change of another program leaves alone.
Untouched == UNCHANGED <<building, claimed, out, pc, code, receipt, receipts, used, bound>>

\* The builder's part of it.
RepoInv == /\ repo \in Repos
           /\ source \in {Missing, Torn, "good"} /\ claimed \in BOOLEAN

LEMMA RepoTyped ==
  ASSUME NEW r \in Repos
  PROVE  /\ \A b \in BOOLEAN : LET u == [r EXCEPT !.made = b]
                            IN  u \in Repos /\ u.module = r.module /\ u.index = r.index
                                /\ u.head = r.head /\ u.git = r.git
         /\ \A b \in BOOLEAN : LET u == [r EXCEPT !.git = b]
                            IN  u \in Repos /\ u.module = r.module /\ u.index = r.index
                                /\ u.head = r.head /\ u.made = r.made
         /\ \A m \in Entries : LET u == [r EXCEPT !.module = m]
                            IN  u \in Repos /\ u.module = m /\ u.index = r.index
                                /\ u.head = r.head /\ u.made = r.made /\ u.git = r.git
         /\ \A m \in Entries : LET u == [r EXCEPT !.index = m]
                            IN  u \in Repos /\ u.module = r.module /\ u.index = m
                                /\ u.head = r.head /\ u.made = r.made /\ u.git = r.git
         /\ \A h \in Seq(Commits) : LET u == [r EXCEPT !.head = h]
                            IN  u \in Repos /\ u.module = r.module /\ u.index = r.index
                                /\ u.head = h /\ u.made = r.made /\ u.git = r.git
  <1> DEFINE Logs == Seq(Commits)
  <1>1. Repos = [made : BOOLEAN, git : BOOLEAN, module : Entries, index : Entries, head : Logs]
    BY DEF Repos
  <1> HIDE DEF Entries, Logs
  <1>2. \A b \in BOOLEAN : LET u == [r EXCEPT !.made = b]
                       IN  u \in Repos /\ u.module = r.module /\ u.index = r.index
                           /\ u.head = r.head /\ u.git = r.git
    BY <1>1
  <1>3. \A b \in BOOLEAN : LET u == [r EXCEPT !.git = b]
                       IN  u \in Repos /\ u.module = r.module /\ u.index = r.index
                           /\ u.head = r.head /\ u.made = r.made
    BY <1>1
  <1>4. \A m \in Entries : LET u == [r EXCEPT !.module = m]
                       IN  u \in Repos /\ u.module = m /\ u.index = r.index
                           /\ u.head = r.head /\ u.made = r.made /\ u.git = r.git
    BY <1>1
  <1>5. \A m \in Entries : LET u == [r EXCEPT !.index = m]
                       IN  u \in Repos /\ u.module = r.module /\ u.index = m
                           /\ u.head = r.head /\ u.made = r.made /\ u.git = r.git
    BY <1>1
  <1>6. \A h \in Logs : LET u == [r EXCEPT !.head = h]
                    IN  u \in Repos /\ u.module = r.module /\ u.index = r.index
                        /\ u.head = h /\ u.made = r.made /\ u.git = r.git
    BY <1>1
  <1> QED
    BY <1>2, <1>3, <1>4, <1>5, <1>6 DEF Logs

LEMMA RepoStep ==
  ASSUME TypeInv, NEW p \in Procs, Step(p)
  PROVE  /\ RepoInv'
         /\ repo.module \in Modules => repo'.module \in Modules
         /\ repo.index \in Modules => repo'.index \in Modules
         /\ repo.head # <<>> => repo'.head # <<>>
         /\ source # Missing => source' # Missing
         /\ claimed = TRUE => claimed' = TRUE
  <1> USE DEF building, replaying, environment
  <1>1. RepoInv /\ repo \in Repos /\ repo.head \in Seq(Commits)
    BY DEF TypeInv, SharedInv, RepoInv, Repos
  <1>2. BuildInv(p) /\ step[p] \in 0 .. NumTasks
    BY DEF TypeInv, LocalInv
  <1>3. Torn \in Modules /\ Modules \subseteq Entries
    BY DEF Modules, Entries
  <1>4. Torn # Missing /\ "good" # Missing
    BY MissingIsNoValue DEF Verifiers
  <1> HIDE DEF Modules, Entries, Commits
  <1>5. CASE UNCHANGED <<repo, source, claimed>>
    BY <1>1, <1>5 DEF RepoInv
  <1>6. ASSUME repo' \in Repos, UNCHANGED <<source, claimed>>,
               repo.module \in Modules => repo'.module \in Modules,
               repo.index \in Modules => repo'.index \in Modules,
               repo.head # <<>> => repo'.head # <<>>
        PROVE  /\ RepoInv'
               /\ source # Missing => source' # Missing
               /\ claimed = TRUE => claimed' = TRUE
    BY <1>1, <1>6 DEF RepoInv
  <1>7. CASE MakeRepository(p)
    <2>1. UNCHANGED <<source, claimed>>
          /\ (UNCHANGED repo \/ repo' = [repo EXCEPT !.made = TRUE])
      BY <1>7 DEF MakeRepository
    <2>2. CASE UNCHANGED repo
      BY <1>5, <2>1, <2>2
    <2>3. CASE repo' = [repo EXCEPT !.made = TRUE]
      BY <1>1, <1>6, <2>1, <2>3, RepoTyped
    <2> QED
      BY <2>1, <2>2, <2>3
  <1>8. CASE GitInit(p)
    <2>1. UNCHANGED <<source, claimed>> /\ repo' = [repo EXCEPT !.git = TRUE]
      BY <1>8 DEF GitInit
    <2> QED
      BY <1>1, <1>6, <2>1, RepoTyped
  <1>9. CASE TruncateModule(p)
    <2>1. UNCHANGED <<source, claimed>> /\ repo' = [repo EXCEPT !.module = Torn]
      BY <1>9 DEF TruncateModule
    <2> QED
      BY ZenonT(40), <1>1, <1>3, <1>6, <2>1, RepoTyped
  <1>10. CASE FillModule(p)
    <2>1. UNCHANGED <<source, claimed>>
      BY <1>10 DEF FillModule
    <2>2. PICK m \in Modules : repo' = [repo EXCEPT !.module = m]
      BY <1>2, <1>3, <1>10, RepairedModule DEF FillModule
    <2> QED
      BY ZenonT(40), <1>1, <1>3, <1>6, <2>1, <2>2, RepoTyped
  <1>11. CASE GitAdd(p)
    <2>1. UNCHANGED <<source, claimed>> /\ repo' = [repo EXCEPT !.index = repo.module]
      BY <1>11 DEF GitAdd
    <2>2. repo.module \in Modules
      BY <1>2, <1>11 DEF BuildInv, GitAdd
    <2> QED
      BY ZenonT(40), <1>1, <1>3, <1>6, <2>1, RepoTyped, <2>2
  <1>12. CASE GitCommit(p)
    <2> DEFINE commit == [tree |-> repo.index, sequence |-> step[p]]
    <2>1. UNCHANGED <<source, claimed>>
          /\ repo' = [repo EXCEPT !.head = Append(repo.head, commit)]
      BY <1>12 DEF GitCommit
    <2>2. repo.index \in Modules
      BY <1>2, <1>12 DEF BuildInv, GitCommit
    <2>3. commit \in Commits
      BY <1>2, <2>2 DEF Commits
    <2> HIDE DEF commit
    <2>4. Append(repo.head, commit) \in Seq(Commits) /\ Append(repo.head, commit) # <<>>
      BY <1>1, <2>3, Appending
    <2> QED
      BY ZenonT(40), <1>1, <1>3, <1>6, <2>1, RepoTyped, <2>4
  <1>13. CASE WriteSource(p)
    <2>1. UNCHANGED <<repo, claimed>> /\ source' \in {Torn, "good"}
      BY <1>13 DEF WriteSource
    <2> QED
      BY <1>1, <1>4, <2>1 DEF RepoInv
  <1>14. CASE Claim(p)
    <2>1. UNCHANGED <<repo, source>> /\ (UNCHANGED claimed \/ claimed' = TRUE)
      BY <1>14 DEF Claim
    <2> QED
      BY <1>1, <2>1 DEF RepoInv
  <1>15. CASE Start(p) \/ RevParseBase(p) \/ RevParseGold(p) \/ CheckSource(p)
    BY <1>5, <1>15 DEF Start, RevParseBase, RevParseGold, CheckSource
  <1>16. CASE StageVerifier(p) \/ SnapshotBase(p) \/ SnapshotGold(p)
    BY <1>5, <1>16 DEF StageVerifier, SnapshotBase, SnapshotGold
  <1>17. CASE HashVerifier(p) \/ CheckSources(p) \/ CheckMode(p) \/ CheckUnchanged(p)
              \/ DigestBase(p) \/ DigestGold(p)
    BY <1>5, <1>17 DEF HashVerifier, CheckSources, CheckMode, CheckUnchanged, DigestBase,
       DigestGold, Records
  <1>18. CASE RunVerifier(p)
    BY <1>5, <1>18 DEF RunVerifier, RunOn, Records
  <1>19. CASE OpenReceipt(p) \/ WriteReceipt(p) \/ PrintReceipt(p) \/ Fail(p)
    BY <1>5, <1>19 DEF OpenReceipt, WriteReceipt, PrintReceipt, Fail
  <1> QED
    BY <1>7, <1>8, <1>9, <1>10, <1>11, <1>12, <1>13, <1>14, <1>15, <1>16, <1>17, <1>18,
       <1>19 DEF Step

\* A process makes the directory of its own task and nothing else there.
LEMMA DirsStep ==
  ASSUME TypeInv, NEW p \in Procs, Step(p)
  PROVE  /\ dirs' \in [Tasks -> Directories \cup {Missing}] /\ UNCHANGED environment
         /\ \A k \in Tasks : dirs[k] # Missing => dirs'[k] # Missing
         /\ \/ UNCHANGED dirs
            \/ /\ pc[p] \in {"stage", "snapshot base", "snapshot gold"} /\ Task(p) \in Tasks
               /\ \A k \in Tasks : k # Task(p) => dirs'[k] = dirs[k]
  <1> USE DEF building, replaying, environment
  <1>1. /\ dirs \in [Tasks -> Directories \cup {Missing}] /\ BuildInv(p) /\ TaskInv(p)
        /\ source \in {Missing, Torn, "good"} /\ LocalInv
        /\ tasks[p] \in Seq([base : Made, gold : Made])
    BY DEF TypeInv, SharedInv, LocalInv
  <1>2. UNCHANGED environment
    BY DEF Step, Start, MakeRepository, GitInit, TruncateModule, FillModule, GitAdd, GitCommit,
       RevParseBase, RevParseGold, CheckSource, WriteSource, Claim, StageVerifier,
       SnapshotBase, SnapshotGold, HashVerifier, RunVerifier, RunOn, CheckSources, CheckMode,
       CheckUnchanged, DigestBase, DigestGold, Records, OpenReceipt, WriteReceipt,
       PrintReceipt, Fail
  <1>3. Missing \notin Directories
    BY MissingIsNoValue
  <1>4. CASE UNCHANGED dirs
    BY <1>1, <1>2, <1>4
  <1>5. pc[p] \in InTask => /\ Task(p) \in Tasks
                            /\ tasks[p][Task(p)].base \in Made /\ tasks[p][Task(p)].gold \in Made
    <2> HAVE pc[p] \in InTask
    <2>1. Len(receipts[p]) < NumTasks /\ Len(tasks[p]) = NumTasks
      BY <1>1, StageSets DEF TaskInv, BuildInv, InTask
    <2>2. Task(p) \in Tasks
      BY <1>1, <2>1, TaskIsATask
    <2>3. Task(p) \in 1 .. Len(tasks[p])
      BY <2>1, <2>2 DEF Tasks
    <2>4. tasks[p][Task(p)] \in [base : Made, gold : Made]
      BY <1>1, <2>3, ElementTyped
    <2> QED
      BY <2>2, <2>4
  <1> HIDE DEF Directories, Workspaces, Made
  <1>6. ASSUME NEW d \in Directories, dirs' = [dirs EXCEPT ![Task(p)] = d],
               pc[p] \in {"stage", "snapshot base", "snapshot gold"}
        PROVE  /\ dirs' \in [Tasks -> Directories \cup {Missing}] /\ Task(p) \in Tasks
               /\ \A k \in Tasks : dirs[k] # Missing => dirs'[k] # Missing
               /\ \A k \in Tasks : k # Task(p) => dirs'[k] = dirs[k]
    BY <1>1, <1>3, <1>5, <1>6, StageSets
  <1>7. CASE StageVerifier(p)
    <2> DEFINE d == [verifier |-> source, writable |-> FALSE, base |-> Missing, gold |-> Missing]
    <2>1. pc[p] = "stage" /\ (UNCHANGED dirs \/ dirs' = [dirs EXCEPT ![Task(p)] = d])
      BY <1>7 DEF StageVerifier
    <2>2. source \in Verifiers
      BY <1>1, <2>1 DEF BuildInv, Replaying, Verifiers
    <2>3. d \in Directories
      BY <2>2 DEF Directories
    <2> HIDE DEF d
    <2> QED
      BY <1>2, <1>4, <1>6, <2>1, <2>3
  <1>8. pc[p] \in Placed => dirs[Task(p)] \in Directories
    BY <1>1, <1>5, StageSets DEF TaskInv
  <1>9. CASE SnapshotBase(p)
    <2> DEFINE w == Snapshot(tasks[p][Task(p)].base)
    <2>1. pc[p] = "snapshot base" /\ dirs' = [dirs EXCEPT ![Task(p)].base = w]
      BY <1>9 DEF SnapshotBase
    <2>2. w \in Workspaces
      BY <1>5, <2>1, SnapshotTyped, StageSets
    <2> HIDE DEF w
    <2>3. [dirs[Task(p)] EXCEPT !.base = w] \in Directories
      BY <1>8, <2>1, <2>2, StageSets DEF Directories
    <2> QED
      BY <1>1, <1>2, <1>6, <2>1, <2>3
  <1>10. CASE SnapshotGold(p)
    <2> DEFINE w == Snapshot(tasks[p][Task(p)].gold)
    <2>1. pc[p] = "snapshot gold" /\ dirs' = [dirs EXCEPT ![Task(p)].gold = w]
      BY <1>10 DEF SnapshotGold
    <2>2. w \in Workspaces
      BY <1>5, <2>1, SnapshotTyped, StageSets
    <2> HIDE DEF w
    <2>3. [dirs[Task(p)] EXCEPT !.gold = w] \in Directories
      BY <1>8, <2>1, <2>2, StageSets DEF Directories
    <2> QED
      BY <1>1, <1>2, <1>6, <2>1, <2>3
  <1>11. StageVerifier(p) \/ SnapshotBase(p) \/ SnapshotGold(p) \/ UNCHANGED dirs
    BY DEF Step, Start, MakeRepository, GitInit, TruncateModule, FillModule, GitAdd, GitCommit,
       RevParseBase, RevParseGold, CheckSource, WriteSource, Claim,
       HashVerifier, RunVerifier, RunOn, CheckSources, CheckMode,
       CheckUnchanged, DigestBase, DigestGold, Records, OpenReceipt, WriteReceipt,
       PrintReceipt, Fail
  <1> QED
    BY <1>4, <1>7, <1>9, <1>10, <1>11

LEMMA EditStep ==
  ASSUME TypeInv, NEW k \in Tasks, Edit(k)
  PROVE  /\ SharedInv' /\ Untouched /\ Grown
         /\ changes' = changes + 1 /\ edits' = [edits EXCEPT ![k] = @ + 1]
         /\ \A l \in Tasks : l # k => dirs'[l] = dirs[l]
  <1>1. /\ dirs \in [Tasks -> Directories \cup {Missing}] /\ edits \in [Tasks -> Nat]
        /\ changes \in Nat /\ bound \in Bounds /\ changes <= bound.edits /\ bound.edits \in Nat
    BY ReplayBounds DEF TypeInv, SharedInv
  <1>2. Missing \notin Directories
    BY MissingIsNoValue
  <1>3. dirs[k] \in Directories
    BY <1>1 DEF Edit
  <1>4. Untouched /\ changes' = changes + 1 /\ changes < bound.edits
        /\ edits' = [edits EXCEPT ![k] = @ + 1]
    BY DEF Edit, Untouched
  <1> HIDE DEF Verifiers, Workspaces
  <1>5. \E d \in Directories : dirs' = [dirs EXCEPT ![k] = d]
    <2>1. CASE \E v \in Verifiers : dirs' = [dirs EXCEPT ![k].verifier = v]
      <3>1. PICK v \in Verifiers : dirs' = [dirs EXCEPT ![k].verifier = v]
        BY <2>1
      <3>2. [dirs[k] EXCEPT !.verifier = v] \in Directories
        BY <1>3 DEF Directories
      <3> HIDE DEF Directories
      <3> QED
        BY <1>1, <3>1, <3>2
    <2>2. CASE dirs' = [dirs EXCEPT ![k].writable = ~@]
      <3>1. \A b \in BOOLEAN : [dirs[k] EXCEPT !.writable = b] \in Directories
        BY <1>3 DEF Directories
      <3>2. \E b \in BOOLEAN : dirs' = [dirs EXCEPT ![k] = [dirs[k] EXCEPT !.writable = b]]
        BY <1>1, <2>2
      <3> QED
        BY <3>1, <3>2
    <2>3. CASE \E w \in Workspaces : dirs' = [dirs EXCEPT ![k].base = w]
      <3>1. PICK w \in Workspaces : dirs' = [dirs EXCEPT ![k].base = w]
        BY <2>3
      <3>2. [dirs[k] EXCEPT !.base = w] \in Directories
        BY <1>3 DEF Directories
      <3> HIDE DEF Directories
      <3> QED
        BY <1>1, <3>1, <3>2
    <2>4. CASE \E w \in Workspaces : dirs' = [dirs EXCEPT ![k].gold = w]
      <3>1. PICK w \in Workspaces : dirs' = [dirs EXCEPT ![k].gold = w]
        BY <2>4
      <3>2. [dirs[k] EXCEPT !.gold = w] \in Directories
        BY <1>3 DEF Directories
      <3> HIDE DEF Directories
      <3> QED
        BY <1>1, <3>1, <3>2
    <2> QED
      BY <2>1, <2>2, <2>3, <2>4 DEF Edit
  <1> HIDE DEF Directories
  <1>6. dirs' \in [Tasks -> Directories \cup {Missing}]
        /\ (\A l \in Tasks : l # k => dirs'[l] = dirs[l])
        /\ (\A l \in Tasks : dirs[l] # Missing => dirs'[l] # Missing)
    BY <1>1, <1>2, <1>5
  <1>7. edits' \in [Tasks -> Nat] /\ changes' \in Nat /\ changes' <= bound'.edits
    BY <1>1, <1>4 DEF Untouched
  <1>8. SharedInv'
    BY <1>1, <1>4, <1>6, <1>7 DEF TypeInv, SharedInv, Untouched, building
  <1>9. Grown
    BY <1>4, <1>6 DEF Grown, Untouched, building
  <1> QED
    BY <1>4, <1>6, <1>8, <1>9

LEMMA SharedStep ==
  ASSUME TypeInv, NEW p \in Procs, Step(p)
  PROVE  SharedInv' /\ Grown
  <1>1. RepoInv' /\ dirs' \in [Tasks -> Directories \cup {Missing}] /\ UNCHANGED environment
    BY RepoStep, DirsStep
  <1>2. SharedInv'
    BY <1>1 DEF TypeInv, SharedInv, RepoInv, environment
  <1>3. Grown
    BY RepoStep, DirsStep DEF Grown
  <1> QED
    BY <1>2, <1>3

(***************************************************************************)
(* Where a step takes a process, and what it leaves alone                  *)
(***************************************************************************)
At(p, s) == pc'[p] = s /\ code'[p] = code[p]
Left(p, c) == pc'[p] = "ended" /\ code'[p] = c

LEMMA Flow ==
  ASSUME LocalInv, NEW p \in Procs
  PROVE  /\ Start(p) => pc[p] = "idle" /\ (Left(p, 2) \/ At(p, "empty"))
         /\ MakeRepository(p) => pc[p] = "empty" /\ (Left(p, 1) \/ At(p, "init"))
         /\ GitInit(p) => pc[p] = "init" /\ At(p, "truncate")
         /\ TruncateModule(p) => pc[p] = "truncate" /\ At(p, "write")
         /\ FillModule(p) => pc[p] = "write" /\ At(p, "add")
         /\ GitAdd(p) => pc[p] = "add" /\ At(p, "commit")
         /\ GitCommit(p) =>
               pc[p] = "commit" /\ (step[p] = 0 => At(p, "base")) /\ (step[p] # 0 => At(p, "gold"))
         /\ RevParseBase(p) => pc[p] = "base" /\ At(p, "truncate")
         /\ RevParseGold(p) =>
               pc[p] = "gold"
               /\ (Left(p, 1) \/ At(p, IF LastFix(p) THEN "check source" ELSE "base"))
         /\ CheckSource(p) =>
               pc[p] = "check source" /\ (Left(p, 1) \/ At(p, "create source"))
         /\ WriteSource(p) =>
               \/ pc[p] = "create source" /\ At(p, "write source")
               \/ pc[p] = "write source" /\ At(p, "claim")
         /\ Claim(p) => pc[p] = "claim" /\ (Left(p, 1) \/ At(p, "stage"))
         /\ StageVerifier(p) =>
               pc[p] = "stage" /\ (Left(p, 1) \/ At(p, "snapshot base"))
         /\ SnapshotBase(p) => pc[p] = "snapshot base" /\ At(p, "snapshot gold")
         /\ SnapshotGold(p) => pc[p] = "snapshot gold" /\ At(p, "hash")
         /\ HashVerifier(p) => pc[p] = "hash" /\ At(p, "run base")
         /\ RunVerifier(p) =>
               \/ /\ pc[p] = "run base"
                  /\ Len(receipt'[p].base_runs) = Repetitions => At(p, "run gold")
                  /\ Len(receipt'[p].base_runs) # Repetitions => At(p, "run base")
               \/ /\ pc[p] = "run gold"
                  /\ Len(receipt'[p].gold_runs) = Repetitions => At(p, "sources")
                  /\ Len(receipt'[p].gold_runs) # Repetitions => At(p, "run gold")
         /\ CheckSources(p) => pc[p] = "sources" /\ At(p, "mode")
         /\ CheckMode(p) => pc[p] = "mode" /\ At(p, "unchanged")
         /\ CheckUnchanged(p) => pc[p] = "unchanged" /\ At(p, "digest base")
         /\ DigestBase(p) => pc[p] = "digest base" /\ At(p, "digest gold")
         /\ DigestGold(p) =>
               pc[p] = "digest gold" /\ (Task(p) = NumTasks => At(p, "open receipt")) /\ (Task(p) # NumTasks => At(p, "stage"))
         /\ OpenReceipt(p) => pc[p] = "open receipt" /\ At(p, "write receipt")
         /\ WriteReceipt(p) => pc[p] = "write receipt" /\ At(p, "print")
         /\ PrintReceipt(p) => pc[p] = "print" /\ (Left(p, 0) \/ Left(p, 1))
         /\ Fail(p) => pc[p] \in Building \cup Replaying /\ Left(p, 1)
  <1> USE DEF At, Left
  <1>1. ASSUME NEW s, Goto(p, s) PROVE At(p, s)
    BY <1>1 DEF Goto, LocalInv
  <1>2. ASSUME NEW c, Exit(p, c) PROVE Left(p, c)
    BY <1>2 DEF Exit, LocalInv
  <1> HIDE DEF At, Left
  <1>3. Start(p) => pc[p] = "idle" /\ (Left(p, 2) \/ At(p, "empty"))
    BY <1>1, <1>2 DEF Start
  <1>4. MakeRepository(p) => pc[p] = "empty" /\ (Left(p, 1) \/ At(p, "init"))
    BY <1>1, <1>2 DEF MakeRepository
  <1>5. GitInit(p) => pc[p] = "init" /\ At(p, "truncate")
    BY <1>1, <1>2 DEF GitInit
  <1>6. TruncateModule(p) => pc[p] = "truncate" /\ At(p, "write")
    BY <1>1, <1>2 DEF TruncateModule
  <1>7. FillModule(p) => pc[p] = "write" /\ At(p, "add")
    BY <1>1, <1>2 DEF FillModule
  <1>8. GitAdd(p) => pc[p] = "add" /\ At(p, "commit")
    BY <1>1, <1>2 DEF GitAdd
  <1>9. GitCommit(p) =>
          pc[p] = "commit" /\ (step[p] = 0 => At(p, "base")) /\ (step[p] # 0 => At(p, "gold"))
    BY <1>1, <1>2 DEF GitCommit
  <1>10. RevParseBase(p) => pc[p] = "base" /\ At(p, "truncate")
    BY <1>1, <1>2 DEF RevParseBase
  <1>11. RevParseGold(p) =>
          pc[p] = "gold"
          /\ (Left(p, 1) \/ At(p, IF LastFix(p) THEN "check source" ELSE "base"))
    BY <1>1, <1>2 DEF RevParseGold
  <1>12. CheckSource(p) =>
          pc[p] = "check source" /\ (Left(p, 1) \/ At(p, "create source"))
    BY <1>1, <1>2 DEF CheckSource
  <1>13. WriteSource(p) =>
          \/ pc[p] = "create source" /\ At(p, "write source")
          \/ pc[p] = "write source" /\ At(p, "claim")
    BY <1>1, <1>2 DEF WriteSource
  <1>14. Claim(p) => pc[p] = "claim" /\ (Left(p, 1) \/ At(p, "stage"))
    BY <1>1, <1>2 DEF Claim
  <1>15. StageVerifier(p) =>
          pc[p] = "stage" /\ (Left(p, 1) \/ At(p, "snapshot base"))
    BY <1>1, <1>2 DEF StageVerifier
  <1>16. SnapshotBase(p) => pc[p] = "snapshot base" /\ At(p, "snapshot gold")
    BY <1>1, <1>2 DEF SnapshotBase
  <1>17. SnapshotGold(p) => pc[p] = "snapshot gold" /\ At(p, "hash")
    BY <1>1, <1>2 DEF SnapshotGold
  <1>18. HashVerifier(p) => pc[p] = "hash" /\ At(p, "run base")
    BY <1>1, <1>2 DEF HashVerifier
  <1>19. RunVerifier(p) =>
          \/ /\ pc[p] = "run base"
             /\ Len(receipt'[p].base_runs) = Repetitions => At(p, "run gold")
             /\ Len(receipt'[p].base_runs) # Repetitions => At(p, "run base")
          \/ /\ pc[p] = "run gold"
             /\ Len(receipt'[p].gold_runs) = Repetitions => At(p, "sources")
             /\ Len(receipt'[p].gold_runs) # Repetitions => At(p, "run gold")
    BY <1>1, <1>2 DEF RunVerifier, RunOn
  <1>20. CheckSources(p) => pc[p] = "sources" /\ At(p, "mode")
    BY <1>1, <1>2 DEF CheckSources
  <1>21. CheckMode(p) => pc[p] = "mode" /\ At(p, "unchanged")
    BY <1>1, <1>2 DEF CheckMode
  <1>22. CheckUnchanged(p) => pc[p] = "unchanged" /\ At(p, "digest base")
    BY <1>1, <1>2 DEF CheckUnchanged
  <1>23. DigestBase(p) => pc[p] = "digest base" /\ At(p, "digest gold")
    BY <1>1, <1>2 DEF DigestBase
  <1>24. DigestGold(p) =>
          pc[p] = "digest gold" /\ (Task(p) = NumTasks => At(p, "open receipt")) /\ (Task(p) # NumTasks => At(p, "stage"))
    BY <1>1, <1>2 DEF DigestGold
  <1>25. OpenReceipt(p) => pc[p] = "open receipt" /\ At(p, "write receipt")
    BY <1>1, <1>2 DEF OpenReceipt
  <1>26. WriteReceipt(p) => pc[p] = "write receipt" /\ At(p, "print")
    BY <1>1, <1>2 DEF WriteReceipt
  <1>27. PrintReceipt(p) => pc[p] = "print" /\ (Left(p, 0) \/ Left(p, 1))
    BY <1>1, <1>2 DEF PrintReceipt
  <1>28. Fail(p) => pc[p] \in Building \cup Replaying /\ Left(p, 1)
    BY <1>1, <1>2 DEF Fail
  <1> QED
    BY <1>3, <1>4, <1>5, <1>6, <1>7, <1>8, <1>9, <1>10, <1>11, <1>12, <1>13, <1>14, <1>15,
       <1>16, <1>17, <1>18, <1>19, <1>20, <1>21, <1>22, <1>23, <1>24, <1>25, <1>26, <1>27, <1>28

LEMMA Kept ==
  ASSUME NEW p \in Procs, Step(p)
  PROVE  /\ pc[p] # "base" => step' = step /\ base' = base
         /\ pc[p] # "gold" => tasks' = tasks
         /\ pc[p] # "digest gold" => receipts' = receipts
         /\ pc[p] \notin {"run base", "run gold"} => used' = used
         /\ pc[p] \notin {"open receipt", "write receipt"} => out' = out
         /\ pc[p] \notin {"create source", "write source"} => source' = source
         /\ pc[p] # "claim" => claimed' = claimed
         /\ pc[p] \notin Building => repo' = repo
         /\ pc[p] \notin {"stage", "snapshot base", "snapshot gold"} => dirs' = dirs
  <1>1. pc[p] # "base" => step' = step /\ base' = base
    BY DEF Step, Start, MakeRepository, GitInit, TruncateModule, FillModule, GitAdd, GitCommit,
       RevParseBase, RevParseGold, CheckSource, WriteSource, Claim, StageVerifier,
       SnapshotBase, SnapshotGold, HashVerifier, RunVerifier, RunOn, CheckSources, CheckMode,
       CheckUnchanged, DigestBase, DigestGold, Records, OpenReceipt, WriteReceipt,
       PrintReceipt, Fail, building, replaying, environment
  <1>2. pc[p] # "gold" => tasks' = tasks
    BY DEF Step, Start, MakeRepository, GitInit, TruncateModule, FillModule, GitAdd, GitCommit,
       RevParseBase, RevParseGold, CheckSource, WriteSource, Claim, StageVerifier,
       SnapshotBase, SnapshotGold, HashVerifier, RunVerifier, RunOn, CheckSources, CheckMode,
       CheckUnchanged, DigestBase, DigestGold, Records, OpenReceipt, WriteReceipt,
       PrintReceipt, Fail, building, replaying, environment
  <1>3. pc[p] # "digest gold" => receipts' = receipts
    BY DEF Step, Start, MakeRepository, GitInit, TruncateModule, FillModule, GitAdd, GitCommit,
       RevParseBase, RevParseGold, CheckSource, WriteSource, Claim, StageVerifier,
       SnapshotBase, SnapshotGold, HashVerifier, RunVerifier, RunOn, CheckSources, CheckMode,
       CheckUnchanged, DigestBase, DigestGold, Records, OpenReceipt, WriteReceipt,
       PrintReceipt, Fail, building, replaying, environment
  <1>4. pc[p] \notin {"run base", "run gold"} => used' = used
    BY DEF Step, Start, MakeRepository, GitInit, TruncateModule, FillModule, GitAdd, GitCommit,
       RevParseBase, RevParseGold, CheckSource, WriteSource, Claim, StageVerifier,
       SnapshotBase, SnapshotGold, HashVerifier, RunVerifier, RunOn, CheckSources, CheckMode,
       CheckUnchanged, DigestBase, DigestGold, Records, OpenReceipt, WriteReceipt,
       PrintReceipt, Fail, building, replaying, environment
  <1>5. pc[p] \notin {"open receipt", "write receipt"} => out' = out
    BY DEF Step, Start, MakeRepository, GitInit, TruncateModule, FillModule, GitAdd, GitCommit,
       RevParseBase, RevParseGold, CheckSource, WriteSource, Claim, StageVerifier,
       SnapshotBase, SnapshotGold, HashVerifier, RunVerifier, RunOn, CheckSources, CheckMode,
       CheckUnchanged, DigestBase, DigestGold, Records, OpenReceipt, WriteReceipt,
       PrintReceipt, Fail, building, replaying, environment
  <1>6. pc[p] \notin {"create source", "write source"} => source' = source
    BY DEF Step, Start, MakeRepository, GitInit, TruncateModule, FillModule, GitAdd, GitCommit,
       RevParseBase, RevParseGold, CheckSource, WriteSource, Claim, StageVerifier,
       SnapshotBase, SnapshotGold, HashVerifier, RunVerifier, RunOn, CheckSources, CheckMode,
       CheckUnchanged, DigestBase, DigestGold, Records, OpenReceipt, WriteReceipt,
       PrintReceipt, Fail, building, replaying, environment
  <1>7. pc[p] # "claim" => claimed' = claimed
    BY DEF Step, Start, MakeRepository, GitInit, TruncateModule, FillModule, GitAdd, GitCommit,
       RevParseBase, RevParseGold, CheckSource, WriteSource, Claim, StageVerifier,
       SnapshotBase, SnapshotGold, HashVerifier, RunVerifier, RunOn, CheckSources, CheckMode,
       CheckUnchanged, DigestBase, DigestGold, Records, OpenReceipt, WriteReceipt,
       PrintReceipt, Fail, building, replaying, environment
  <1>8. pc[p] \notin Building => repo' = repo
    BY DEF Step, Start, MakeRepository, GitInit, TruncateModule, FillModule, GitAdd, GitCommit,
       RevParseBase, RevParseGold, CheckSource, WriteSource, Claim, StageVerifier,
       SnapshotBase, SnapshotGold, HashVerifier, RunVerifier, RunOn, CheckSources, CheckMode,
       CheckUnchanged, DigestBase, DigestGold, Records, OpenReceipt, WriteReceipt,
       PrintReceipt, Fail, building, replaying, environment, Building
  <1>9. pc[p] \notin {"stage", "snapshot base", "snapshot gold"} => dirs' = dirs
    BY DEF Step, Start, MakeRepository, GitInit, TruncateModule, FillModule, GitAdd, GitCommit,
       RevParseBase, RevParseGold, CheckSource, WriteSource, Claim, StageVerifier,
       SnapshotBase, SnapshotGold, HashVerifier, RunVerifier, RunOn, CheckSources, CheckMode,
       CheckUnchanged, DigestBase, DigestGold, Records, OpenReceipt, WriteReceipt,
       PrintReceipt, Fail, building, replaying, environment
  <1> QED
    BY <1>1, <1>2, <1>3, <1>4, <1>5, <1>6, <1>7, <1>8, <1>9

(***************************************************************************)
(* What a step records in the receipt                                      *)
(***************************************************************************)
LEMMA ReceiptSet ==
  ASSUME LocalInv, NEW p \in Procs
  PROVE  /\ StageVerifier(p) => Left(p, 1) \/ receipt'[p] = NoReceipt
         /\ HashVerifier(p) => receipt'[p].verifier = dirs[Task(p)].verifier
         /\ RunVerifier(p) =>
               \/ /\ pc[p] = "run base" /\ receipt'[p].gold_runs = receipt[p].gold_runs
                  /\ \E answer \in Answers(dirs[Task(p)].verifier,
                                           dirs[Task(p)].base.module, Task(p)) :
                        receipt'[p].base_runs = Append(receipt[p].base_runs, answer)
               \/ /\ pc[p] = "run gold" /\ receipt'[p].base_runs = receipt[p].base_runs
                  /\ \E answer \in Answers(dirs[Task(p)].verifier,
                                           dirs[Task(p)].gold.module, Task(p)) :
                        receipt'[p].gold_runs = Append(receipt[p].gold_runs, answer)
         /\ CheckSources(p) =>
               receipt'[p].source_only =
                  ("git" \notin {dirs[Task(p)].base.extra, dirs[Task(p)].gold.extra})
         /\ CheckMode(p) => receipt'[p].read_only = ~dirs[Task(p)].writable
         /\ CheckUnchanged(p) => receipt'[p].unchanged = Unchanged(p)
         /\ DigestBase(p) => receipt'[p].base = dirs[Task(p)].base
  <1>1. receipt \in [Procs -> Receipts] /\ receipt[p] \in Receipts
    BY DEF LocalInv
  <1>2. ASSUME NEW r, Records(p, r) PROVE receipt'[p] = r
    BY <1>1, <1>2 DEF Records
  <1> HIDE DEF Workspaces, Verifiers, Runs
  <1>3. StageVerifier(p) => Left(p, 1) \/ receipt'[p] = NoReceipt
    BY <1>1 DEF StageVerifier, Exit, Left, LocalInv
  <1>4. HashVerifier(p) => receipt'[p].verifier = dirs[Task(p)].verifier
    BY <1>1, <1>2 DEF HashVerifier, Receipts
  <1>5. ASSUME NEW w, RunOn(p, w)
        PROVE  \/ /\ pc[p] = "run base" /\ receipt'[p].gold_runs = receipt[p].gold_runs
                  /\ \E answer \in Answers(dirs[Task(p)].verifier, w.module, Task(p)) :
                        receipt'[p].base_runs = Append(receipt[p].base_runs, answer)
               \/ /\ pc[p] = "run gold" /\ receipt'[p].base_runs = receipt[p].base_runs
                  /\ \E answer \in Answers(dirs[Task(p)].verifier, w.module, Task(p)) :
                        receipt'[p].gold_runs = Append(receipt[p].gold_runs, answer)
    <2>1. PICK answer \in Answers(dirs[Task(p)].verifier, w.module, Task(p)) :
             \/ /\ pc[p] = "run base"
                /\ Records(p, [receipt[p] EXCEPT !.base_runs = Append(@, answer)])
             \/ /\ pc[p] = "run gold"
                /\ Records(p, [receipt[p] EXCEPT !.gold_runs = Append(@, answer)])
      BY <1>5 DEF RunOn
    <2>2. CASE /\ pc[p] = "run base"
               /\ Records(p, [receipt[p] EXCEPT !.base_runs = Append(@, answer)])
      BY <1>1, <1>2, <2>2 DEF Receipts
    <2>3. CASE /\ pc[p] = "run gold"
               /\ Records(p, [receipt[p] EXCEPT !.gold_runs = Append(@, answer)])
      BY <1>1, <1>2, <2>3 DEF Receipts
    <2> QED
      BY <2>1, <2>2, <2>3
  <1>6. RunVerifier(p) =>
          \/ pc[p] = "run base" /\ RunOn(p, dirs[Task(p)].base)
          \/ pc[p] = "run gold" /\ RunOn(p, dirs[Task(p)].gold)
    BY DEF RunVerifier
  <1>7. CheckSources(p) =>
          receipt'[p].source_only =
             ("git" \notin {dirs[Task(p)].base.extra, dirs[Task(p)].gold.extra})
    BY <1>1, <1>2 DEF CheckSources, Receipts
  <1>8. CheckMode(p) => receipt'[p].read_only = ~dirs[Task(p)].writable
    BY <1>1, <1>2 DEF CheckMode, Receipts
  <1>9. CheckUnchanged(p) => receipt'[p].unchanged = Unchanged(p)
    BY <1>1, <1>2 DEF CheckUnchanged, Receipts
  <1>10. DigestBase(p) => receipt'[p].base = dirs[Task(p)].base
    BY <1>1, <1>2 DEF DigestBase, Receipts
  <1>11. ASSUME RunVerifier(p)
         PROVE  \/ /\ pc[p] = "run base" /\ receipt'[p].gold_runs = receipt[p].gold_runs
                   /\ \E answer \in Answers(dirs[Task(p)].verifier,
                                            dirs[Task(p)].base.module, Task(p)) :
                         receipt'[p].base_runs = Append(receipt[p].base_runs, answer)
                \/ /\ pc[p] = "run gold" /\ receipt'[p].base_runs = receipt[p].base_runs
                   /\ \E answer \in Answers(dirs[Task(p)].verifier,
                                            dirs[Task(p)].gold.module, Task(p)) :
                         receipt'[p].gold_runs = Append(receipt[p].gold_runs, answer)
    <2>1. CASE pc[p] = "run base"
      BY <1>5, <1>6, <1>11, <2>1
    <2>2. CASE pc[p] = "run gold"
      BY <1>5, <1>6, <1>11, <2>2
    <2> QED
      BY <1>6, <1>11, <2>1, <2>2
  <1> QED
    BY <1>3, <1>4, <1>7, <1>8, <1>9, <1>10, <1>11

LEMMA ReceiptKept ==
  ASSUME LocalInv, NEW p \in Procs, Step(p), pc[p] # "stage"
  PROVE  /\ pc[p] # "hash" => receipt'[p].verifier = receipt[p].verifier
         /\ pc[p] # "run base" => receipt'[p].base_runs = receipt[p].base_runs
         /\ pc[p] # "run gold" => receipt'[p].gold_runs = receipt[p].gold_runs
         /\ pc[p] # "sources" => receipt'[p].source_only = receipt[p].source_only
         /\ pc[p] # "mode" => receipt'[p].read_only = receipt[p].read_only
         /\ pc[p] # "unchanged" => receipt'[p].unchanged = receipt[p].unchanged
         /\ pc[p] # "digest base" => receipt'[p].base = receipt[p].base
  <1> USE DEF building, replaying, environment
  <1>1. receipt \in [Procs -> Receipts] /\ receipt[p] \in Receipts
    BY DEF LocalInv
  <1>2. ASSUME NEW r, Records(p, r) PROVE receipt'[p] = r
    BY <1>1, <1>2 DEF Records
  <1> HIDE DEF Workspaces, Verifiers, Runs
  <1>3. CASE receipt' = receipt
    BY <1>3
  <1>4. CASE HashVerifier(p)
    BY <1>1, <1>2, <1>4 DEF HashVerifier, Receipts
  <1>5. CASE RunVerifier(p)
    <2>1. PICK answer :
             \/ /\ pc[p] = "run base"
                /\ Records(p, [receipt[p] EXCEPT !.base_runs = Append(@, answer)])
             \/ /\ pc[p] = "run gold"
                /\ Records(p, [receipt[p] EXCEPT !.gold_runs = Append(@, answer)])
      BY <1>5 DEF RunVerifier, RunOn
    <2> QED
      BY <1>1, <1>2, <2>1 DEF Receipts
  <1>6. CASE CheckSources(p)
    BY <1>1, <1>2, <1>6 DEF CheckSources, Receipts
  <1>7. CASE CheckMode(p)
    BY <1>1, <1>2, <1>7 DEF CheckMode, Receipts
  <1>8. CASE CheckUnchanged(p)
    BY <1>1, <1>2, <1>8 DEF CheckUnchanged, Receipts
  <1>9. CASE DigestBase(p)
    BY <1>1, <1>2, <1>9 DEF DigestBase, Receipts
  <1>10. CASE Start(p) \/ MakeRepository(p) \/ GitInit(p) \/ TruncateModule(p) \/ FillModule(p)
              \/ GitAdd(p) \/ GitCommit(p) \/ RevParseBase(p) \/ RevParseGold(p)
    BY <1>3, <1>10 DEF Start, MakeRepository, GitInit, TruncateModule, FillModule, GitAdd,
       GitCommit, RevParseBase, RevParseGold
  <1>11. CASE CheckSource(p) \/ WriteSource(p) \/ Claim(p) \/ SnapshotBase(p) \/ SnapshotGold(p)
    BY <1>3, <1>11 DEF CheckSource, WriteSource, Claim, SnapshotBase, SnapshotGold
  <1>12. CASE DigestGold(p) \/ OpenReceipt(p) \/ WriteReceipt(p) \/ PrintReceipt(p) \/ Fail(p)
    BY <1>3, <1>12 DEF DigestGold, OpenReceipt, WriteReceipt, PrintReceipt, Fail
  <1>13. ~StageVerifier(p)
    BY DEF StageVerifier
  <1> QED
    BY <1>4, <1>5, <1>6, <1>7, <1>8, <1>9, <1>10, <1>11, <1>12, <1>13 DEF Step

\* Receipts are added one by one.
LEMMA ReceiptAdded ==
  ASSUME TypeInv, NEW p \in Procs, DigestGold(p)
  PROVE  LET r == [receipt[p] EXCEPT !.gold = dirs[Task(p)].gold]
         IN  /\ r \in Receipts /\ receipts'[p] = Append(receipts[p], r)
             /\ Len(receipts[p]) \in Nat /\ Len(receipts'[p]) = Task(p)
             /\ Task(p) = Len(receipts[p]) + 1 /\ Task(p) \in Tasks
             /\ DOMAIN receipts[p] \subseteq Tasks
             /\ DOMAIN receipts'[p] = DOMAIN receipts[p] \cup {Task(p)}
             /\ \A k \in DOMAIN receipts[p] : receipts'[p][k] = receipts[p][k]
             /\ receipts'[p][Task(p)] = r
  <1> DEFINE r == [receipt[p] EXCEPT !.gold = dirs[Task(p)].gold]
  <1>1. LocalInv /\ receipts \in [Procs -> Seq(Receipts)] /\ receipts[p] \in Seq(Receipts)
        /\ TaskInv(p) /\ dirs \in [Tasks -> Directories \cup {Missing}]
    BY DEF TypeInv, LocalInv, SharedInv
  <1>2. pc[p] = "digest gold" /\ receipts' = [receipts EXCEPT ![p] = Append(@, r)]
    BY DEF DigestGold
  <1>3. Len(receipts[p]) < NumTasks /\ dirs[Task(p)] # Missing
    BY <1>1, <1>2, StageSets DEF TaskInv
  <1>4. Task(p) \in Tasks /\ DOMAIN receipts[p] \subseteq Tasks
    BY <1>1, <1>3, TaskIsATask
  <1>5. dirs[Task(p)].gold \in Workspaces \cup {Missing}
    BY <1>1, <1>3, <1>4 DEF Directories
  <1>6. r \in Receipts
    BY <1>1, <1>5, ReceiptTyped
  <1> HIDE DEF Receipts, r
  <1>7. receipts'[p] = Append(receipts[p], r)
    BY <1>1, <1>2
  <1>8. /\ Len(receipts[p]) \in Nat /\ Len(receipts'[p]) = Task(p)
        /\ Task(p) = Len(receipts[p]) + 1
        /\ DOMAIN receipts'[p] = DOMAIN receipts[p] \cup {Task(p)}
        /\ \A k \in DOMAIN receipts[p] : receipts'[p][k] = receipts[p][k]
        /\ receipts'[p][Task(p)] = r
    BY <1>1, <1>6, <1>7, Appending DEF Task
  <1> QED
    BY <1>4, <1>6, <1>7, <1>8 DEF r

(***************************************************************************)
(* The loops of the builder and of the replay                              *)
(***************************************************************************)
LEMMA BuildOthers ==
  ASSUME NEW p \in Procs, BuildInv(p), Same(p), Grown
  PROVE  BuildInv(p)'
  BY DEF BuildInv, Same, Grown

LEMMA BuildOwn ==
  ASSUME TypeInv, NEW p \in Procs, Step(p)
  PROVE  BuildInv(p)'
  <1> USE DEF At, Left
  <1>1. /\ BuildInv(p) /\ LocalInv /\ SharedInv /\ Grown
        /\ step[p] \in 0 .. NumTasks /\ tasks[p] \in Seq([base : Made, gold : Made])
        /\ NumTasks \in Nat \ {0}
    BY TaskCount, SharedStep DEF TypeInv, LocalInv
  <1>2. /\ pc[p] \in {"idle", "empty", "init"} => step[p] = 0 /\ tasks[p] = <<>>
        /\ pc[p] \in Committing /\ step[p] = 0 => tasks[p] = <<>>
        /\ pc[p] \in Committing \cup {"gold"} /\ step[p] > 0 =>
              Len(tasks[p]) = step[p] - 1 /\ base[p] # <<>>
        /\ pc[p] = "base" => Len(tasks[p]) = step[p] /\ step[p] < NumTasks
        /\ pc[p] = "gold" => step[p] > 0
        /\ pc[p] \in {"check source", "create source", "write source", "claim"} \cup Replaying
              => Len(tasks[p]) = NumTasks
        /\ pc[p] \in {"write", "add"} => repo.module \in Modules
        /\ pc[p] = "commit" => repo.index \in Modules
        /\ pc[p] \in {"base", "gold"} => repo.head # <<>>
        /\ pc[p] \in {"write source", "claim"} \cup Replaying => source # Missing
    BY <1>1 DEF BuildInv
  <1> HIDE DEF Modules, Made
  <1>3. CASE pc'[p] = "ended"
    BY <1>3 DEF BuildInv, Committing, Replaying
  <1>4. CASE pc[p] \in Replaying /\ pc'[p] \in Replaying
    <2>1. tasks'[p] = tasks[p] /\ source' # Missing
      BY <1>1, <1>2, <1>4, Kept DEF Replaying, Grown
    <2> QED
      BY <1>2, <1>4, <2>1 DEF BuildInv, Committing, Replaying
  <1>5. CASE Start(p) \/ MakeRepository(p) \/ GitInit(p)
    <2>1. pc[p] \in {"idle", "empty", "init"} /\ pc'[p] \in {"empty", "init", "truncate", "ended"}
      BY <1>1, <1>5, Flow
    <2>2. step'[p] = step[p] /\ tasks'[p] = tasks[p]
      BY <2>1, Kept
    <2>3. step'[p] = 0 /\ tasks'[p] = <<>> /\ ~(step'[p] > 0)
      <3>1. step[p] = 0 /\ tasks[p] = <<>>
        BY <1>2, <2>1
      <3>2. step'[p] = 0 /\ tasks'[p] = <<>>
        BY <2>2, <3>1
      <3> QED
        BY <3>2
    <2> QED
      BY <2>1, <2>3 DEF BuildInv, Committing, Replaying
  <1>6. CASE TruncateModule(p)
    <2>1. pc[p] = "truncate" /\ pc'[p] = "write"
      BY <1>1, <1>6, Flow
    <2>2. step'[p] = step[p] /\ tasks'[p] = tasks[p] /\ base'[p] = base[p]
      BY <2>1, Kept
    <2>3. repo'.module \in Modules
      BY <1>1, <1>6 DEF TruncateModule, SharedInv, Repos, Modules
    <2> QED
      BY <1>2, <2>1, <2>2, <2>3 DEF BuildInv, Committing, Replaying
  <1>7. CASE FillModule(p)
    <2>1. pc[p] = "write" /\ pc'[p] = "add"
      BY <1>1, <1>7, Flow
    <2>2. step'[p] = step[p] /\ tasks'[p] = tasks[p] /\ base'[p] = base[p]
      BY <2>1, Kept
    <2>3. repo'.module \in Modules
      BY <1>1, <1>2, <2>1 DEF Grown
    <2> QED
      BY <1>2, <2>1, <2>2, <2>3 DEF BuildInv, Committing, Replaying
  <1>8. CASE GitAdd(p)
    <2>1. pc[p] = "add" /\ pc'[p] = "commit"
      BY <1>1, <1>8, Flow
    <2>2. step'[p] = step[p] /\ tasks'[p] = tasks[p] /\ base'[p] = base[p]
      BY <2>1, Kept
    <2>3. repo'.index \in Modules
      BY <1>1, <1>2, <1>8, <2>1 DEF GitAdd, SharedInv, Repos
    <2> QED
      BY <1>2, <2>1, <2>2, <2>3 DEF BuildInv, Committing, Replaying
  <1>9. CASE GitCommit(p)
    <2>1. /\ pc[p] = "commit"
          /\ step[p] = 0 => pc'[p] = "base"
          /\ step[p] # 0 => pc'[p] = "gold"
      BY <1>1, <1>9, Flow
    <2>2. step'[p] = step[p] /\ tasks'[p] = tasks[p] /\ base'[p] = base[p]
      BY <2>1, Kept
    <2>3. repo'.head # <<>>
      <3> DEFINE commit == [tree |-> repo.index, sequence |-> step[p]]
      <3>1. commit \in Commits
        BY <1>1, <1>2, <2>1 DEF Commits
      <3>2. repo \in Repos /\ repo.head \in Seq(Commits)
        BY <1>1 DEF SharedInv, Repos
      <3>3. repo' = [repo EXCEPT !.head = Append(repo.head, commit)]
        BY <1>9 DEF GitCommit
      <3> HIDE DEF commit, Commits
      <3>4. Append(repo.head, commit) \in Seq(Commits) /\ Append(repo.head, commit) # <<>>
        BY <3>1, <3>2, Appending
      <3> QED
        BY <3>2, <3>3, <3>4, RepoTyped
    <2>4. CASE step[p] = 0
      <3>1. tasks[p] = <<>> /\ pc'[p] = "base"
        BY <1>2, <2>1, <2>4 DEF Committing
      <3>2. Len(tasks'[p]) = step'[p] /\ step'[p] < NumTasks
        BY <1>1, <2>2, <2>4, <3>1
      <3> QED
        BY <2>3, <3>1, <3>2 DEF BuildInv, Committing, Replaying
    <2>5. CASE step[p] # 0
      <3>1. step[p] > 0 /\ Len(tasks[p]) = step[p] - 1 /\ base[p] # <<>>
        BY <1>1, <1>2, <2>1, <2>5 DEF Committing
      <3> QED
        BY <1>1, <2>1, <2>2, <2>3, <2>5, <3>1 DEF BuildInv, Committing, Replaying
    <2> QED
      BY <2>4, <2>5
  <1>10. CASE RevParseBase(p)
    <2>1. pc[p] = "base" /\ pc'[p] = "truncate"
      BY <1>1, <1>10, Flow
    <2>2. step'[p] = step[p] + 1 /\ base'[p] = repo.head /\ tasks'[p] = tasks[p]
      BY <1>1, <1>10 DEF RevParseBase, LocalInv
    <2>3. /\ step[p] \in Nat /\ step[p] + 1 > 0 /\ step[p] + 1 # 0
          /\ step[p] + 1 - 1 = step[p]
      BY <1>1
    <2> QED
      BY <1>2, <2>1, <2>2, <2>3 DEF BuildInv, Committing, Replaying
  <1>11. CASE RevParseGold(p) /\ pc'[p] # "ended"
    <2>1. pc[p] = "gold" /\ pc'[p] = IF LastFix(p) THEN "check source" ELSE "base"
      BY <1>1, <1>11, Flow
    <2>2. step'[p] = step[p] /\ base'[p] = base[p] /\ repo' = repo
      BY <1>11 DEF RevParseGold
    <2>3. Len(tasks'[p]) = Len(tasks[p]) + 1
      <3> DEFINE task == [base |-> base[p], gold |-> repo.head]
      <3>1. tasks' = [tasks EXCEPT ![p] = Append(@, task)]
        BY <1>1, <1>11 DEF RevParseGold, Exit, LocalInv
      <3>2. repo.head \in Made /\ base[p] \in Made
        BY <1>1, <1>2, <2>1 DEF LocalInv, SharedInv, Repos, Made
      <3>3. task \in [base : Made, gold : Made]
        BY <3>2
      <3> HIDE DEF task
      <3>4. tasks'[p] = Append(tasks[p], task)
        BY <1>1, <3>1 DEF LocalInv
      <3> QED
        BY <1>1, <3>3, <3>4, Appending
    <2>4. Len(tasks'[p]) = step[p]
      <3>1. Len(tasks[p]) = step[p] - 1
        BY <1>2, <2>1
      <3> QED
        BY <1>1, <2>3, <3>1
    <2>5. CASE step[p] = NumTasks
      BY <2>1, <2>2, <2>4, <2>5 DEF LastFix, BuildInv, Committing, Replaying
    <2>6. CASE step[p] # NumTasks
      <3>1. step[p] < NumTasks /\ pc'[p] = "base" /\ repo'.head # <<>>
        BY <1>1, <1>2, <2>1, <2>2, <2>6 DEF LastFix
      <3> QED
        BY <2>2, <2>4, <3>1 DEF BuildInv, Committing, Replaying
    <2> QED
      BY <2>5, <2>6
  <1>12. CASE CheckSource(p) \/ WriteSource(p) \/ Claim(p)
    <2>1. /\ pc[p] \in {"check source", "create source", "write source", "claim"}
          /\ pc'[p] \in {"create source", "write source", "claim", "stage", "ended"}
          /\ pc[p] = "claim" => pc'[p] \in {"stage", "ended"}
          /\ pc[p] \in {"create source", "write source"} => WriteSource(p)
          /\ pc[p] = "check source" => pc'[p] \in {"create source", "ended"}
      BY <1>1, <1>12, Flow
    <2>2. tasks'[p] = tasks[p]
      BY <2>1, Kept
    <2>3. pc[p] \in {"create source", "write source"} => source' # Missing
      <3>1. WriteSource(p) => source' \in {Torn, "good"}
        BY DEF WriteSource
      <3> QED
        BY <2>1, <3>1, MissingIsNoValue DEF Verifiers
    <2>4. pc'[p] \in {"write source", "claim", "stage"} => source' # Missing
      BY <1>1, <1>2, <2>1, <2>3 DEF Grown
    <2> QED
      BY <1>2, <2>1, <2>2, <2>4 DEF BuildInv, Committing, Replaying
  <1>13. CASE StageVerifier(p) \/ SnapshotBase(p) \/ SnapshotGold(p) \/ HashVerifier(p)
              \/ CheckSources(p) \/ CheckMode(p) \/ CheckUnchanged(p) \/ DigestBase(p)
    BY <1>1, <1>3, <1>4, <1>13, Flow DEF Replaying
  <1>14. CASE RunVerifier(p)
    BY <1>1, <1>3, <1>4, <1>14, Flow DEF Replaying
  <1>15. CASE DigestGold(p) \/ OpenReceipt(p) \/ WriteReceipt(p)
    BY <1>1, <1>3, <1>4, <1>15, Flow DEF Replaying
  <1>16. CASE PrintReceipt(p) \/ Fail(p)
    BY <1>1, <1>3, <1>16, Flow
  <1> QED
    BY <1>3, <1>5, <1>6, <1>7, <1>8, <1>9, <1>10, <1>11, <1>12, <1>13, <1>14, <1>15, <1>16
       DEF Step

LEMMA TaskOthers ==
  ASSUME TypeInv, NEW p \in Procs, Same(p), Grown
  PROVE  TaskInv(p)'
  <1>1. TaskInv(p) /\ Task(p)' = Task(p)
    BY DEF TypeInv, Same, Task
  <1>2. pc[p] \in Placed => dirs'[Task(p)] # Missing
    <2> HAVE pc[p] \in Placed
    <2>1. Task(p) \in Tasks /\ dirs[Task(p)] # Missing
      BY <1>1, TaskIsATask, StageSets DEF TaskInv, TypeInv
    <2> QED
      BY <2>1 DEF Grown
  <1> QED
    BY <1>1, <1>2 DEF TaskInv, Same, Task

LEMMA TaskOwn ==
  ASSUME TypeInv, NEW p \in Procs, Step(p)
  PROVE  TaskInv(p)'
  <1> USE DEF At, Left
  <1>1. /\ TaskInv(p) /\ LocalInv /\ SharedInv /\ Grown /\ BuildInv(p)
        /\ receipts[p] \in Seq(Receipts) /\ receipt[p] \in Receipts
        /\ NumTasks \in Nat \ {0}
    BY TaskCount, SharedStep DEF TypeInv, LocalInv
  <1>2. /\ pc[p] \in Building \cup {"idle"} => receipts[p] = <<>>
        /\ pc[p] # "ended" => code[p] = Missing
        /\ pc[p] \in InTask => Len(receipts[p]) < NumTasks
        /\ pc[p] \in Placed => dirs[Task(p)] # Missing
        /\ pc[p] \in Placed \ (Hashed \cup Answered) =>
              receipt[p].base_runs = <<>> /\ receipt[p].gold_runs = <<>>
        /\ pc[p] = "run base" =>
              Len(receipt[p].base_runs) < Repetitions /\ receipt[p].gold_runs = <<>>
        /\ pc[p] \in {"run gold"} \cup Answered => Len(receipt[p].base_runs) = Repetitions
        /\ pc[p] = "run gold" => Len(receipt[p].gold_runs) < Repetitions
        /\ pc[p] \in Answered => Len(receipt[p].gold_runs) = Repetitions
        /\ \A k \in DOMAIN receipts[p] : Len(receipts[p][k].gold_runs) = Repetitions
    BY <1>1 DEF TaskInv
  <1>3. pc[p] # "ended"
    BY <1>1, Flow DEF Step, Building, Replaying
  <1>4. pc'[p] # "ended" => code'[p] = Missing
    BY <1>1, <1>2, <1>3, Flow DEF Step
  <1> HIDE DEF Repetitions
  <1>5. CASE pc'[p] \in Building \cup {"ended"}
    <2>1. receipts'[p] = receipts[p]
      <3>1. pc[p] # "digest gold" \/ Fail(p)
        BY <1>1, <1>5, Flow DEF Step, Building
      <3> QED
        BY <3>1, Kept DEF Fail, replaying
    <2>2. pc'[p] \in Building => pc[p] \in Building \cup {"idle"}
      BY <1>1, Flow DEF Step, Building
    <2> QED
      BY <1>2, <1>4, <1>5, <2>1, <2>2, StageSets DEF TaskInv, Building
  <1>6. CASE Claim(p) /\ pc'[p] = "stage"
    <2>1. pc[p] = "claim"
      BY <1>1, <1>6, Flow
    <2>2. receipts'[p] = <<>> /\ receipts[p] = <<>>
      BY <1>2, <2>1, Kept DEF Building
    <2>3. Len(receipts'[p]) < NumTasks
      BY <1>1, <2>2
    <2> QED
      BY <1>2, <1>4, <1>6, <2>2, <2>3, StageSets DEF TaskInv, Building
  <1>7. ASSUME pc[p] \in InTask, pc'[p] \in Placed, receipts'[p] = receipts[p],
               dirs[Task(p)] # Missing \/ dirs'[Task(p)] # Missing
        PROVE  /\ Len(receipts'[p]) < NumTasks /\ dirs'[Task(p)] # Missing
               /\ Task(p)' = Task(p) /\ pc'[p] \notin Building \cup {"idle"}
               /\ \A k \in DOMAIN receipts'[p] :
                     Len(receipts'[p][k].gold_runs) = Repetitions
    <2>1. Task(p) \in Tasks /\ Task(p)' = Task(p)
      BY <1>1, <1>2, <1>7, TaskIsATask DEF Task
    <2> QED
      BY <1>1, <1>2, <1>7, <2>1, StageSets DEF Grown, Building
  <1>8. CASE StageVerifier(p) /\ pc'[p] # "ended"
    <2>1. pc[p] = "stage" /\ pc'[p] = "snapshot base" /\ receipts'[p] = receipts[p]
      BY <1>1, <1>8, Flow, Kept
    <2>2. receipt'[p].base_runs = <<>> /\ receipt'[p].gold_runs = <<>>
      <3>1. receipt'[p] = NoReceipt
        BY <1>1, <1>8, ReceiptSet
      <3> QED
        BY <3>1 DEF NoReceipt
    <2>3. dirs'[Task(p)] # Missing
      <3> DEFINE d == [verifier |-> source, writable |-> FALSE,
                       base |-> Missing, gold |-> Missing]
      <3>1. dirs' = [dirs EXCEPT ![Task(p)] = d]
        BY <1>1, <1>8 DEF StageVerifier, Exit, LocalInv
      <3>2. source \in Verifiers
        BY <1>1, <2>1 DEF SharedInv, BuildInv, Replaying, Verifiers
      <3>3. d # Missing
        <4>1. d \in Directories
          BY <3>2 DEF Directories
        <4> HIDE DEF d
        <4> QED
          BY <4>1, MissingIsNoValue
      <3>4. Task(p) \in Tasks /\ dirs \in [Tasks -> Directories \cup {Missing}]
        BY <1>1, <1>2, <2>1, TaskIsATask, StageSets DEF SharedInv
      <3> HIDE DEF d
      <3> QED
        BY <3>1, <3>3, <3>4
    <2>4. Task(p)' = Task(p)
      BY <2>1 DEF Task
    <2> QED
      BY <1>4, <1>7, <2>1, <2>2, <2>3, <2>4, StageSets DEF TaskInv
  <1>9. CASE SnapshotBase(p) \/ SnapshotGold(p) \/ HashVerifier(p)
    <2>1. pc[p] \in {"snapshot base", "snapshot gold", "hash"}
          /\ pc'[p] \in {"snapshot gold", "hash", "run base"} /\ receipts'[p] = receipts[p]
      BY <1>1, <1>9, Flow, Kept
    <2>2. receipt'[p].base_runs = receipt[p].base_runs
          /\ receipt'[p].gold_runs = receipt[p].gold_runs
      BY <1>1, <2>1, ReceiptKept
    <2>3. receipt'[p].base_runs = <<>> /\ receipt'[p].gold_runs = <<>>
      BY <1>2, <2>1, <2>2, StageSets
    <2>4. Len(receipt'[p].base_runs) < Repetitions
      BY <2>3 DEF Repetitions
    <2> QED
      BY <1>2, <1>4, <1>7, <2>1, <2>3, <2>4, StageSets DEF TaskInv
  <1>10. CASE RunVerifier(p)
    <2>1. pc[p] \in {"run base", "run gold"} /\ pc'[p] \in {"run base", "run gold", "sources"}
          /\ receipts'[p] = receipts[p]
      BY <1>1, <1>10, Flow, Kept
    <2>2. receipt[p].base_runs \in Runs /\ receipt[p].gold_runs \in Runs
      BY <1>1 DEF Receipts
    <2>3. \A s \in Runs : \A answer \in {"pass", "fail", "exception"} :
             Len(s) < Repetitions /\ Len(Append(s, answer)) # Repetitions =>
                Len(Append(s, answer)) < Repetitions
      BY Appending DEF Runs, Repetitions
    <2>4. CASE pc[p] = "run base"
      <3>0. \E answer \in Answers(dirs[Task(p)].verifier, dirs[Task(p)].base.module, Task(p)) :
               receipt'[p].base_runs = Append(receipt[p].base_runs, answer)
        BY <1>1, <1>10, <2>4, ReceiptSet
      <3>1. PICK answer \in {"pass", "fail", "exception"} :
               receipt'[p].base_runs = Append(receipt[p].base_runs, answer)
        BY <3>0, AnswerIsOne
      <3>2. Len(receipt'[p].base_runs) # Repetitions =>
               Len(receipt'[p].base_runs) < Repetitions
        BY <1>2, <2>2, <2>3, <2>4, <3>1
      <3>3. receipt'[p].gold_runs = <<>> /\ Len(<<>>) < Repetitions
        <4>1. Len(<<>>) < Repetitions
          BY DEF Repetitions
        <4>2. receipt'[p].gold_runs = receipt[p].gold_runs
          BY <1>1, <2>4, ReceiptKept
        <4> QED
          BY <1>2, <2>4, <4>1, <4>2
      <3>4. /\ Len(receipt'[p].base_runs) = Repetitions => pc'[p] = "run gold"
            /\ Len(receipt'[p].base_runs) # Repetitions => pc'[p] = "run base"
        BY <1>1, <1>10, <2>4, Flow
      <3> QED
        BY <1>2, <1>4, <1>7, <2>1, <3>2, <3>3, <3>4, StageSets DEF TaskInv
    <2>5. CASE pc[p] = "run gold"
      <3>0. \E answer \in Answers(dirs[Task(p)].verifier, dirs[Task(p)].gold.module, Task(p)) :
               receipt'[p].gold_runs = Append(receipt[p].gold_runs, answer)
        BY <1>1, <1>10, <2>5, ReceiptSet
      <3>1. PICK answer \in {"pass", "fail", "exception"} :
               receipt'[p].gold_runs = Append(receipt[p].gold_runs, answer)
        BY <3>0, AnswerIsOne
      <3>2. Len(receipt'[p].gold_runs) # Repetitions =>
               Len(receipt'[p].gold_runs) < Repetitions
        BY <1>2, <2>2, <2>3, <2>5, <3>1
      <3>3. Len(receipt'[p].base_runs) = Repetitions
        BY <1>1, <1>2, <2>5, ReceiptKept
      <3>4. /\ Len(receipt'[p].gold_runs) = Repetitions => pc'[p] = "sources"
            /\ Len(receipt'[p].gold_runs) # Repetitions => pc'[p] = "run gold"
        BY <1>1, <1>10, <2>5, Flow
      <3> QED
        BY <1>2, <1>4, <1>7, <2>1, <3>2, <3>3, <3>4, StageSets DEF TaskInv
    <2> QED
      BY <2>1, <2>4, <2>5
  <1>11. CASE CheckSources(p) \/ CheckMode(p) \/ CheckUnchanged(p) \/ DigestBase(p)
    <2>1. pc[p] \in {"sources", "mode", "unchanged", "digest base"}
          /\ pc'[p] \in {"mode", "unchanged", "digest base", "digest gold"}
          /\ receipts'[p] = receipts[p]
      BY <1>1, <1>11, Flow, Kept
    <2>2. receipt'[p].base_runs = receipt[p].base_runs
          /\ receipt'[p].gold_runs = receipt[p].gold_runs
      BY <1>1, <2>1, ReceiptKept
    <2> QED
      BY <1>2, <1>4, <1>7, <2>1, <2>2, StageSets DEF TaskInv
  <1>12. CASE DigestGold(p)
    <2>1. /\ pc[p] = "digest gold"
          /\ Task(p) = NumTasks => pc'[p] = "open receipt"
          /\ Task(p) # NumTasks => pc'[p] = "stage"
      BY <1>1, <1>12, Flow
    <2>2. /\ Len(receipts'[p]) = Task(p) /\ Task(p) \in Tasks
          /\ DOMAIN receipts'[p] = DOMAIN receipts[p] \cup {Task(p)}
          /\ \A k \in DOMAIN receipts[p] : receipts'[p][k] = receipts[p][k]
          /\ receipts'[p][Task(p)] = [receipt[p] EXCEPT !.gold = dirs[Task(p)].gold]
      BY <1>12, ReceiptAdded
    <2>3. receipts'[p][Task(p)].gold_runs = receipt[p].gold_runs
      BY <1>1, <2>2 DEF Receipts
    <2>4. Len(receipt[p].gold_runs) = Repetitions
      BY <1>2, <2>1, StageSets
    <2>5. \A k \in DOMAIN receipts'[p] : Len(receipts'[p][k].gold_runs) = Repetitions
      BY <1>2, <2>2, <2>3, <2>4
    <2>6. Task(p) # NumTasks => Task(p) < NumTasks
      BY <1>1, <2>2 DEF Tasks
    <2> QED
      BY <1>4, <2>1, <2>2, <2>5, <2>6, StageSets DEF TaskInv, Building
  <1>13. CASE OpenReceipt(p) \/ WriteReceipt(p)
    <2>1. pc'[p] \in {"write receipt", "print"} /\ receipts'[p] = receipts[p]
      BY <1>1, <1>13, Flow, Kept
    <2> QED
      BY <1>2, <1>4, <2>1, StageSets DEF TaskInv, Building
  <1>14. ~Claim(p) /\ ~StageVerifier(p) /\ ~SnapshotBase(p) /\ ~SnapshotGold(p)
         /\ ~HashVerifier(p) /\ ~RunVerifier(p) /\ ~CheckSources(p) /\ ~CheckMode(p)
         /\ ~CheckUnchanged(p) /\ ~DigestBase(p) /\ ~DigestGold(p) /\ ~OpenReceipt(p)
         /\ ~WriteReceipt(p) => pc'[p] \in Building \cup {"ended"}
    BY <1>1, Flow DEF Step, Building
  <1>15. (Claim(p) => pc'[p] \in {"stage", "ended"})
    BY <1>1, Flow
  <1> QED
    BY <1>5, <1>6, <1>8, <1>9, <1>10, <1>11, <1>12, <1>13, <1>14, <1>15

LEMMA TypeStep ==
  ASSUME TypeInv, NEW p \in Procs, Step(p)
  PROVE  TypeInv'
  <1>1. SharedInv' /\ Grown
    BY SharedStep
  <1>2. LocalInv' /\ \A q \in Procs \ {p} : Same(q)
    BY LocalStep
  <1>3. BuildInv(p)' /\ TaskInv(p)'
    BY BuildOwn, TaskOwn
  <1>4. ASSUME NEW q \in Procs \ {p} PROVE BuildInv(q)' /\ TaskInv(q)'
    BY <1>1, <1>2, BuildOthers, TaskOthers DEF TypeInv
  <1> QED
    BY <1>1, <1>2, <1>3, <1>4 DEF TypeInv

LEMMA EditSame ==
  ASSUME NEW p \in Procs, Untouched
  PROVE  Same(p)
  BY DEF Untouched, Same, building

LEMMA TypeEdit ==
  ASSUME TypeInv, NEW k \in Tasks, Edit(k)
  PROVE  TypeInv'
  <1>1. SharedInv' /\ Grown /\ Untouched
    BY EditStep
  <1>2. LocalInv'
    BY <1>1 DEF TypeInv, LocalInv, Untouched, building
  <1>3. ASSUME NEW q \in Procs PROVE BuildInv(q)' /\ TaskInv(q)'
    BY <1>1, EditSame, BuildOthers, TaskOthers DEF TypeInv
  <1> QED
    BY <1>1, <1>2, <1>3 DEF TypeInv

(***************************************************************************)
(* The process that claimed the directory                                  *)
(***************************************************************************)
LEMMA EndedStays == ASSUME LocalInv, NEW p \in Procs, Step(p) PROVE pc[p] # "ended"
  BY Flow DEF Step, Building, Replaying

LEMMA CodeGiven ==
  ASSUME LocalInv, NEW p \in Procs, Step(p)
  PROVE  \/ code'[p] = code[p] \/ code'[p] = 1
         \/ PrintReceipt(p) /\ code'[p] = 0
         \/ Start(p) /\ code'[p] = 2
  <1> USE DEF At, Left
  <1>0. CASE Start(p) \/ PrintReceipt(p)
    BY <1>0, Flow
  <1>1. CASE MakeRepository(p) \/ GitInit(p) \/ TruncateModule(p) \/ FillModule(p)
             \/ GitAdd(p) \/ GitCommit(p) \/ RevParseBase(p) \/ RevParseGold(p)
    BY <1>1, Flow
  <1>2. CASE CheckSource(p) \/ WriteSource(p) \/ Claim(p) \/ StageVerifier(p)
             \/ SnapshotBase(p) \/ SnapshotGold(p) \/ HashVerifier(p)
    BY <1>2, Flow
  <1>3. CASE RunVerifier(p)
    BY <1>3, Flow
  <1>4. CASE CheckSources(p) \/ CheckMode(p) \/ CheckUnchanged(p) \/ DigestBase(p)
             \/ DigestGold(p) \/ OpenReceipt(p) \/ WriteReceipt(p) \/ Fail(p)
    BY <1>4, Flow
  <1> QED
    BY <1>0, <1>1, <1>2, <1>3, <1>4 DEF Step

LEMMA OwnerOwn ==
  ASSUME TypeInv, NEW p \in Procs, Step(p), Owner(p)'
  PROVE  Owner(p) \/ (Claim(p) /\ claimed = FALSE /\ claimed' = TRUE)
  <1> USE DEF At, Left
  <1>1. LocalInv /\ claimed \in BOOLEAN
    BY DEF TypeInv, SharedInv
  <1>2. CASE pc'[p] \in Replaying
    <2>1. pc[p] \in Replaying \/ Claim(p)
      BY <1>1, <1>2, Flow DEF Step, Replaying
    <2>2. Claim(p) => claimed = FALSE /\ claimed' = TRUE
      <3> HAVE Claim(p)
      <3>1. pc'[p] # "ended"
        BY <1>2 DEF Replaying
      <3> QED
        BY <1>1, <3>1 DEF Claim, Exit, MayClaim, LocalInv
    <2> QED
      BY <2>1, <2>2 DEF Owner
  <1>3. CASE receipts'[p] # <<>>
    <2>1. receipts'[p] = receipts[p] \/ pc[p] = "digest gold"
      BY Kept
    <2> QED
      BY <1>3, <2>1 DEF Owner, Replaying
  <1>4. CASE code'[p] = 0
    <2>1. code[p] = 0 \/ PrintReceipt(p)
      BY <1>1, <1>4, CodeGiven
    <2> QED
      BY <1>1, <2>1, Flow DEF Owner, Replaying
  <1> QED
    BY <1>2, <1>3, <1>4 DEF Owner

Owners == \A p \in Procs : OwnerInv(p)

LEMMA OwnerStep ==
  ASSUME TypeInv, Owners, NEW p \in Procs, Step(p)
  PROVE  Owners'
  <1>1. \A q \in Procs \ {p} : Owner(q)' = Owner(q)
    BY LocalStep DEF Same, Owner
  <1>2. claimed = TRUE => claimed' = TRUE
    BY SharedStep DEF Grown
  <1>3. CASE Claim(p) /\ claimed = FALSE /\ claimed' = TRUE
    <2>1. \A q \in Procs : ~Owner(q)
      BY <1>3 DEF Owners, OwnerInv
    <2>2. \A q \in Procs : Owner(q)' => q = p
      BY <1>1, <2>1
    <2> QED
      BY <1>3, <2>2 DEF Owners, OwnerInv
  <1>4. CASE ~(Claim(p) /\ claimed = FALSE /\ claimed' = TRUE)
    <2>1. \A q \in Procs : Owner(q)' => Owner(q)
      BY <1>1, <1>4, OwnerOwn
    <2> QED
      BY <1>2, <2>1 DEF Owners, OwnerInv
  <1> QED
    BY <1>3, <1>4

LEMMA OwnerEdit ==
  ASSUME Owners, Untouched
  PROVE  Owners'
  <1>1. \A q \in Procs : Owner(q)' = Owner(q)
    BY DEF Untouched, Owner
  <1>2. claimed' = claimed
    BY DEF Untouched
  <1> QED
    BY <1>1, <1>2 DEF Owners, OwnerInv

\* Whoever replays is the only one to do so, or to have done so.
LEMMA OwnerAlone ==
  ASSUME Owners, NEW p \in Procs, NEW q \in Procs, Owner(p), Owner(q)
  PROVE  p = q
  BY DEF Owners, OwnerInv

(***************************************************************************)
(* The receipt file                                                        *)
(***************************************************************************)
LEMMA ZeroStep ==
  ASSUME TypeInv, Owners, NEW p \in Procs, Step(p), NEW q \in Procs, ZeroInv(q)
  PROVE  ZeroInv(q)'
  <1> USE DEF At, Left
  <1>1. LocalInv
    BY DEF TypeInv
  <1> HIDE DEF GatePassed
  <1>2. CASE q # p
    <2>1. Same(q)
      BY <1>2, LocalStep
    <2>2. CASE out' = out
      BY <2>1, <2>2 DEF ZeroInv, Same
    <2>3. CASE pc[p] \in {"open receipt", "write receipt"}
      <3>1. ~Owner(q)
        BY <1>2, <2>3, OwnerAlone DEF Owner, Replaying
      <3>2. pc[q] # "print" /\ code[q] # 0
        BY <3>1 DEF Owner, Replaying
      <3> QED
        BY <2>1, <3>2 DEF ZeroInv, Same
    <2> QED
      BY <2>2, <2>3, Kept
  <1>3. CASE q = p
    <2>1. code[p] # 0
      <3>1. pc[p] # "ended" /\ TaskInv(p)
        BY <1>1, EndedStays DEF TypeInv
      <3>2. code[p] = Missing
        BY <3>1 DEF TaskInv
      <3>3. 0 \in 0 .. 2
        OBVIOUS
      <3> QED
        BY <3>2, <3>3, MissingIsNoValue
    <2>2. CASE WriteReceipt(p)
      <3>1. out' = [by |-> p, receipts |-> receipts[p]] /\ receipts' = receipts
        BY <2>2 DEF WriteReceipt, replaying
      <3>2. code'[p] # 0
        BY <1>1, <2>1, <2>2, Flow
      <3> QED
        BY <1>3, <3>1, <3>2 DEF ZeroInv
    <2>3. CASE PrintReceipt(p)
      <3>1. pc[p] = "print" /\ pc'[p] = "ended"
        BY <1>1, <2>3, Flow
      <3>2. out' = out /\ receipts' = receipts
        BY <2>3 DEF PrintReceipt, replaying
      <3>3. code'[p] = 0 => /\ Len(receipts[p]) = NumTasks
                            /\ \A k \in DOMAIN receipts[p] : GatePassed(receipts[p][k])
        BY <1>1, <2>3 DEF PrintReceipt, Exit, LocalInv
      <3> QED
        BY <1>3, <3>1, <3>2, <3>3 DEF ZeroInv
    <2>4. CASE ~WriteReceipt(p) /\ ~PrintReceipt(p)
      <3>1. pc'[p] # "print"
        BY <1>1, <2>4, Flow DEF Step
      <3>2. code'[p] # 0
        BY <1>1, <2>1, <2>4, CodeGiven
      <3> QED
        BY <1>3, <3>1, <3>2 DEF ZeroInv
    <2> QED
      BY <2>2, <2>3, <2>4
  <1> QED
    BY <1>2, <1>3

LEMMA ZeroEdit ==
  ASSUME Untouched, NEW q \in Procs, ZeroInv(q)
  PROVE  ZeroInv(q)'
  <1> HIDE DEF GatePassed
  <1> QED
    BY DEF Untouched, ZeroInv

(***************************************************************************)
(* The staged verifier                                                     *)
(***************************************************************************)
\* The directory of the task at hand is nobody else's.
LEMMA DirsOfOthers ==
  ASSUME TypeInv, Owners, NEW p \in Procs, Step(p), NEW q \in Procs \ {p},
         pc[q] \in InTask
  PROVE  dirs' = dirs
  <1>1. pc[p] \notin Replaying
    BY OwnerAlone DEF Owner, InTask
  <1> QED
    BY <1>1, Kept DEF Replaying

\* What VerifierInv says of a process, its task and that task's directory.
VerifierOthers(p) == /\ Same(p) /\ UNCHANGED edits
                     /\ pc[p] \in InTask => dirs' = dirs

LEMMA VerifierKept ==
  ASSUME TypeInv, NEW p \in Procs, VerifierInv(p), VerifierOthers(p)
  PROVE  VerifierInv(p)'
  <1>1. Task(p)' = Task(p)
    BY DEF VerifierOthers, Same, Task
  <1>2. pc[p] \in Hashed => dirs' = dirs
    BY StageSets DEF VerifierOthers
  <1> QED
    BY ZenonT(40), <1>1, <1>2 DEF VerifierInv, VerifierOthers, Same, Task

LEMMA VerifierEdit ==
  ASSUME TypeInv, NEW k \in Tasks, Edit(k), NEW p \in Procs, VerifierInv(p)
  PROVE  VerifierInv(p)'
  <1>1. /\ Same(p) /\ UNCHANGED <<pc, receipt, receipts, used>>
        /\ edits' = [edits EXCEPT ![k] = @ + 1]
        /\ \A l \in Tasks : l # k => dirs'[l] = dirs[l]
    BY EditStep, EditSame DEF Untouched
  <1>2. Task(p)' = Task(p)
    BY <1>1 DEF Task
  <1>3. edits \in [Tasks -> Nat] /\ receipts[p] \in Seq(Receipts) /\ LocalInv
    BY DEF TypeInv, SharedInv, LocalInv
  <1>4. \A l \in Tasks : /\ edits'[l] <= 1 => edits[l] <= 1
                         /\ l = k /\ edits'[l] <= 1 => edits[l] = 0 /\ edits'[l] = 1
    BY <1>1, <1>3
  <1>5. \A l \in DOMAIN receipts[p] : edits'[l] <= 1 => edits[l] <= 1
    BY <1>1, <1>3
  <1>6. pc[p] \in Hashed => Task(p) \in Tasks
    BY <1>3, TaskIsATask, StageSets DEF TypeInv, TaskInv
  <1>7. ASSUME pc[p] \in Hashed \ {"digest base", "digest gold"}, edits'[Task(p)] <= 1
        PROVE  \/ /\ dirs'[Task(p)].verifier = receipt[p].verifier
                  /\ used[p][Task(p)] \subseteq {receipt[p].verifier}
               \/ dirs'[Task(p)].verifier # receipt[p].verifier /\ edits'[Task(p)] = 1
    <2>1. Task(p) \in Tasks
      BY <1>6, <1>7
    <2>2. edits[Task(p)] <= 1
      BY <1>4, <1>7, <2>1
    <2>3. \/ /\ dirs[Task(p)].verifier = receipt[p].verifier
             /\ used[p][Task(p)] \subseteq {receipt[p].verifier}
          \/ dirs[Task(p)].verifier # receipt[p].verifier /\ edits[Task(p)] = 1
      BY <1>7, <2>2 DEF VerifierInv
    <2>4. CASE Task(p) = k
      <3>1. edits[Task(p)] = 0 /\ edits'[Task(p)] = 1
        BY <1>4, <1>7, <2>1, <2>4
      <3>2. used[p][Task(p)] \subseteq {receipt[p].verifier}
        BY <2>3, <3>1
      <3> QED
        BY <3>1, <3>2
    <2>5. CASE Task(p) # k
      BY <1>1, <1>3, <2>1, <2>3, <2>5
    <2> QED
      BY <2>4, <2>5
  <1>8. pc[p] \in {"digest base", "digest gold"} /\ edits'[Task(p)] <= 1
           /\ receipt[p].unchanged =>
           used[p][Task(p)] \subseteq {receipt[p].verifier}
    BY <1>4, <1>6, StageSets DEF VerifierInv
  <1>9. \A l \in DOMAIN receipts[p] :
           edits'[l] <= 1 /\ receipts[p][l].unchanged =>
              used[p][l] = {receipts[p][l].verifier}
    BY <1>5 DEF VerifierInv
  <1> QED
    BY <1>1, <1>2, <1>7, <1>8, <1>9 DEF VerifierInv, Task

LEMMA VerifierOwn ==
  ASSUME TypeInv, NEW p \in Procs, Step(p), VerifierInv(p)
  PROVE  VerifierInv(p)'
  <1> USE DEF At, Left
  <1>1. /\ LocalInv /\ TaskInv(p) /\ edits' = edits /\ receipts[p] \in Seq(Receipts)
        /\ receipt[p] \in Receipts /\ used \in [Procs -> [Tasks -> SUBSET Verifiers]]
        /\ used[p] \in [Tasks -> SUBSET Verifiers]
    BY DirsStep DEF TypeInv, LocalInv, environment
  <1>2. /\ \A k \in Tasks : k > Task(p) => used[p][k] = {}
        /\ pc[p] \in (Building \cup Replaying \cup {"idle"}) \ Hashed =>
              \A k \in Tasks : k = Task(p) => used[p][k] = {}
        /\ pc[p] \in {"run gold"} \cup Answered => used[p][Task(p)] # {}
        /\ pc[p] \in Hashed \ {"digest base", "digest gold"} /\ edits[Task(p)] <= 1 =>
              \/ /\ dirs[Task(p)].verifier = receipt[p].verifier
                 /\ used[p][Task(p)] \subseteq {receipt[p].verifier}
              \/ dirs[Task(p)].verifier # receipt[p].verifier /\ edits[Task(p)] = 1
        /\ pc[p] \in {"digest base", "digest gold"} /\ edits[Task(p)] <= 1
              /\ receipt[p].unchanged =>
              used[p][Task(p)] \subseteq {receipt[p].verifier}
        /\ \A k \in DOMAIN receipts[p] :
              edits[k] <= 1 /\ receipts[p][k].unchanged =>
                 used[p][k] = {receipts[p][k].verifier}
    BY DEF VerifierInv
  <1>3. pc[p] \in InTask => Task(p) \in Tasks
    BY <1>1, TaskIsATask DEF TaskInv
  <1>4. pc[p] # "ended"
    BY <1>1, EndedStays
  <1>5. CASE pc'[p] \notin Hashed /\ pc[p] \notin Hashed
    <2>1. used'[p] = used[p] /\ receipts'[p] = receipts[p]
      BY <1>5, Kept, StageSets
    <2>2. Task(p)' = Task(p)
      BY <2>1 DEF Task
    <2>3. pc[p] \in (Building \cup Replaying \cup {"idle"}) \ Hashed
      BY <1>1, <1>4, <1>5 DEF LocalInv, Stages
    <2> QED
      BY <1>1, <1>2, <1>5, <2>1, <2>2, <2>3, StageSets DEF VerifierInv
  <1>6. CASE HashVerifier(p)
    <2>1. pc[p] = "hash" /\ pc'[p] = "run base" /\ receipts'[p] = receipts[p]
          /\ used'[p] = used[p] /\ dirs' = dirs
      BY <1>1, <1>6, Flow, Kept
    <2>2. receipt'[p].verifier = dirs[Task(p)].verifier
      BY <1>1, <1>6, ReceiptSet
    <2>3. Task(p) \in Tasks /\ Task(p)' = Task(p)
      BY <1>3, <2>1, StageSets DEF Task
    <2>4. used[p][Task(p)] = {}
      BY <1>2, <2>1, <2>3, StageSets DEF Replaying
    <2> QED
      BY <1>1, <1>2, <2>1, <2>2, <2>3, <2>4, StageSets DEF VerifierInv
  <1>7. CASE RunVerifier(p)
    <2>1. pc[p] \in {"run base", "run gold"} /\ pc'[p] \in {"run base", "run gold", "sources"}
          /\ receipts'[p] = receipts[p] /\ dirs' = dirs
      BY <1>1, <1>7, Flow, Kept
    <2>2. Task(p) \in Tasks /\ Task(p)' = Task(p)
      BY <1>3, <2>1, StageSets DEF Task
    <2>3. receipt'[p].verifier = receipt[p].verifier
      BY <1>1, <2>1, ReceiptKept
    <2>4. used' = [used EXCEPT ![p][Task(p)] = @ \cup {dirs[Task(p)].verifier}]
      BY <1>7 DEF RunVerifier, RunOn
    <2>5. /\ used'[p][Task(p)] = used[p][Task(p)] \cup {dirs[Task(p)].verifier}
          /\ \A k \in Tasks : k # Task(p) => used'[p][k] = used[p][k]
      BY <1>1, <2>2, <2>4
    <2>6. DOMAIN receipts[p] \subseteq Tasks /\ Task(p) \notin DOMAIN receipts[p]
      BY <1>1, <2>1, TaskIsATask, StageSets DEF TaskInv
    <2>7. \A k \in Tasks : k > Task(p) => k # Task(p)
      BY <2>2 DEF Tasks
    <2>8. \A k \in Tasks : k > Task(p) => used'[p][k] = {}
      BY <1>2, <2>5, <2>7
    <2>9. \A k \in DOMAIN receipts[p] : used'[p][k] = used[p][k]
      BY <2>5, <2>6
    <2>10. edits[Task(p)] <= 1 =>
                 \/ /\ dirs[Task(p)].verifier = receipt[p].verifier
                    /\ used'[p][Task(p)] \subseteq {receipt[p].verifier}
                 \/ dirs[Task(p)].verifier # receipt[p].verifier /\ edits[Task(p)] = 1
      BY <1>2, <2>1, <2>5, StageSets
    <2> QED
      BY <1>1, <1>2, <2>1, <2>2, <2>3, <2>5, <2>8, <2>9, <2>10, StageSets DEF VerifierInv
  <1>8. ASSUME pc[p] \in Answered, pc'[p] \in Answered, receipts'[p] = receipts[p],
               used'[p] = used[p], dirs' = dirs,
               receipt'[p].verifier = receipt[p].verifier,
               pc'[p] \in {"digest base", "digest gold"} /\ edits[Task(p)] <= 1
                  /\ receipt'[p].unchanged =>
                  used[p][Task(p)] \subseteq {receipt[p].verifier},
               pc'[p] \notin {"digest base", "digest gold"} =>
                  pc[p] \notin {"digest base", "digest gold"}
        PROVE  VerifierInv(p)'
    <2>1. Task(p)' = Task(p)
      BY <1>8 DEF Task
    <2> QED
      BY ZenonT(40), <1>1, <1>2, <1>8, <2>1, StageSets DEF VerifierInv
  <1>9. CASE CheckSources(p) \/ CheckMode(p)
    <2>1. pc[p] \in {"sources", "mode"} /\ pc'[p] \in {"mode", "unchanged"}
          /\ receipts'[p] = receipts[p] /\ used'[p] = used[p] /\ dirs' = dirs
      BY <1>1, <1>9, Flow, Kept
    <2>2. receipt'[p].verifier = receipt[p].verifier
      BY <1>1, <2>1, ReceiptKept
    <2> QED
      BY <1>8, <2>1, <2>2, StageSets
  <1>10. CASE CheckUnchanged(p)
    <2>1. pc[p] = "unchanged" /\ pc'[p] = "digest base"
          /\ receipts'[p] = receipts[p] /\ used'[p] = used[p] /\ dirs' = dirs
      BY <1>1, <1>10, Flow, Kept
    <2>2. receipt'[p].verifier = receipt[p].verifier
      BY <1>1, <2>1, ReceiptKept
    <2>3. receipt'[p].unchanged = (dirs[Task(p)].verifier = receipt[p].verifier)
      BY <1>1, <1>10, ReceiptSet DEF Unchanged
    <2>4. edits[Task(p)] <= 1 /\ receipt'[p].unchanged =>
             used[p][Task(p)] \subseteq {receipt[p].verifier}
      BY <1>2, <2>1, <2>3, StageSets
    <2> QED
      BY <1>8, <2>1, <2>2, <2>4, StageSets
  <1>11. CASE DigestBase(p)
    <2>1. pc[p] = "digest base" /\ pc'[p] = "digest gold"
          /\ receipts'[p] = receipts[p] /\ used'[p] = used[p] /\ dirs' = dirs
      BY <1>1, <1>11, Flow, Kept
    <2>2. receipt'[p].verifier = receipt[p].verifier
          /\ receipt'[p].unchanged = receipt[p].unchanged
      BY <1>1, <2>1, ReceiptKept
    <2> QED
      BY <1>2, <1>8, <2>1, <2>2, StageSets
  <1>12. CASE DigestGold(p)
    <2>1. pc[p] = "digest gold" /\ pc'[p] \in {"open receipt", "stage"}
      BY <1>1, <1>12, Flow
    <2>2. used'[p] = used[p]
      BY <2>1, Kept
    <2>3. /\ Len(receipts'[p]) = Task(p) /\ Task(p) \in Tasks
          /\ DOMAIN receipts'[p] = DOMAIN receipts[p] \cup {Task(p)}
          /\ \A k \in DOMAIN receipts[p] : receipts'[p][k] = receipts[p][k]
          /\ receipts'[p][Task(p)] = [receipt[p] EXCEPT !.gold = dirs[Task(p)].gold]
      BY <1>12, ReceiptAdded
    <2>4. /\ receipts'[p][Task(p)].unchanged = receipt[p].unchanged
          /\ receipts'[p][Task(p)].verifier = receipt[p].verifier
      BY <1>1, <2>3 DEF Receipts
    <2>5. used[p][Task(p)] # {}
      BY <1>2, <2>1, StageSets
    <2>6. edits[Task(p)] <= 1 /\ receipt[p].unchanged =>
             used[p][Task(p)] = {receipt[p].verifier}
      BY <1>2, <2>1, <2>5
    <2>7. \A k \in DOMAIN receipts'[p] :
             edits[k] <= 1 /\ receipts'[p][k].unchanged =>
                used[p][k] = {receipts'[p][k].verifier}
      BY <1>2, <2>3, <2>4, <2>6
    <2>8. Task(p)' = Task(p) + 1
      BY <2>3 DEF Task
    <2>9. \A k \in Tasks : (k > Task(p) + 1 \/ k = Task(p) + 1) => used[p][k] = {}
      <3>1. \A k \in Tasks : (k > Task(p) + 1 \/ k = Task(p) + 1) => k > Task(p)
        BY <2>3 DEF Tasks
      <3> QED
        BY <1>2, <3>1
    <2> QED
      BY <1>1, <2>1, <2>2, <2>7, <2>8, <2>9, StageSets DEF VerifierInv
  <1>13. CASE Fail(p)
    <2>1. pc'[p] = "ended" /\ receipts'[p] = receipts[p] /\ used'[p] = used[p]
      BY <1>1, <1>13, Flow DEF Fail, replaying
    <2>2. Task(p)' = Task(p)
      BY <2>1 DEF Task
    <2> QED
      BY <1>1, <1>2, <2>1, <2>2, StageSets DEF VerifierInv, Building, Replaying
  <1>14. ~HashVerifier(p) /\ ~RunVerifier(p) /\ ~CheckSources(p) /\ ~CheckMode(p)
         /\ ~CheckUnchanged(p) /\ ~DigestBase(p) /\ ~DigestGold(p) /\ ~Fail(p) =>
            pc'[p] \notin Hashed /\ pc[p] \notin Hashed
    BY <1>1, Flow, StageSets DEF Step
  <1> QED
    BY <1>5, <1>6, <1>7, <1>9, <1>10, <1>11, <1>12, <1>13, <1>14

(***************************************************************************)
(* A process that nobody disturbs                                          *)
(***************************************************************************)
Entry(i) == [tree |-> 1 .. (i - 1), sequence |-> i - 1]

LEMMA LogGrows ==
  ASSUME NEW n \in Nat
  PROVE  /\ Log(0) = <<>> /\ Len(Log(n)) = n /\ DOMAIN Log(n) = 1 .. n
         /\ Append(Log(n), [tree |-> Repaired(n), sequence |-> n]) = Log(n + 1)
         /\ Log(n + 1) # <<>> /\ Tree(Log(n + 1)) = Repaired(n)
  <1> DEFINE S == {Entry(i) : i \in Nat}
             e == [tree |-> Repaired(n), sequence |-> n]
  <1>1. \A m : Log(m) = [i \in 1 .. m |-> Entry(i)]
    BY DEF Log, Entry
  <1>2. e = Entry(n + 1) /\ n + 1 \in Nat
    BY DEF Entry, Repaired
  <1> HIDE DEF e, Entry
  <1>3. Log(n) \in Seq(S) /\ Log(n + 1) \in Seq(S) /\ e \in S
    <2>1. \A i \in Nat : Entry(i) \in S
      OBVIOUS
    <2> HIDE DEF S
    <2>2. \A m \in Nat : [i \in 1 .. m |-> Entry(i)] \in Seq(S)
      BY <2>1
    <2> QED
      BY <1>1, <1>2, <2>1, <2>2
  <1>4. Len(Log(n)) = n /\ DOMAIN Log(n) = 1 .. n /\ Len(Log(n + 1)) = n + 1
        /\ DOMAIN Log(n + 1) = 1 .. n + 1
    BY <1>1
  <1>5. /\ Append(Log(n), e) \in Seq(S) /\ DOMAIN Append(Log(n), e) = 1 .. n + 1
        /\ \A k \in 1 .. n : Append(Log(n), e)[k] = Log(n)[k]
        /\ Append(Log(n), e)[n + 1] = e
    <2> HIDE DEF S
    <2> QED
      BY <1>3, <1>4, Appending
  <1>6. \A k \in 1 .. n + 1 : Append(Log(n), e)[k] = Log(n + 1)[k]
    <2> TAKE k \in 1 .. n + 1
    <2>1. CASE k \in 1 .. n
      BY <1>1, <1>5, <2>1
    <2>2. CASE k = n + 1
      BY <1>1, <1>2, <1>5, <2>2
    <2>3. k \in 1 .. n \/ k = n + 1
      OBVIOUS
    <2> QED
      BY <2>1, <2>2, <2>3
  <1>7. Append(Log(n), e) = Log(n + 1)
    <2> HIDE DEF S
    <2> QED
      BY <1>3, <1>4, <1>5, <1>6
  <1>8. Log(0) = <<>>
    BY <1>1
  <1>9. Log(n + 1) # <<>>
    BY <1>4
  <1>10. Log(n + 1)[n + 1] = e
    BY <1>5, <1>7
  <1>11. Tree(Log(n + 1)) = Repaired(n)
    BY <1>4, <1>9, <1>10 DEF Tree, e
  <1> QED
    BY <1>4, <1>7, <1>8, <1>9, <1>11 DEF e

LEMMA SnapshotClean ==
  ASSUME NEW n \in Nat
  PROVE  Snapshot(Log(n + 1)) = Clean(n)
  BY LogGrows DEF Snapshot, Clean, Repaired

\* With the trusted verifier the runs of task k tell the two workspaces apart.
LEMMA RunsTell ==
  ASSUME NEW k \in Tasks
  PROVE  /\ \A answer \in Answers("good", Clean(k - 1).module, k) : answer = "fail"
         /\ \A answer \in Answers("good", Clean(k).module, k) : answer = "pass"
  <1>1. /\ Repaired(k - 1) # Torn /\ Repaired(k) # Torn
        /\ k \notin Repaired(k - 1) /\ k \in Repaired(k)
    <2>1. k - 1 \in 0 .. NumTasks /\ k \in 0 .. NumTasks
      BY TaskCount DEF Tasks
    <2>2. k \notin Repaired(k - 1) /\ k \in Repaired(k)
      BY DEF Repaired, Tasks
    <2> QED
      BY <2>1, <2>2, RepairedModule
  <1>2. Clean(k - 1).module = Repaired(k - 1) /\ Clean(k).module = Repaired(k)
    BY DEF Clean, Repaired
  <1> HIDE DEF Repaired, Clean
  <1> QED
    BY <1>1, <1>2 DEF Answers

\* A second command that gives up at once disturbs nobody.
LEMMA AloneOthers ==
  ASSUME TypeInv, NEW q \in Procs, Step(q), NEW p \in Procs \ {q}, Alone(p)'
  PROVE  Alone(p) /\ Same(p) /\ UNCHANGED <<repo, source, dirs>>
  <1> USE DEF At, Left
  <1>1. LocalInv /\ TaskInv(q) /\ (\A r \in Procs \ {q} : Same(r)) /\ UNCHANGED environment
    BY LocalStep, DirsStep DEF TypeInv
  <1>2. pc[q] # "ended"
    BY <1>1, EndedStays
  <1>3. code[q] # 2
    <2>1. code[q] = Missing
      BY <1>1, <1>2 DEF TaskInv
    <2>2. 2 \in 0 .. 2
      OBVIOUS
    <2> QED
      BY <2>1, <2>2, MissingIsNoValue
  <1>4. pc'[q] # "idle"
    BY <1>1, Flow DEF Step
  <1>5. code'[q] = 2
    BY <1>4 DEF Alone
  <1>6. Start(q)
    BY <1>1, <1>3, <1>5, CodeGiven
  <1>7. pc[q] = "idle" /\ UNCHANGED <<repo, source, dirs>>
    BY <1>6 DEF Start, building, replaying
  <1>8. changes = 0
    BY <1>1 DEF Alone, environment
  <1>9. \A r \in Procs \ {p} : pc[r] = "idle" \/ code[r] = 2
    BY <1>1, <1>7 DEF Alone, Same
  <1> QED
    BY <1>1, <1>7, <1>8, <1>9 DEF Alone

LEMMA AloneKept ==
  ASSUME NEW p \in Procs, AloneBuilding(p), AloneReplaying(p), Same(p),
         UNCHANGED <<repo, source, dirs>>
  PROVE  AloneBuilding(p)' /\ AloneReplaying(p)'
  <1>1. AloneBuilding(p)'
    BY DEF AloneBuilding, Same
  <1>2. Task(p)' = Task(p)
    BY DEF Same, Task
  <1> HIDE DEF Expected, Clean
  <1>3. AloneReplaying(p)'
    BY <1>2 DEF AloneReplaying, Same, Task
  <1> QED
    BY <1>1, <1>3

LEMMA AloneOwn ==
  ASSUME TypeInv, NEW p \in Procs, Step(p), Alone(p)'
  PROVE  Alone(p)
  BY ZenonT(40), LocalStep, DirsStep DEF Alone, Same, environment

LEMMA BuildingAlone ==
  ASSUME TypeInv, NEW p \in Procs, Step(p), AloneBuilding(p)
  PROVE  AloneBuilding(p)'
  <1> USE DEF At, Left
  <1>1. /\ LocalInv /\ SharedInv /\ BuildInv(p) /\ repo \in Repos
        /\ step[p] \in 0 .. NumTasks /\ step[p] \in Nat
        /\ tasks[p] \in Seq([base : Made, gold : Made])
    <2>1. LocalInv /\ SharedInv /\ BuildInv(p)
      BY DEF TypeInv
    <2>2. step[p] \in 0 .. NumTasks /\ tasks[p] \in Seq([base : Made, gold : Made])
      BY <2>1 DEF LocalInv
    <2>3. step[p] \in Nat
      BY <2>2, TaskCount
    <2>4. repo \in Repos
      BY <2>1 DEF SharedInv
    <2> QED
      BY <2>1, <2>2, <2>3, <2>4
  <1>2. /\ pc[p] = "idle" => repo.head = <<>>
        /\ pc[p] \in {"empty", "init"} \cup Committing => repo.head = Log(step[p])
        /\ pc[p] \in {"base", "gold"} => repo.head = Log(step[p] + 1)
        /\ pc[p] \in Committing \cup {"gold"} /\ step[p] > 0 => base[p] = Log(step[p])
        /\ pc[p] = "write" => repo.module = Torn
        /\ pc[p] = "add" => repo.module = Repaired(step[p])
        /\ pc[p] = "commit" => repo.index = Repaired(step[p])
        /\ pc[p] \in {"claim"} \cup Replaying => source = "good"
        /\ \A k \in DOMAIN tasks[p] : tasks[p][k] = [base |-> Log(k), gold |-> Log(k + 1)]
    BY DEF AloneBuilding
  <1>3. Committing = {"truncate", "write", "add", "commit"}
    BY DEF Committing
  <1> HIDE DEF Log, Repaired, Repos, Made
  <1>4. ASSUME pc'[p] \notin Building \cup {"idle"}, tasks'[p] = tasks[p], source' = source,
               pc'[p] \in Replaying => pc[p] \in {"claim"} \cup Replaying
        PROVE  AloneBuilding(p)'
    BY <1>2, <1>3, <1>4 DEF AloneBuilding, Building
  <1>5. CASE Start(p)
    <2>1. pc[p] = "idle" /\ pc'[p] \in {"empty", "ended"} /\ tasks'[p] = tasks[p]
          /\ step'[p] = step[p] /\ repo' = repo
      BY <1>1, <1>5, Flow, Kept DEF Building
    <2>2. step[p] = 0 /\ repo.head = Log(step[p])
      BY <1>1, <1>2, <2>1, LogGrows DEF BuildInv
    <2> QED
      BY <1>2, <1>3, <2>1, <2>2 DEF AloneBuilding, Replaying
  <1>6. CASE MakeRepository(p) \/ GitInit(p)
    <2>1. pc[p] \in {"empty", "init"} /\ pc'[p] \in {"init", "truncate", "ended"}
          /\ tasks'[p] = tasks[p] /\ step'[p] = step[p]
      BY <1>1, <1>6, Flow, Kept
    <2>2. repo'.head = repo.head
      BY <1>1, <1>6, RepoTyped DEF MakeRepository, GitInit
    <2>3. ~(step[p] > 0)
      <3>1. step[p] = 0
        BY <1>1, <2>1 DEF BuildInv
      <3> QED
        BY <3>1
    <2> QED
      BY <1>2, <1>3, <2>1, <2>2, <2>3 DEF AloneBuilding, Replaying
  <1>7. CASE TruncateModule(p)
    <2>1. pc[p] = "truncate" /\ pc'[p] = "write" /\ tasks'[p] = tasks[p]
          /\ step'[p] = step[p] /\ base'[p] = base[p]
      BY <1>1, <1>7, Flow, Kept
    <2>2. repo' = [repo EXCEPT !.module = Torn] /\ Torn \in Entries
      BY <1>7 DEF TruncateModule, Entries, Modules
    <2>3. repo'.head = repo.head /\ repo'.module = Torn
      BY <1>1, <2>2, RepoTyped
    <2> QED
      BY <1>2, <1>3, <2>1, <2>3 DEF AloneBuilding, Replaying
  <1>8. CASE FillModule(p)
    <2>1. pc[p] = "write" /\ pc'[p] = "add" /\ tasks'[p] = tasks[p]
          /\ step'[p] = step[p] /\ base'[p] = base[p]
      BY <1>1, <1>8, Flow, Kept
    <2>2. repo' = [repo EXCEPT !.module = Repaired(step[p])]
      BY <1>2, <1>8, <2>1 DEF FillModule
    <2>3. Repaired(step[p]) \in Entries
      BY <1>1, RepairedModule DEF Entries
    <2>4. repo'.head = repo.head /\ repo'.module = Repaired(step[p])
      BY <1>1, <2>2, <2>3, RepoTyped
    <2> QED
      BY <1>2, <1>3, <2>1, <2>4 DEF AloneBuilding, Replaying
  <1>9. CASE GitAdd(p)
    <2>1. pc[p] = "add" /\ pc'[p] = "commit" /\ tasks'[p] = tasks[p]
          /\ step'[p] = step[p] /\ base'[p] = base[p]
      BY <1>1, <1>9, Flow, Kept
    <2>2. repo' = [repo EXCEPT !.index = repo.module] /\ repo.module \in Entries
      BY <1>1, <1>9 DEF GitAdd, Repos
    <2>3. repo'.head = repo.head /\ repo'.index = repo.module
      BY <1>1, <2>2, RepoTyped
    <2> QED
      BY <1>2, <1>3, <2>1, <2>3 DEF AloneBuilding, Replaying
  <1>10. CASE GitCommit(p)
    <2> DEFINE commit == [tree |-> repo.index, sequence |-> step[p]]
    <2>1. pc[p] = "commit" /\ pc'[p] \in {"base", "gold"} /\ tasks'[p] = tasks[p]
          /\ step'[p] = step[p] /\ base'[p] = base[p]
      BY <1>1, <1>10, Flow, Kept
    <2>2. commit = [tree |-> Repaired(step[p]), sequence |-> step[p]] /\ repo.head = Log(step[p])
      BY <1>2, <1>3, <2>1
    <2>3. repo' = [repo EXCEPT !.head = Append(repo.head, commit)]
      BY <1>10 DEF GitCommit
    <2>4. commit \in Commits /\ repo.head \in Seq(Commits)
      BY <1>1, <2>1 DEF BuildInv, Commits, Repos
    <2> HIDE DEF commit, Commits
    <2>5. Append(repo.head, commit) \in Seq(Commits)
      BY <2>4, Appending
    <2>6. repo'.head = Append(repo.head, commit)
      BY <1>1, <2>3, <2>5, RepoTyped
    <2>7. repo'.head = Log(step[p] + 1)
      BY <1>1, <2>2, <2>6, LogGrows
    <2> QED
      BY <1>2, <1>3, <2>1, <2>7 DEF AloneBuilding, Replaying
  <1>11. CASE RevParseBase(p)
    <2>1. pc[p] = "base" /\ pc'[p] = "truncate" /\ tasks'[p] = tasks[p]
      BY <1>1, <1>11, Flow, Kept
    <2>2. step'[p] = step[p] + 1 /\ base'[p] = repo.head /\ repo' = repo
      BY <1>1, <1>11 DEF RevParseBase, LocalInv
    <2> QED
      BY <1>2, <1>3, <2>1, <2>2 DEF AloneBuilding, Replaying
  <1>12. CASE RevParseGold(p) /\ pc'[p] # "ended"
    <2> DEFINE task == [base |-> base[p], gold |-> repo.head]
    <2>1. pc[p] = "gold" /\ pc'[p] \in {"check source", "base"}
      BY <1>1, <1>12, Flow
    <2>2. step'[p] = step[p] /\ base'[p] = base[p] /\ repo' = repo
      BY <1>12 DEF RevParseGold
    <2>3. step[p] > 0 /\ Len(tasks[p]) = step[p] - 1 /\ base[p] # <<>> /\ repo.head # <<>>
      BY <1>1, <2>1 DEF BuildInv
    <2>4. task = [base |-> Log(step[p]), gold |-> Log(step[p] + 1)]
      BY <1>2, <2>1, <2>3
    <2>5. tasks' = [tasks EXCEPT ![p] = Append(@, task)]
      BY <1>1, <1>12 DEF RevParseGold, Exit, LocalInv
    <2>6. task \in [base : Made, gold : Made]
      BY <1>1, <2>3 DEF LocalInv, SharedInv, Repos, Made
    <2> HIDE DEF task
    <2>7. tasks'[p] = Append(tasks[p], task)
      BY <1>1, <2>5 DEF LocalInv
    <2>8. /\ DOMAIN tasks'[p] = DOMAIN tasks[p] \cup {step[p]}
          /\ \A k \in DOMAIN tasks[p] : tasks'[p][k] = tasks[p][k]
          /\ tasks'[p][step[p]] = task
      <3>1. /\ DOMAIN tasks[p] = 1 .. Len(tasks[p])
            /\ DOMAIN tasks'[p] = 1 .. Len(tasks[p]) + 1
            /\ \A k \in DOMAIN tasks[p] : tasks'[p][k] = tasks[p][k]
            /\ tasks'[p][Len(tasks[p]) + 1] = task
        BY <1>1, <2>6, <2>7, Appending
      <3>2. Len(tasks[p]) + 1 = step[p]
        BY <1>1, <2>3
      <3> QED
        BY <1>1, <2>3, <3>1, <3>2
    <2>9. \A k \in DOMAIN tasks'[p] : tasks'[p][k] = [base |-> Log(k), gold |-> Log(k + 1)]
      BY <1>2, <2>4, <2>8
    <2> QED
      BY <1>2, <1>3, <2>1, <2>2, <2>9 DEF AloneBuilding, Replaying
  <1>13. CASE CheckSource(p)
    <2>1. pc'[p] \in {"create source", "ended"} /\ tasks'[p] = tasks[p]
      BY <1>1, <1>13, Flow, Kept
    <2> QED
      BY <1>2, <1>3, <2>1 DEF AloneBuilding, Replaying
  <1>14. CASE WriteSource(p)
    <2>1. tasks'[p] = tasks[p] /\ (pc'[p] = "write source" \/ pc'[p] = "claim")
      BY <1>1, <1>14, Flow, Kept
    <2>2. pc'[p] = "claim" => source' = "good"
      BY <1>1, <1>14 DEF WriteSource, Goto, LocalInv
    <2> QED
      BY <1>2, <1>3, <2>1, <2>2 DEF AloneBuilding, Replaying
  <1>15. CASE Claim(p)
    <2>1. pc[p] = "claim" /\ pc'[p] \in {"stage", "ended"} /\ tasks'[p] = tasks[p]
          /\ source' = source
      BY <1>1, <1>15, Flow, Kept
    <2> QED
      BY <1>4, <2>1 DEF Building
  <1>16. CASE pc[p] \in Replaying
    <2>1. pc'[p] \in Replaying \cup {"ended"}
      BY <1>1, <1>16, Flow DEF Step, Replaying
    <2>2. tasks'[p] = tasks[p] /\ source' = source
      BY <1>16, Kept DEF Replaying
    <2>3. pc'[p] \notin Building \cup {"idle"}
      BY <2>1 DEF Replaying, Building
    <2> QED
      BY <1>4, <1>16, <2>1, <2>2, <2>3
  <1>17. CASE pc'[p] = "ended" /\ (Fail(p) \/ RevParseGold(p))
    <2>1. tasks'[p] = tasks[p] /\ source' = source
      BY <1>1, <1>17 DEF Fail, building, RevParseGold, Goto, LocalInv
    <2> QED
      BY <1>4, <1>17, <2>1 DEF Building, Replaying
  <1>18. pc[p] \in Replaying \/ Start(p) \/ MakeRepository(p) \/ GitInit(p) \/ TruncateModule(p)
         \/ FillModule(p) \/ GitAdd(p) \/ GitCommit(p) \/ RevParseBase(p) \/ RevParseGold(p)
         \/ CheckSource(p) \/ WriteSource(p) \/ Claim(p) \/ (Fail(p) /\ pc'[p] = "ended")
    BY <1>1, Flow DEF Step, Replaying
  <1> QED
    BY <1>5, <1>6, <1>7, <1>8, <1>9, <1>10, <1>11, <1>12, <1>13, <1>14, <1>15, <1>16, <1>17,
       <1>18

\* Every field of an undisturbed receipt is as expected, so the receipt is.
LEMMA ExpectedFields ==
  ASSUME NEW r \in Receipts, NEW k,
         r.verifier = "good", r.base = Clean(k - 1), r.gold = Clean(k),
         Len(r.base_runs) = Repetitions, Len(r.gold_runs) = Repetitions,
         \A i \in DOMAIN r.base_runs : r.base_runs[i] = "fail",
         \A i \in DOMAIN r.gold_runs : r.gold_runs[i] = "pass",
         r.source_only = TRUE, r.read_only = TRUE, r.unchanged = TRUE
  PROVE  r = Expected(k)
  <1>1. r.base_runs \in Seq({"pass", "fail", "exception"})
        /\ r.gold_runs \in Seq({"pass", "fail", "exception"})
    BY DEF Receipts, Runs
  <1>2. /\ r.base_runs = [i \in 1 .. Repetitions |-> "fail"]
        /\ r.gold_runs = [i \in 1 .. Repetitions |-> "pass"]
    BY <1>1
  <1>3. r = [verifier |-> r.verifier, base |-> r.base, gold |-> r.gold,
             base_runs |-> r.base_runs, gold_runs |-> r.gold_runs,
             source_only |-> r.source_only, read_only |-> r.read_only,
             unchanged |-> r.unchanged]
    BY DEF Receipts
  <1> HIDE DEF Repetitions
  <1> QED
    BY <1>2, <1>3 DEF Expected, Clean

LEMMA ReplayingAlone ==
  ASSUME TypeInv, NEW p \in Procs, Step(p), AloneBuilding(p), AloneReplaying(p)
  PROVE  AloneReplaying(p)'
  <1> USE DEF At, Left
  <1>1. /\ LocalInv /\ SharedInv /\ BuildInv(p) /\ TaskInv(p) /\ receipt[p] \in Receipts
        /\ receipts[p] \in Seq(Receipts) /\ tasks[p] \in Seq([base : Made, gold : Made])
        /\ dirs \in [Tasks -> Directories \cup {Missing}]
    BY DEF TypeInv, LocalInv, SharedInv
  <1>2. /\ pc[p] \in Placed => /\ dirs[Task(p)].verifier = "good"
                               /\ dirs[Task(p)].writable = FALSE
        /\ pc[p] \in Placed \ {"snapshot base"} => dirs[Task(p)].base = Clean(Task(p) - 1)
        /\ pc[p] \in Placed \ {"snapshot base", "snapshot gold"} =>
              dirs[Task(p)].gold = Clean(Task(p))
        /\ pc[p] \in Hashed => receipt[p].verifier = "good"
        /\ pc[p] \in Hashed => \A i \in DOMAIN receipt[p].base_runs :
                                  receipt[p].base_runs[i] = "fail"
        /\ pc[p] \in Hashed => \A i \in DOMAIN receipt[p].gold_runs :
                                  receipt[p].gold_runs[i] = "pass"
        /\ pc[p] \in Answered \ {"sources"} => receipt[p].source_only = TRUE
        /\ pc[p] \in Answered \ {"sources", "mode"} => receipt[p].read_only = TRUE
        /\ pc[p] \in {"digest base", "digest gold"} => receipt[p].unchanged = TRUE
        /\ pc[p] = "digest gold" => receipt[p].base = Clean(Task(p) - 1)
        /\ \A k \in DOMAIN receipts[p] : receipts[p][k] = Expected(k)
    BY DEF AloneReplaying
  <1> HIDE DEF Clean, Expected, Log, Directories, Made
  <1>3. pc[p] \in InTask => /\ Task(p) \in Tasks /\ Task(p) \in Nat
                            /\ Task(p) - 1 \in Nat /\ Task(p) - 1 + 1 = Task(p)
    <2> HAVE pc[p] \in InTask
    <2>1. Task(p) \in Tasks
      BY <1>1, TaskIsATask DEF TaskInv
    <2> QED
      BY <2>1 DEF Tasks
  <1>4. pc[p] \in InTask => tasks[p][Task(p)] = [base |-> Log(Task(p)), gold |-> Log(Task(p) + 1)]
    <2> HAVE pc[p] \in InTask
    <2>1. Task(p) \in 1 .. NumTasks /\ Len(tasks[p]) = NumTasks
      BY <1>1, <1>3, StageSets DEF BuildInv, Tasks, InTask
    <2>2. Task(p) \in DOMAIN tasks[p]
      BY <1>1, <2>1
    <2> QED
      BY <2>2 DEF AloneBuilding
  <1>5. pc[p] \in Placed => dirs[Task(p)] \in Directories
    BY <1>1, <1>3, StageSets DEF TaskInv
  <1>6. CASE pc'[p] \notin Placed /\ pc[p] # "digest gold"
    <2>1. receipts'[p] = receipts[p]
      BY <1>6, Kept
    <2> QED
      BY <1>2, <1>6, <2>1, StageSets DEF AloneReplaying
  <1>7. CASE StageVerifier(p) /\ pc'[p] = "snapshot base"
    <2> DEFINE d == [verifier |-> source, writable |-> FALSE, base |-> Missing, gold |-> Missing]
    <2>1. pc[p] = "stage" /\ receipts'[p] = receipts[p] /\ Task(p)' = Task(p)
      BY <1>1, <1>7, Flow, Kept DEF Task
    <2>2. dirs' = [dirs EXCEPT ![Task(p)] = d]
      BY <1>1, <1>7 DEF StageVerifier, Exit, LocalInv
    <2>3. source = "good"
      BY <2>1 DEF AloneBuilding, Replaying
    <2>4. d.verifier = "good" /\ d.writable = FALSE
      BY <2>3
    <2> HIDE DEF d
    <2>5. dirs'[Task(p)] = d
      BY <1>1, <1>3, <2>1, <2>2, StageSets
    <2> QED
      BY <1>2, <1>7, <2>1, <2>4, <2>5, StageSets DEF AloneReplaying
  <1>8. CASE SnapshotBase(p)
    <2> DEFINE w == Snapshot(tasks[p][Task(p)].base)
    <2>1. pc[p] = "snapshot base" /\ pc'[p] = "snapshot gold" /\ receipts'[p] = receipts[p]
          /\ Task(p)' = Task(p)
      BY <1>1, <1>8, Flow, Kept DEF Task
    <2>2. w = Clean(Task(p) - 1)
      <3>1. tasks[p][Task(p)].base = Log(Task(p) - 1 + 1)
        <4>1. tasks[p][Task(p)] = [base |-> Log(Task(p)), gold |-> Log(Task(p) + 1)]
          BY <1>4, <2>1, StageSets
        <4>2. tasks[p][Task(p)].base = Log(Task(p))
          BY <4>1
        <4> QED
          BY <1>3, <2>1, <4>2, StageSets
      <3> QED
        BY <1>3, <2>1, <3>1, SnapshotClean, StageSets
    <2>3. dirs' = [dirs EXCEPT ![Task(p)].base = w]
      BY <1>8 DEF SnapshotBase
    <2> HIDE DEF w
    <2>4. dirs'[Task(p)] = [dirs[Task(p)] EXCEPT !.base = w]
      BY <1>1, <1>3, <2>1, <2>3, StageSets
    <2>5. /\ dirs'[Task(p)].verifier = dirs[Task(p)].verifier
          /\ dirs'[Task(p)].writable = dirs[Task(p)].writable
          /\ dirs'[Task(p)].base = w
      BY <1>5, <2>1, <2>4, StageSets DEF Directories
    <2> QED
      BY <1>2, <2>1, <2>2, <2>5, StageSets DEF AloneReplaying
  <1>9. CASE SnapshotGold(p)
    <2> DEFINE w == Snapshot(tasks[p][Task(p)].gold)
    <2>1. pc[p] = "snapshot gold" /\ pc'[p] = "hash" /\ receipts'[p] = receipts[p]
          /\ Task(p)' = Task(p)
      BY <1>1, <1>9, Flow, Kept DEF Task
    <2>2. w = Clean(Task(p))
      <3>1. tasks[p][Task(p)].gold = Log(Task(p) + 1)
        <4>1. tasks[p][Task(p)] = [base |-> Log(Task(p)), gold |-> Log(Task(p) + 1)]
          BY <1>4, <2>1, StageSets
        <4> QED
          BY <4>1
      <3> QED
        BY <1>3, <2>1, <3>1, SnapshotClean, StageSets
    <2>3. dirs' = [dirs EXCEPT ![Task(p)].gold = w]
      BY <1>9 DEF SnapshotGold
    <2> HIDE DEF w
    <2>4. dirs'[Task(p)] = [dirs[Task(p)] EXCEPT !.gold = w]
      BY <1>1, <1>3, <2>1, <2>3, StageSets
    <2>5. /\ dirs'[Task(p)].verifier = dirs[Task(p)].verifier
          /\ dirs'[Task(p)].writable = dirs[Task(p)].writable
          /\ dirs'[Task(p)].base = dirs[Task(p)].base
          /\ dirs'[Task(p)].gold = w
      BY <1>5, <2>1, <2>4, StageSets DEF Directories
    <2> QED
      BY <1>2, <2>1, <2>2, <2>5, StageSets DEF AloneReplaying
  <1>10. ASSUME pc[p] \in Placed \ {"snapshot base", "snapshot gold"}, pc'[p] \in Hashed,
                receipts'[p] = receipts[p], dirs' = dirs,
                receipt'[p].verifier = "good",
                \A i \in DOMAIN receipt'[p].base_runs : receipt'[p].base_runs[i] = "fail",
                \A i \in DOMAIN receipt'[p].gold_runs : receipt'[p].gold_runs[i] = "pass",
                pc'[p] \in Answered \ {"sources"} => receipt'[p].source_only = TRUE,
                pc'[p] \in Answered \ {"sources", "mode"} => receipt'[p].read_only = TRUE,
                pc'[p] \in {"digest base", "digest gold"} => receipt'[p].unchanged = TRUE,
                pc'[p] = "digest gold" => receipt'[p].base = Clean(Task(p) - 1)
         PROVE  AloneReplaying(p)'
    <2>1. Task(p)' = Task(p)
      BY <1>10 DEF Task
    <2> QED
      BY ZenonT(40), <1>2, <1>10, <2>1, StageSets DEF AloneReplaying
  <1>11. CASE HashVerifier(p)
    <2>1. pc[p] = "hash" /\ pc'[p] = "run base" /\ receipts'[p] = receipts[p] /\ dirs' = dirs
      BY <1>1, <1>11, Flow, Kept
    <2>2. receipt'[p].verifier = dirs[Task(p)].verifier
      BY <1>1, <1>11, ReceiptSet
    <2>3. receipt'[p].base_runs = receipt[p].base_runs
          /\ receipt'[p].gold_runs = receipt[p].gold_runs
      BY <1>1, <2>1, ReceiptKept
    <2>4. receipt[p].base_runs = <<>> /\ receipt[p].gold_runs = <<>>
      BY <1>1, <2>1, StageSets DEF TaskInv
    <2>5. /\ receipt'[p].verifier = "good"
          /\ \A i \in DOMAIN receipt'[p].base_runs : receipt'[p].base_runs[i] = "fail"
          /\ \A i \in DOMAIN receipt'[p].gold_runs : receipt'[p].gold_runs[i] = "pass"
      <3>1. DOMAIN receipt'[p].base_runs = {} /\ DOMAIN receipt'[p].gold_runs = {}
        BY <2>3, <2>4
      <3>2. dirs[Task(p)].verifier = "good"
        BY <1>2, <2>1, StageSets
      <3> QED
        BY <2>2, <3>1, <3>2
    <2> QED
      BY <1>10, <2>1, <2>5, StageSets
  <1>12. CASE RunVerifier(p)
    <2>1. pc[p] \in {"run base", "run gold"} /\ pc'[p] \in {"run base", "run gold", "sources"}
          /\ receipts'[p] = receipts[p] /\ dirs' = dirs
      BY <1>1, <1>12, Flow, Kept
    <2>2. receipt'[p].verifier = "good"
      BY <1>1, <1>2, <2>1, ReceiptKept, StageSets
    <2>3. receipt[p].base_runs \in Seq({"pass", "fail", "exception"})
          /\ receipt[p].gold_runs \in Seq({"pass", "fail", "exception"})
      BY <1>1 DEF Receipts, Runs
    <2>4. /\ Task(p) \in Tasks /\ dirs[Task(p)].verifier = "good"
          /\ dirs[Task(p)].base = Clean(Task(p) - 1) /\ dirs[Task(p)].gold = Clean(Task(p))
      BY <1>2, <1>3, <2>1, StageSets
    <2>5. (\A i \in DOMAIN receipt[p].base_runs : receipt[p].base_runs[i] = "fail")
          /\ (\A i \in DOMAIN receipt[p].gold_runs : receipt[p].gold_runs[i] = "pass")
      BY <1>2, <2>1, StageSets
    <2>6. CASE pc[p] = "run base"
      <3>1. PICK answer \in Answers(dirs[Task(p)].verifier, dirs[Task(p)].base.module, Task(p)) :
               receipt'[p].base_runs = Append(receipt[p].base_runs, answer)
        BY <1>1, <1>12, <2>6, ReceiptSet
      <3>2. answer = "fail"
        BY <2>4, RunsTell
      <3>3. receipt'[p].gold_runs = receipt[p].gold_runs
        BY <1>1, <2>6, ReceiptKept
      <3>4. \A i \in DOMAIN receipt'[p].base_runs : receipt'[p].base_runs[i] = "fail"
        BY <2>3, <2>5, <3>1, <3>2, Appending
      <3> QED
        BY <1>10, <2>1, <2>2, <2>5, <3>3, <3>4, StageSets
    <2>7. CASE pc[p] = "run gold"
      <3>1. PICK answer \in Answers(dirs[Task(p)].verifier, dirs[Task(p)].gold.module, Task(p)) :
               receipt'[p].gold_runs = Append(receipt[p].gold_runs, answer)
        BY <1>1, <1>12, <2>7, ReceiptSet
      <3>2. answer = "pass"
        BY <2>4, RunsTell
      <3>3. receipt'[p].base_runs = receipt[p].base_runs
        BY <1>1, <2>7, ReceiptKept
      <3>4. \A i \in DOMAIN receipt'[p].gold_runs : receipt'[p].gold_runs[i] = "pass"
        BY <2>3, <2>5, <3>1, <3>2, Appending
      <3> QED
        BY <1>10, <2>1, <2>2, <2>5, <3>3, <3>4, StageSets
    <2> QED
      BY <2>1, <2>6, <2>7
  <1>13. ASSUME pc[p] \in {"sources", "mode", "unchanged", "digest base"}
         PROVE  /\ receipt'[p].verifier = "good"
                /\ \A i \in DOMAIN receipt'[p].base_runs : receipt'[p].base_runs[i] = "fail"
                /\ \A i \in DOMAIN receipt'[p].gold_runs : receipt'[p].gold_runs[i] = "pass"
                /\ pc[p] # "sources" => receipt'[p].source_only = TRUE
                /\ pc[p] \in {"unchanged", "digest base"} => receipt'[p].read_only = TRUE
                /\ pc[p] = "digest base" => receipt'[p].unchanged = TRUE
    <2>1. /\ receipt'[p].verifier = receipt[p].verifier
          /\ receipt'[p].base_runs = receipt[p].base_runs
          /\ receipt'[p].gold_runs = receipt[p].gold_runs
          /\ pc[p] # "sources" => receipt'[p].source_only = receipt[p].source_only
          /\ pc[p] # "mode" => receipt'[p].read_only = receipt[p].read_only
          /\ pc[p] # "unchanged" => receipt'[p].unchanged = receipt[p].unchanged
      BY <1>1, <1>13, ReceiptKept
    <2> QED
      BY <1>2, <1>13, <2>1, StageSets
  <1>14. CASE CheckSources(p)
    <2>1. pc[p] = "sources" /\ pc'[p] = "mode" /\ receipts'[p] = receipts[p] /\ dirs' = dirs
      BY <1>1, <1>14, Flow, Kept
    <2>2. dirs[Task(p)].base.extra = "none" /\ dirs[Task(p)].gold.extra = "none"
      <3>1. \A n : Clean(n).extra = "none"
        BY DEF Clean
      <3> QED
        BY <1>2, <2>1, <3>1, StageSets
    <2>3. receipt'[p].source_only =
             ("git" \notin {dirs[Task(p)].base.extra, dirs[Task(p)].gold.extra})
      BY <1>1, <1>14, ReceiptSet
    <2>4. receipt'[p].source_only = TRUE
      BY <2>2, <2>3
    <2> QED
      BY <1>10, <1>13, <2>1, <2>4, StageSets
  <1>15. CASE CheckMode(p)
    <2>1. pc[p] = "mode" /\ pc'[p] = "unchanged" /\ receipts'[p] = receipts[p] /\ dirs' = dirs
      BY <1>1, <1>15, Flow, Kept
    <2>2. receipt'[p].read_only = ~dirs[Task(p)].writable
      BY <1>1, <1>15, ReceiptSet
    <2>3. receipt'[p].read_only = TRUE
      BY <1>2, <2>1, <2>2, StageSets
    <2> QED
      BY <1>10, <1>13, <2>1, <2>3, StageSets
  <1>16. CASE CheckUnchanged(p)
    <2>1. pc[p] = "unchanged" /\ pc'[p] = "digest base" /\ receipts'[p] = receipts[p]
          /\ dirs' = dirs
      BY <1>1, <1>16, Flow, Kept
    <2>2. receipt'[p].unchanged = (dirs[Task(p)].verifier = receipt[p].verifier)
      BY <1>1, <1>16, ReceiptSet DEF Unchanged
    <2>3. dirs[Task(p)].verifier = "good" /\ receipt[p].verifier = "good"
      BY <1>2, <2>1, StageSets
    <2>4. receipt'[p].unchanged = TRUE
      BY <2>2, <2>3
    <2> QED
      BY <1>10, <1>13, <2>1, <2>4, StageSets
  <1>17. CASE DigestBase(p)
    <2>1. pc[p] = "digest base" /\ pc'[p] = "digest gold" /\ receipts'[p] = receipts[p]
          /\ dirs' = dirs
      BY <1>1, <1>17, Flow, Kept
    <2>2. receipt'[p].base = Clean(Task(p) - 1)
      BY <1>1, <1>2, <1>17, <2>1, ReceiptSet, StageSets
    <2> QED
      BY <1>10, <1>13, <2>1, <2>2, StageSets
  <1>18. CASE DigestGold(p)
    <2> DEFINE r == [receipt[p] EXCEPT !.gold = dirs[Task(p)].gold]
    <2>1. pc[p] = "digest gold" /\ pc'[p] \in {"open receipt", "stage"}
      BY <1>1, <1>18, Flow
    <2>2. /\ r \in Receipts /\ DOMAIN receipts'[p] = DOMAIN receipts[p] \cup {Task(p)}
          /\ \A k \in DOMAIN receipts[p] : receipts'[p][k] = receipts[p][k]
          /\ receipts'[p][Task(p)] = r
      BY <1>18, ReceiptAdded
    <2>3. /\ r.verifier = receipt[p].verifier /\ r.base = receipt[p].base
          /\ r.gold = dirs[Task(p)].gold /\ r.base_runs = receipt[p].base_runs
          /\ r.gold_runs = receipt[p].gold_runs /\ r.source_only = receipt[p].source_only
          /\ r.read_only = receipt[p].read_only /\ r.unchanged = receipt[p].unchanged
      BY <1>1 DEF Receipts
    <2> HIDE DEF r
    <2>4. /\ Len(receipt[p].base_runs) = Repetitions
          /\ Len(receipt[p].gold_runs) = Repetitions
      BY <1>1, <2>1, StageSets DEF TaskInv
    <2>5. r = Expected(Task(p))
      <3>1. r.verifier = "good" /\ r.base = Clean(Task(p) - 1) /\ r.gold = Clean(Task(p))
        BY <1>2, <2>1, <2>3, StageSets
      <3>2. /\ \A i \in DOMAIN r.base_runs : r.base_runs[i] = "fail"
            /\ \A i \in DOMAIN r.gold_runs : r.gold_runs[i] = "pass"
        BY <1>2, <2>1, <2>3, StageSets
      <3>3. r.source_only = TRUE /\ r.read_only = TRUE /\ r.unchanged = TRUE
        BY <1>2, <2>1, <2>3, StageSets
      <3>4. Len(r.base_runs) = Repetitions /\ Len(r.gold_runs) = Repetitions
        BY <2>3, <2>4
      <3>5. r \in Receipts
        BY <2>2
      <3> HIDE DEF Receipts, Repetitions
      <3> QED
        BY <3>1, <3>2, <3>3, <3>4, <3>5, ExpectedFields
    <2>6. \A k \in DOMAIN receipts'[p] : receipts'[p][k] = Expected(k)
      BY <1>2, <2>2, <2>5
    <2> QED
      BY <2>1, <2>6, StageSets DEF AloneReplaying
  <1>19. CASE Fail(p)
    <2>1. pc'[p] = "ended" /\ receipts'[p] = receipts[p]
      BY <1>1, <1>19, Flow DEF Fail, replaying
    <2> QED
      BY <1>2, <2>1, StageSets DEF AloneReplaying
  <1>20. ~StageVerifier(p) /\ ~SnapshotBase(p) /\ ~SnapshotGold(p) /\ ~HashVerifier(p)
         /\ ~RunVerifier(p) /\ ~CheckSources(p) /\ ~CheckMode(p) /\ ~CheckUnchanged(p)
         /\ ~DigestBase(p) /\ ~DigestGold(p) /\ ~Fail(p) =>
            pc'[p] \notin Placed /\ pc[p] # "digest gold"
    BY <1>1, Flow, StageSets DEF Step
  <1>21. StageVerifier(p) => pc[p] = "stage" /\ pc'[p] \in {"snapshot base", "ended"}
    BY <1>1, Flow
  <1> QED
    BY <1>6, <1>7, <1>8, <1>9, <1>11, <1>12, <1>14, <1>15, <1>16, <1>17, <1>18, <1>19,
       <1>20, <1>21, StageSets

LEMMA AloneStep ==
  ASSUME TypeInv, NEW q \in Procs, Step(q), NEW p \in Procs, AloneInv(p)
  PROVE  AloneInv(p)'
  <1> SUFFICES ASSUME Alone(p)' PROVE AloneBuilding(p)' /\ AloneReplaying(p)'
    BY DEF AloneInv
  <1>1. CASE p = q
    BY <1>1, AloneOwn, BuildingAlone, ReplayingAlone DEF AloneInv
  <1>2. CASE p # q
    <2>1. Alone(p) /\ Same(p) /\ UNCHANGED <<repo, source, dirs>>
      BY <1>2, AloneOthers
    <2> QED
      BY <2>1, AloneKept DEF AloneInv
  <1> QED
    BY <1>1, <1>2

LEMMA AloneEdit ==
  ASSUME TypeInv, NEW k \in Tasks, Edit(k), NEW p \in Procs
  PROVE  AloneInv(p)'
  <1>1. changes \in Nat /\ changes' = changes + 1
    BY EditStep DEF TypeInv, SharedInv
  <1>2. changes' # 0
    BY <1>1
  <1> QED
    BY <1>2 DEF AloneInv, Alone

(***************************************************************************)
(* The theorems                                                            *)
(***************************************************************************)
LEMMA InitInv == Init => IInv
  <1> SUFFICES ASSUME Init PROVE IInv
    OBVIOUS
  <1>1. Missing \in Entries /\ <<>> \in Seq(Commits)
    BY DEF Entries
  <1>2. repo \in Repos
    BY <1>1 DEF Init, Repos
  <1>3. SharedInv
    <2>1. bound \in Bounds /\ bound.edits \in Nat
      BY ReplayBounds DEF Init
    <2>2. source \in {Missing, Torn, "good"} /\ claimed \in BOOLEAN
      BY DEF Init
    <2>3. dirs \in [Tasks -> Directories \cup {Missing}]
      <3> HIDE DEF Directories
      <3> QED
        BY DEF Init
    <2>4. edits \in [Tasks -> Nat] /\ changes = 0
      BY DEF Init
    <2>5. changes \in Nat /\ changes <= bound.edits
      BY <2>1, <2>4
    <2> QED
      BY <1>2, <2>1, <2>2, <2>3, <2>4, <2>5 DEF SharedInv
  <1>4. LocalInv
    <2>1. NoReceipt \in Receipts
      BY DEF NoReceipt, Receipts, Runs
    <2>2. 0 \in 0 .. NumTasks
      BY TaskCount
    <2>3. <<>> \in Seq([base : Made, gold : Made]) /\ <<>> \in Seq(Receipts)
      OBVIOUS
    <2> HIDE DEF Made, Commits, Receipts, Verifiers
    <2> QED
      BY <1>1, <2>1, <2>2, <2>3 DEF Init, LocalInv, Stages
  <1>5. ASSUME NEW p \in Procs
        PROVE  /\ pc[p] = "idle" /\ code[p] = Missing /\ step[p] = 0 /\ tasks[p] = <<>>
               /\ receipts[p] = <<>> /\ used[p] = [k \in Tasks |-> {}]
    BY <1>5 DEF Init
  <1>e. ASSUME NEW p \in Procs PROVE DOMAIN receipts[p] = {} /\ DOMAIN tasks[p] = {}
    <2>1. DOMAIN <<>> = {}
      OBVIOUS
    <2> QED
      BY <1>5, <2>1
  <1>6. ASSUME NEW p \in Procs PROVE BuildInv(p) /\ TaskInv(p)
    <2>1. BuildInv(p)
      BY <1>5 DEF BuildInv, Committing, Replaying
    <2>2. TaskInv(p)
      BY <1>5, <1>e, StageSets DEF TaskInv
    <2> QED
      BY <2>1, <2>2
  <1>7. ASSUME NEW p \in Procs PROVE OwnerInv(p) /\ ZeroInv(p)
    <2>1. Missing # 0
      <3>1. 0 \in 0 .. 2
        OBVIOUS
      <3> QED
        BY <3>1, MissingIsNoValue
    <2>2. \A q \in Procs : ~Owner(q)
      BY <1>5, <2>1 DEF Owner, Replaying
    <2> QED
      BY <1>5, <2>1, <2>2 DEF OwnerInv, ZeroInv
  <1>8. ASSUME NEW p \in Procs PROVE VerifierInv(p)
    <2>1. \A k \in Tasks : used[p][k] = {}
      BY <1>5
    <2> QED
      BY <1>5, <1>e, <2>1, StageSets DEF VerifierInv
  <1>9. ASSUME NEW p \in Procs PROVE AloneInv(p)
    <2>1. repo.head = <<>>
      BY DEF Init
    <2>2. AloneBuilding(p)
      <3> HIDE DEF Log
      <3> QED
        BY <1>5, <1>e, <2>1 DEF AloneBuilding, Committing, Replaying
    <2>3. AloneReplaying(p)
      <3> HIDE DEF Clean, Expected
      <3> QED
        BY <1>5, <1>e, StageSets DEF AloneReplaying
    <2> QED
      BY <2>2, <2>3 DEF AloneInv
  <1> QED
    BY <1>3, <1>4, <1>6, <1>7, <1>8, <1>9 DEF IInv, TypeInv

LEMMA StepInv == IInv /\ [Next]_vars => IInv'
  <1> SUFFICES ASSUME IInv, [Next]_vars PROVE IInv'
    OBVIOUS
  <1>1. TypeInv /\ Owners
        /\ \A p \in Procs : ZeroInv(p) /\ VerifierInv(p) /\ AloneInv(p)
    BY DEF IInv, Owners
  <1>2. ASSUME NEW p \in Procs, Step(p) PROVE IInv'
    <2>1. TypeInv' /\ Owners'
      BY <1>1, <1>2, TypeStep, OwnerStep
    <2>2. ASSUME NEW q \in Procs PROVE VerifierInv(q)'
      <3>1. CASE q = p
        BY <1>1, <1>2, <3>1, VerifierOwn
      <3>2. CASE q # p
        <4>1. VerifierOthers(q)
          BY <1>1, <1>2, <3>2, LocalStep, DirsStep, DirsOfOthers DEF VerifierOthers, environment
        <4> QED
          BY <1>1, <4>1, VerifierKept
      <3> QED
        BY <3>1, <3>2
    <2>3. \A q \in Procs : ZeroInv(q)' /\ AloneInv(q)'
      BY <1>1, <1>2, ZeroStep, AloneStep
    <2> QED
      BY <2>1, <2>2, <2>3 DEF IInv, Owners
  <1>3. ASSUME NEW k \in Tasks, Edit(k) PROVE IInv'
    <2>1. Untouched
      BY <1>1, <1>3, EditStep
    <2>2. TypeInv' /\ Owners'
      BY <1>1, <1>3, <2>1, TypeEdit, OwnerEdit
    <2>3. \A q \in Procs : ZeroInv(q)' /\ VerifierInv(q)' /\ AloneInv(q)'
      BY <1>1, <1>3, <2>1, ZeroEdit, VerifierEdit, AloneEdit
    <2> QED
      BY <2>2, <2>3 DEF IInv, Owners
  <1>4. CASE UNCHANGED vars
    <2>1. UNCHANGED <<repo, source, step, base, tasks, dirs, receipt, receipts, used, claimed,
                      out, pc, code, edits, changes, bound>>
      BY <1>4 DEF vars, building, replaying, environment
    <2>2. SharedInv' /\ LocalInv' /\ Grown
      BY <1>1, <2>1 DEF TypeInv, SharedInv, LocalInv, Grown
    <2>3. \A q \in Procs : Same(q)
      BY <2>1 DEF Same
    <2>4. TypeInv'
      BY <1>1, <2>2, <2>3, BuildOthers, TaskOthers DEF TypeInv
    <2>5. Untouched
      BY <2>1 DEF Untouched, building
    <2>6. Owners' /\ \A q \in Procs : ZeroInv(q)'
      BY <1>1, <2>5, OwnerEdit, ZeroEdit
    <2>7. \A q \in Procs : VerifierInv(q)'
      BY <1>1, <2>1, <2>3, VerifierKept DEF VerifierOthers
    <2>8. ASSUME NEW q \in Procs PROVE AloneInv(q)'
      <3>1. Alone(q)' => Alone(q)
        BY <2>1 DEF Alone
      <3> QED
        BY <1>1, <2>1, <2>3, <3>1, AloneKept DEF AloneInv
    <2> QED
      BY <2>4, <2>6, <2>7, <2>8 DEF IInv, Owners
  <1> QED
    BY <1>2, <1>3, <1>4 DEF Next

\* The inductive invariant holds throughout controlled-replay.
THEOREM ReplayInvariant == Spec => []IInv
  BY InitInv, StepInv, PTL DEF Spec

\* Every variable has its type; each stage of a replay has what it needs.
THEOREM TypeCorrect == Spec => []TypeOK
  <1>1. IInv => TypeOK
    <2> SUFFICES ASSUME IInv PROVE TypeOK
      OBVIOUS
    <2>1. SharedInv /\ LocalInv /\ \A p \in Procs : BuildInv(p) /\ TaskInv(p)
      BY DEF IInv, TypeInv
    <2>2. repo.module \in Modules \cup {Missing} /\ repo.index \in Modules \cup {Missing}
      BY <2>1 DEF SharedInv, Repos, Entries
    <2>3. ASSUME NEW p \in Procs
          PROVE  /\ pc[p] \in Replaying => Len(tasks[p]) = NumTasks
                 /\ pc[p] \in Replaying \ {"stage", "open receipt", "write receipt", "print"} =>
                       dirs[Task(p)] # Missing
      BY <2>1 DEF BuildInv, TaskInv, Placed, InTask
    <2> QED
      BY <2>1, <2>2, <2>3 DEF TypeOK, SharedInv, LocalInv
  <1> QED
    BY <1>1, ReplayInvariant, PTL

\* However many processes are given the same directory, at whatever moment
\* they looked, one at most ever replays there.
THEOREM OneReplayer == Spec => []OneReplays
  <1>1. IInv => OneReplays
    <2> SUFFICES ASSUME IInv, NEW p \in Procs, NEW q \in Procs, p # q, pc[p] \in Replaying
                 PROVE  pc[q] \notin Replaying /\ receipts[q] = <<>>
      BY DEF OneReplays
    <2>1. Owner(p) /\ ~Owner(q)
      BY DEF IInv, OwnerInv, Owner
    <2> QED
      BY <2>1 DEF Owner
  <1> QED
    BY <1>1, ReplayInvariant, PTL

\* Status 0 means a whole receipt of every task, the process's own, with runs
\* that all failed on the base and all passed on the gold workspace.
THEOREM WholeReceipt == Spec => []ZeroIsWhole
  <1>1. IInv => ZeroIsWhole
    <2> SUFFICES ASSUME IInv, NEW p \in Procs, code[p] = 0
                 PROVE  /\ out = [by |-> p, receipts |-> receipts[p]]
                        /\ Len(receipts[p]) = NumTasks
                        /\ \A k \in Tasks :
                              /\ "pass" \notin ToSet(receipts[p][k].base_runs)
                              /\ ToSet(receipts[p][k].gold_runs) = {"pass"}
      BY DEF ZeroIsWhole
    <2>1. ZeroInv(p) /\ TaskInv(p) /\ receipts[p] \in Seq(Receipts)
      BY DEF IInv, TypeInv, LocalInv
    <2>2. out = [by |-> p, receipts |-> receipts[p]] /\ Len(receipts[p]) = NumTasks
          /\ \A k \in DOMAIN receipts[p] : GatePassed(receipts[p][k])
      <3> HIDE DEF GatePassed
      <3> QED
        BY <2>1 DEF ZeroInv
    <2>3. ASSUME NEW k \in Tasks
          PROVE  /\ "pass" \notin ToSet(receipts[p][k].base_runs)
                 /\ ToSet(receipts[p][k].gold_runs) = {"pass"}
      <3>1. k \in DOMAIN receipts[p]
        BY <2>1, <2>2 DEF Tasks
      <3>2. /\ \A i \in DOMAIN receipts[p][k].base_runs :
                  receipts[p][k].base_runs[i] # "pass"
            /\ \A i \in DOMAIN receipts[p][k].gold_runs :
                  receipts[p][k].gold_runs[i] = "pass"
        BY <2>2, <3>1 DEF GatePassed, BaseFails, GoldPasses
      <3>3. receipts[p][k].gold_runs \in Seq({"pass", "fail", "exception"})
            /\ Len(receipts[p][k].gold_runs) = Repetitions
        <4>1. receipts[p][k] \in Receipts
          BY <2>1, <3>1
        <4> QED
          BY <2>1, <3>1, <4>1 DEF TaskInv, Receipts, Runs
      <3>4. 1 \in DOMAIN receipts[p][k].gold_runs
        BY <3>3 DEF Repetitions
      <3> QED
        BY <3>2, <3>4 DEF ToSet
    <2> QED
      BY <2>2, <2>3
  <1> QED
    BY <1>1, ReplayInvariant, PTL

\* However the one change of another program in a task's directory is placed
\* among the hashes and the runs, a passed gate names the verifier that ran.
THEOREM RecordedVerifier == Spec => []VerifierIsRecorded
  <1>1. IInv => VerifierIsRecorded
    <2> SUFFICES ASSUME IInv, NEW p \in Procs, NEW k \in DOMAIN receipts[p],
                        edits[k] <= 1, GatePassed(receipts[p][k])
                 PROVE  used[p][k] = {receipts[p][k].verifier}
      BY DEF VerifierIsRecorded
    <2>1. receipts[p][k].unchanged
      BY DEF GatePassed
    <2>2. VerifierInv(p)
      BY DEF IInv
    <2>3. edits[k] <= 1 /\ receipts[p][k].unchanged =>
             used[p][k] = {receipts[p][k].verifier}
      BY <2>2 DEF VerifierInv
    <2> QED
      BY <2>1, <2>3
  <1> QED
    BY <1>1, ReplayInvariant, PTL

\* A command that nobody disturbs records the same commits and receipts
\* whenever it is run.
THEOREM StableReceipts == Spec => []ReceiptsAreStable
  <1>1. IInv => ReceiptsAreStable
    <2> SUFFICES ASSUME IInv, NEW p \in Procs, changes = 0,
                        \A q \in Procs \ {p} : pc[q] = "idle" \/ code[q] = 2
                 PROVE  /\ \A k \in DOMAIN tasks[p] : \A n \in DOMAIN tasks[p][k].gold :
                              tasks[p][k].gold[n] = [tree |-> 1 .. (n - 1), sequence |-> n - 1]
                        /\ \A k \in DOMAIN receipts[p] : receipts[p][k] = Expected(k)
      BY DEF ReceiptsAreStable
    <2>1. AloneBuilding(p) /\ AloneReplaying(p)
      BY DEF IInv, AloneInv, Alone
    <2>2. ASSUME NEW k \in DOMAIN tasks[p], NEW n \in DOMAIN tasks[p][k].gold
          PROVE  tasks[p][k].gold[n] = [tree |-> 1 .. (n - 1), sequence |-> n - 1]
      <3>1. tasks[p][k].gold = Log(k + 1)
        <4> HIDE DEF Log
        <4>1. tasks[p][k] = [base |-> Log(k), gold |-> Log(k + 1)]
          BY <2>1 DEF AloneBuilding
        <4> QED
          BY <4>1
      <3> QED
        BY <3>1 DEF Log
    <2>3. \A k \in DOMAIN receipts[p] : receipts[p][k] = Expected(k)
      BY <2>1 DEF AloneReplaying
    <2> QED
      BY <2>2, <2>3
  <1> QED
    BY <1>1, ReplayInvariant, PTL

=============================================================================
