------------------------------- MODULE Replay -------------------------------
(***************************************************************************)
(* The command "controlled-replay": _controlled_replay of                  *)
(* src/src/reposeal/__main__.py, build_controlled_repository of            *)
(* controlled.py, replay_suite and replay_task of replay.py.               *)
(*                                                                         *)
(* Several processes may be given the same output directory, any of them   *)
(* may be killed, and another program may change a workspace or a staged   *)
(* verifier.  A commit is its history, as its object ID is.                *)
(***************************************************************************)
EXTENDS VerifierRuns, Sequences, FiniteSets, SequencesExt

CONSTANTS
    Procs,      \* processes running the command
    Bounds      \* bounds, one for each run: processes that start and changes
                \* the other program makes

ASSUME ReplayBounds == Bounds \subseteq [processes : Nat, edits : Nat]

VARIABLES
    repo,       \* the output directory and its Git repository
    source,     \* trusted/trusted_verifier.py
    claimed,    \* does replay/ exist?
    dirs,       \* the directory of each task: workspaces and staged verifier
    out,        \* receipt.json
    pc,         \* where each process is
    code,       \* its exit status
    step,       \* commits made by the loop of build_controlled_repository
    base,       \* base_commit of the task being built
    tasks,      \* the ReplayTasks built so far
    receipt,    \* the ReplayReceipt in the making
    receipts,   \* the receipts of the tasks replayed
    edits,      \* changes the other program made in each task's directory
    changes,    \* and in all
    bound,      \* the bounds of this run
    used        \* history: the verifiers each task's runs were made with

building == <<repo, source, step, base, tasks>>
replaying == <<dirs, receipt, receipts, used>>
environment == <<edits, changes, bound>>
vars == <<building, replaying, claimed, out, pc, code, environment>>

Building == {"empty", "init", "truncate", "write", "add", "commit", "base", "gold",
             "check source", "create source", "write source", "claim"}
Replaying == {"stage", "snapshot base", "snapshot gold", "hash", "run base",
              "run gold", "sources", "mode", "unchanged", "digest base",
              "digest gold", "open receipt", "write receipt", "print"}

\* The directory replay/task-<k>.
Directories == [verifier : Verifiers, writable : BOOLEAN,
                base : Workspaces \cup {Missing}, gold : Workspaces \cup {Missing}]

ASSUME MissingIsNoValue ==
    /\ Missing \notin Directories /\ Missing \notin Verifiers
    /\ \A n \in 0 .. 2 : Missing # n

NoReceipt == [verifier |-> Missing, base |-> Missing, gold |-> Missing,
              base_runs |-> <<>>, gold_runs |-> <<>>, source_only |-> FALSE,
              read_only |-> FALSE, unchanged |-> FALSE]

Init ==
    /\ repo = [made |-> FALSE, git |-> FALSE, module |-> Missing,
               index |-> Missing, head |-> <<>>]
    /\ source = Missing /\ claimed = FALSE /\ out = Missing
    /\ dirs = [k \in Tasks |-> Missing]
    /\ pc = [p \in Procs |-> "idle"] /\ code = [p \in Procs |-> Missing]
    /\ step = [p \in Procs |-> 0] /\ base = [p \in Procs |-> <<>>]
    /\ tasks = [p \in Procs |-> <<>>]
    /\ receipt = [p \in Procs |-> NoReceipt] /\ receipts = [p \in Procs |-> <<>>]
    /\ edits = [k \in Tasks |-> 0] /\ changes = 0 /\ bound \in Bounds
    /\ used = [p \in Procs |-> [k \in Tasks |-> {}]]

Goto(p, stage) == pc' = [pc EXCEPT ![p] = stage] /\ UNCHANGED code
Exit(p, status) == /\ pc' = [pc EXCEPT ![p] = "ended"]
                   /\ code' = [code EXCEPT ![p] = status]

\* The module a commit holds.
Tree(commit) == IF commit = <<>> THEN Missing ELSE commit[Len(commit)].tree

(***************************************************************************)
(* build_controlled_repository                                             *)
(***************************************************************************)
Start(p) ==
    /\ pc[p] = "idle" /\ Cardinality({q \in Procs : pc[q] # "idle"}) < bound.processes
    /\ IF repo.made THEN Exit(p, 2) ELSE Goto(p, "empty")
    /\ UNCHANGED <<building, replaying, claimed, out, environment>>

\* The directory may exist as long as it is empty.
MakeRepository(p) ==
    /\ pc[p] = "empty"
    /\ IF repo.git THEN Exit(p, 1) /\ UNCHANGED repo
                   ELSE repo' = [repo EXCEPT !.made = TRUE] /\ Goto(p, "init")
    /\ UNCHANGED <<source, step, base, tasks, replaying, claimed, out, environment>>

\* git init does no harm to a repository that exists.
GitInit(p) ==
    /\ pc[p] = "init"
    /\ repo' = [repo EXCEPT !.git = TRUE]
    /\ Goto(p, "truncate")
    /\ UNCHANGED <<source, step, base, tasks, replaying, claimed, out, environment>>

\* _write_module: write_text empties the file and then writes it; two writers
\* at once may leave a mixture.
TruncateModule(p) ==
    /\ pc[p] = "truncate"
    /\ repo' = [repo EXCEPT !.module = Torn]
    /\ Goto(p, "write")
    /\ UNCHANGED <<source, step, base, tasks, replaying, claimed, out, environment>>

FillModule(p) ==
    /\ pc[p] = "write"
    /\ \E m \in {Repaired(step[p])} \cup (IF repo.module = Torn THEN {} ELSE {Torn}) :
          repo' = [repo EXCEPT !.module = m]
    /\ Goto(p, "add")
    /\ UNCHANGED <<source, step, base, tasks, replaying, claimed, out, environment>>

GitAdd(p) ==
    /\ pc[p] = "add"
    /\ repo' = [repo EXCEPT !.index = repo.module]
    /\ Goto(p, "commit")
    /\ UNCHANGED <<source, step, base, tasks, replaying, claimed, out, environment>>

\* git commit takes what is in the index, whoever added it, and fails when
\* that is what HEAD has already.
GitCommit(p) ==
    /\ pc[p] = "commit"
    /\ repo.index = Torn \/ repo.index # Tree(repo.head)
    /\ repo' = [repo EXCEPT !.head =
                  Append(@, [tree |-> repo.index, sequence |-> step[p]])]
    /\ Goto(p, IF step[p] = 0 THEN "base" ELSE "gold")
    /\ UNCHANGED <<source, step, base, tasks, replaying, claimed, out, environment>>

\* git rev-parse HEAD, before the next function is repaired ...
RevParseBase(p) ==
    /\ pc[p] = "base"
    /\ base' = [base EXCEPT ![p] = repo.head]
    /\ step' = [step EXCEPT ![p] = @ + 1]
    /\ Goto(p, "truncate")
    /\ UNCHANGED <<repo, source, tasks, replaying, claimed, out, environment>>

\* Mutant of LastFix: the loop ends one task early.
LastButOne(p) == step[p] >= NumTasks - 1

LastFix(p) == step[p] = NumTasks

\* ... and after; ReplayTask refuses two equal commits.
RevParseGold(p) ==
    /\ pc[p] = "gold"
    /\ IF repo.head = base[p] THEN Exit(p, 1) /\ UNCHANGED tasks
       ELSE /\ tasks' = [tasks EXCEPT ![p] =
                            Append(@, [base |-> base[p], gold |-> repo.head])]
            /\ Goto(p, IF LastFix(p) THEN "check source" ELSE "base")
    /\ UNCHANGED <<repo, source, step, base, replaying, claimed, out, environment>>

(***************************************************************************)
(* write_trusted_verifier                                                  *)
(***************************************************************************)
CheckSource(p) ==
    /\ pc[p] = "check source"
    /\ IF source = Missing THEN Goto(p, "create source") ELSE Exit(p, 1)
    /\ UNCHANGED <<building, replaying, claimed, out, environment>>

WriteSource(p) ==
    /\ \/ pc[p] = "create source" /\ source' = Torn /\ Goto(p, "write source")
       \/ pc[p] = "write source" /\ source' = "good" /\ Goto(p, "claim")
    /\ UNCHANGED <<repo, step, base, tasks, replaying, claimed, out, environment>>

(***************************************************************************)
(* replay_suite and replay_task                                            *)
(***************************************************************************)
\* Mutant of MayClaim: work_root.mkdir(exist_ok=True).
MayShare == TRUE

\* work_root must not exist; mkdir decides if two find it missing.
MayClaim == ~claimed

Claim(p) ==
    /\ pc[p] = "claim"
    /\ IF MayClaim THEN claimed' = TRUE /\ Goto(p, "stage")
                   ELSE Exit(p, 1) /\ UNCHANGED claimed
    /\ UNCHANGED <<building, replaying, out, environment>>

Task(p) == Len(receipts[p]) + 1

StageVerifier(p) ==
    /\ pc[p] = "stage"
    /\ IF dirs[Task(p)] = Missing
         THEN /\ dirs' = [dirs EXCEPT ![Task(p)] =
                     [verifier |-> source, writable |-> FALSE,
                      base |-> Missing, gold |-> Missing]]
              /\ receipt' = [receipt EXCEPT ![p] = NoReceipt]
              /\ Goto(p, "snapshot base")
         ELSE Exit(p, 1) /\ UNCHANGED <<dirs, receipt>>
    /\ UNCHANGED <<building, claimed, out, receipts, environment, used>>

\* Mutant of Snapshot: the worktree is copied instead of the commit's tree.
Copied(commit) == [module |-> repo.module, extra |-> "none"]

\* snapshot_commit: git archive of the commit, extracted into a new directory.
Snapshot(commit) == [module |-> Tree(commit), extra |-> "none"]

SnapshotBase(p) ==
    /\ pc[p] = "snapshot base" /\ dirs[Task(p)].base = Missing
    /\ dirs' = [dirs EXCEPT ![Task(p)].base = Snapshot(tasks[p][Task(p)].base)]
    /\ Goto(p, "snapshot gold")
    /\ UNCHANGED <<building, claimed, out, receipt, receipts, environment, used>>

SnapshotGold(p) ==
    /\ pc[p] = "snapshot gold" /\ dirs[Task(p)].gold = Missing
    /\ dirs' = [dirs EXCEPT ![Task(p)].gold = Snapshot(tasks[p][Task(p)].gold)]
    /\ Goto(p, "hash")
    /\ UNCHANGED <<building, claimed, out, receipt, receipts, environment, used>>

\* What is recorded in the receipt of the task at hand.
Records(p, r) ==
    /\ receipt' = [receipt EXCEPT ![p] = r]
    /\ UNCHANGED <<building, claimed, out, dirs, receipts, environment>>

HashVerifier(p) ==
    /\ pc[p] = "hash"
    /\ Records(p, [receipt[p] EXCEPT !.verifier = dirs[Task(p)].verifier])
    /\ Goto(p, "run base") /\ UNCHANGED used

\* _run_verifier_once on one of the workspaces.
RunOn(p, workspace) ==
    /\ used' = [used EXCEPT ![p][Task(p)] = @ \cup {dirs[Task(p)].verifier}]
    /\ \E answer \in Answers(dirs[Task(p)].verifier, workspace.module, Task(p)) :
          \/ /\ pc[p] = "run base"
             /\ Records(p, [receipt[p] EXCEPT !.base_runs = Append(@, answer)])
             /\ Goto(p, IF Len(receipt'[p].base_runs) = Repetitions
                          THEN "run gold" ELSE "run base")
          \/ /\ pc[p] = "run gold"
             /\ Records(p, [receipt[p] EXCEPT !.gold_runs = Append(@, answer)])
             /\ Goto(p, IF Len(receipt'[p].gold_runs) = Repetitions
                          THEN "sources" ELSE "run gold")

RunVerifier(p) ==
    \/ pc[p] = "run base" /\ RunOn(p, dirs[Task(p)].base)
    \/ pc[p] = "run gold" /\ RunOn(p, dirs[Task(p)].gold)

CheckSources(p) ==
    /\ pc[p] = "sources"
    /\ Records(p, [receipt[p] EXCEPT !.source_only =
           "git" \notin {dirs[Task(p)].base.extra, dirs[Task(p)].gold.extra}])
    /\ Goto(p, "mode") /\ UNCHANGED used

CheckMode(p) ==
    /\ pc[p] = "mode"
    /\ Records(p, [receipt[p] EXCEPT !.read_only = ~dirs[Task(p)].writable])
    /\ Goto(p, "unchanged") /\ UNCHANGED used

\* Mutant of Unchanged: a verifier that is still read-only counts as unchanged.
StillReadOnly(p) == ~dirs[Task(p)].writable

Unchanged(p) == dirs[Task(p)].verifier = receipt[p].verifier

CheckUnchanged(p) ==
    /\ pc[p] = "unchanged"
    /\ Records(p, [receipt[p] EXCEPT !.unchanged = Unchanged(p)])
    /\ Goto(p, "digest base") /\ UNCHANGED used

\* tree_sha256 of the workspaces as they are after the runs; it refuses links.
DigestBase(p) ==
    /\ pc[p] = "digest base" /\ dirs[Task(p)].base.extra # "link"
    /\ Records(p, [receipt[p] EXCEPT !.base = dirs[Task(p)].base])
    /\ Goto(p, "digest gold") /\ UNCHANGED used

DigestGold(p) ==
    /\ pc[p] = "digest gold" /\ dirs[Task(p)].gold.extra # "link"
    /\ receipts' = [receipts EXCEPT ![p] =
           Append(@, [receipt[p] EXCEPT !.gold = dirs[Task(p)].gold])]
    /\ Goto(p, IF Task(p) = NumTasks THEN "open receipt" ELSE "stage")
    /\ UNCHANGED <<building, claimed, out, dirs, receipt, environment, used>>

(***************************************************************************)
(* ReplayReceipt and the exit status                                       *)
(***************************************************************************)
BaseFails(r) == \A i \in DOMAIN r.base_runs : r.base_runs[i] # "pass"
GoldPasses(r) == \A i \in DOMAIN r.gold_runs : r.gold_runs[i] = "pass"

\* Mutant of GatePassed: the repetitions of the base are not required to fail.
GateOnGold(r) ==
    /\ GoldPasses(r)
    /\ Identical(r.base_runs) /\ Identical(r.gold_runs)
    /\ r.source_only /\ r.read_only /\ r.unchanged

\* gate_passed; the verifier is outside of the workspaces by its path.
GatePassed(r) ==
    /\ BaseFails(r) /\ GoldPasses(r)
    /\ Identical(r.base_runs) /\ Identical(r.gold_runs)
    /\ r.source_only /\ r.read_only /\ r.unchanged

OpenReceipt(p) ==
    /\ pc[p] = "open receipt"
    /\ out' = [by |-> p, receipts |-> Torn]
    /\ Goto(p, "write receipt")
    /\ UNCHANGED <<building, replaying, claimed, environment>>

WriteReceipt(p) ==
    /\ pc[p] = "write receipt"
    /\ out' = [by |-> p, receipts |-> receipts[p]]
    /\ Goto(p, "print")
    /\ UNCHANGED <<building, replaying, claimed, environment>>

PrintReceipt(p) ==
    /\ pc[p] = "print"
    /\ Exit(p, IF /\ \A k \in DOMAIN receipts[p] : GatePassed(receipts[p][k])
                  /\ Len(receipts[p]) = NumTasks
               THEN 0 ELSE 1)
    /\ UNCHANGED <<building, replaying, claimed, out, environment>>

\* A Git command, a verifier or a system call fails, times out or is refused,
\* or the process is killed: the status is 1, caught or not, or that of the
\* signal, for which 1 stands here too, and what was made stays.
Fail(p) ==
    /\ pc[p] \in Building \cup Replaying
    /\ Exit(p, 1)
    /\ UNCHANGED <<building, replaying, claimed, out, environment>>

(***************************************************************************)
(* Another program                                                         *)
(***************************************************************************)
\* It replaces a staged verifier or makes it writable, changes a module or adds
\* an entry to a workspace.
Edit(k) ==
    /\ changes < bound.edits /\ changes' = changes + 1
    /\ edits' = [edits EXCEPT ![k] = @ + 1]
    /\ dirs[k] # Missing
    /\ \/ \E v \in Verifiers \ {dirs[k].verifier} : dirs' = [dirs EXCEPT ![k].verifier = v]
       \/ dirs' = [dirs EXCEPT ![k].writable = ~@]
       \/ /\ dirs[k].base # Missing
          /\ \E w \in Workspaces : Altered(dirs[k].base, w) /\ dirs' = [dirs EXCEPT ![k].base = w]
       \/ /\ dirs[k].gold # Missing
          /\ \E w \in Workspaces : Altered(dirs[k].gold, w) /\ dirs' = [dirs EXCEPT ![k].gold = w]
    /\ UNCHANGED <<building, claimed, out, pc, code, receipt, receipts, used, bound>>

Step(p) == \/ Start(p) \/ MakeRepository(p) \/ GitInit(p)
           \/ TruncateModule(p) \/ FillModule(p) \/ GitAdd(p) \/ GitCommit(p)
           \/ RevParseBase(p) \/ RevParseGold(p)
           \/ CheckSource(p) \/ WriteSource(p) \/ Claim(p)
           \/ StageVerifier(p) \/ SnapshotBase(p) \/ SnapshotGold(p)
           \/ HashVerifier(p) \/ RunVerifier(p)
           \/ CheckSources(p) \/ CheckMode(p) \/ CheckUnchanged(p)
           \/ DigestBase(p) \/ DigestGold(p)
           \/ OpenReceipt(p) \/ WriteReceipt(p) \/ PrintReceipt(p)
           \/ Fail(p)

Next == \/ \E p \in Procs : Step(p)
        \/ \E k \in Tasks : Edit(k)

Spec == Init /\ [][Next]_vars

(***************************************************************************)
(* Properties                                                              *)
(***************************************************************************)
Stages == Building \cup Replaying \cup {"idle", "ended"}

\* Every variable has its type; each stage of a replay has what it needs.
TypeOK ==
    /\ pc \in [Procs -> Stages] /\ code \in [Procs -> {0, 1, 2, Missing}]
    /\ repo.module \in Modules \cup {Missing} /\ repo.index \in Modules \cup {Missing}
    /\ source \in {Missing, Torn, "good"}
    /\ step \in [Procs -> 0 .. NumTasks] /\ changes <= bound.edits
    /\ dirs \in [Tasks -> Directories \cup {Missing}]
    /\ \A p \in Procs :
          /\ pc[p] \in Replaying => Len(tasks[p]) = NumTasks
          /\ pc[p] \in Replaying \ {"stage", "open receipt", "write receipt", "print"} =>
                dirs[Task(p)] # Missing

\* What is recorded of task k when nobody interferes.
Expected(k) ==
    [verifier |-> "good", unchanged |-> TRUE, read_only |-> TRUE, source_only |-> TRUE,
     base |-> [module |-> 1 .. (k - 1), extra |-> "none"],
     gold |-> [module |-> 1 .. k, extra |-> "none"],
     base_runs |-> [i \in 1 .. Repetitions |-> "fail"],
     gold_runs |-> [i \in 1 .. Repetitions |-> "pass"]]

\* A command that is alone records the same receipts whenever it is run, of
\* commits that are the same too (docs/m1-controlled-replay.md:7: the receipt
\* has a stable digest).
ReceiptsAreStable ==
    \A p \in Procs : changes = 0 /\ (\A q \in Procs \ {p} : pc[q] = "idle" \/ code[q] = 2) =>
        /\ \A k \in DOMAIN tasks[p] : \A n \in DOMAIN tasks[p][k].gold :
              tasks[p][k].gold[n] = [tree |-> 1 .. (n - 1), sequence |-> n - 1]
        /\ \A k \in DOMAIN receipts[p] : receipts[p][k] = Expected(k)

\* However many processes are given the same directory, at whatever moment
\* they looked, one at most ever replays there; the others leave what it has
\* written alone.
OneReplays ==
    \A p, q \in Procs : p # q /\ pc[p] \in Replaying =>
        pc[q] \notin Replaying /\ receipts[q] = <<>>

\* Status 0 means a whole receipt of every task, the process's own, with runs
\* that all failed on the base and all passed on the gold workspace.
ZeroIsWhole ==
    \A p \in Procs : code[p] = 0 =>
        /\ out = [by |-> p, receipts |-> receipts[p]]
        /\ Len(receipts[p]) = NumTasks
        /\ \A k \in Tasks :
              /\ "pass" \notin ToSet(receipts[p][k].base_runs)
              /\ ToSet(receipts[p][k].gold_runs) = {"pass"}

\* If the other program changed at most one thing in a task's directory, and
\* whenever it did, a passed gate names the verifier every run was made with.
VerifierIsRecorded ==
    \A p \in Procs : \A k \in DOMAIN receipts[p] :
        edits[k] <= 1 /\ GatePassed(receipts[p][k]) =>
            used[p][k] = {receipts[p][k].verifier}

\* docs/m1-controlled-replay.md:69: the gate asserts that "adjacent gold/base
\* snapshot digests form one continuous commit chain".
ContinuousChain ==
    \A p \in Procs : code[p] = 0 =>
        \A k \in 1 .. NumTasks - 1 : receipts[p][k].gold = receipts[p][k + 1].base
=============================================================================
