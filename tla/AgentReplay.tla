---------------------------- MODULE AgentReplay ----------------------------
(***************************************************************************)
(* The command "controlled-agent-replay": _controlled_agent_replay of      *)
(* src/src/reposeal/__main__.py and replay_controlled_agent_suite of       *)
(* controlled_agent.py, over the patch boundary of agent_boundary.py,      *)
(* which is used here through its contract, PatchContract.                 *)
(*                                                                         *)
(* The repository has been built (see Replay).  Tasks are replayed one     *)
(* after the other, each in a directory of its own, so only the directory  *)
(* of the task at hand is kept.  Another program may change its workspace, *)
(* its staged verifier or the adapter script.                              *)
(***************************************************************************)
EXTENDS VerifierRuns, Sequences

CONSTANT MaxEdits  \* bound: changes the other program makes

ASSUME EditBound == MaxEdits \in Nat

VARIABLES
    pc,         \* where the command is
    code,       \* its exit status
    candidate,  \* the workspace of the task at hand
    adapter,    \* the adapter script
    verifier,   \* the staged verifier and whether it is writable
    content,    \* the content of the artifact's replacement
    todo, call, \* the call of apply_patch_artifact (see PatchContract)
    receipt,    \* the ControlledAgentReceipt in the making
    receipts,   \* the receipts of the tasks replayed
    out,        \* receipt.json
    edits,      \* changes the other program made, by task
    changes,    \* and in all
    moved,      \* history: was a task's workspace changed after its validation?
    used        \* history: a task's runs, their verifiers and if they saw the fix

patching == <<content, todo, call>>
inputs == <<candidate, adapter, verifier>>
history == <<edits, changes, moved, used>>
vars == <<pc, code, inputs, patching, receipt, receipts, out, history>>

Stages == {"build", "extract", "digest", "capture tree", "capture files", "adapter",
           "hash adapter", "validate", "install", "return", "stage", "hash verifier",
           "run", "names", "mode", "unchanged", "digest patched", "open receipt",
           "write receipt", "print", "ended"}

\* trusted_verifier.py is looked for in the workspace too.
Candidates == [module : Modules, extra : Extras \cup {"verifier"}]
StagedVerifiers == [code : Verifiers, writable : BOOLEAN]

ASSUME MissingIsNoFile == Missing \notin StagedVerifiers

NoReceipt == [base |-> Missing, tree |-> Missing, seen |-> Missing, content |-> Missing,
              patched |-> Missing, adapter |-> Missing, verifier |-> Missing,
              runs |-> <<>>, source_only |-> FALSE, read_only |-> FALSE,
              unchanged |-> FALSE]

Task == Len(receipts) + 1

Init ==
    /\ pc = "build" /\ code = Missing
    /\ candidate = Missing /\ adapter = "mock" /\ verifier = Missing
    /\ content = Missing /\ todo = <<>> /\ call = "idle"
    /\ receipt = NoReceipt /\ receipts = <<>> /\ out = Missing
    /\ edits = [k \in Tasks |-> 0] /\ changes = 0 /\ moved = [k \in Tasks |-> FALSE]
    /\ used = [k \in Tasks |-> {}]

Goto(stage) == pc' = stage /\ UNCHANGED code
Exit(status) == pc' = "ended" /\ code' = status

\* The output directory must not exist; Replay takes the building apart.
Build ==
    /\ pc = "build"
    /\ Exit(2) \/ Goto("extract")
    /\ UNCHANGED <<inputs, patching, receipt, receipts, out, history>>

\* snapshot_commit extracts base_commit into a new directory ...
Extract ==
    /\ pc = "extract"
    /\ candidate' = [module |-> Repaired(Task - 1), extra |-> "none"]
    /\ verifier' = Missing /\ content' = Missing /\ todo' = <<>> /\ call' = "idle"
    /\ receipt' = NoReceipt
    /\ Goto("digest")
    /\ UNCHANGED <<adapter, receipts, out, history>>

\* What is recorded in the receipt of the task at hand.
Records(r) ==
    /\ receipt' = r
    /\ UNCHANGED <<inputs, patching, receipts, out, edits, changes, moved>>

\* ... and digests what it finds there, unless that is a link or Git's data.
DigestBase ==
    /\ pc = "digest" /\ candidate.extra \notin {"link", "git"}
    /\ Records([receipt EXCEPT !.base = candidate])
    /\ Goto("capture tree") /\ UNCHANGED used

(***************************************************************************)
(* capture_request and run_controlled_adapter                              *)
(***************************************************************************)
CaptureTree ==
    /\ pc = "capture tree" /\ candidate.extra # "link"
    /\ Records([receipt EXCEPT !.tree = candidate])
    /\ Goto("capture files") /\ UNCHANGED used

\* _require_safe_path refuses a component named .git.
CaptureFiles ==
    /\ pc = "capture files" /\ candidate.extra \notin {"link", "git"}
    /\ Records([receipt EXCEPT !.seen = candidate.module])
    /\ Goto("adapter") /\ UNCHANGED used

\* mock_agent.py repairs function k if the source it is given has that defect
\* once; a script that is not the mock may answer anything.
Repairs(script, seen, k) ==
    CASE script # "mock" -> Modules
      [] seen = Torn \/ k \in seen -> {}
      [] OTHER -> {seen \cup {k}}

RunAdapter ==
    /\ pc = "adapter"
    /\ \E answer \in Repairs(adapter, receipt.seen, Task) : content' = answer
    /\ Goto("hash adapter")
    /\ UNCHANGED <<inputs, todo, call, receipt, receipts, out, history>>

\* The digest of the script is taken when it has run.
HashAdapter ==
    /\ pc = "hash adapter"
    /\ Records([receipt EXCEPT !.adapter = adapter, !.content = content])
    /\ Goto("validate") /\ UNCHANGED used

(***************************************************************************)
(* apply_patch_artifact                                                    *)
(***************************************************************************)
Source == "toycalc.py"
Patch == INSTANCE PatchContract WITH
    Paths <- {Source}, Allowed <- {Source}, Modes <- {"kept"},
    files <- [path \in {Source} |-> [content |-> candidate.module, mode |-> "kept"]],
    others <- edits

\* Mutant of Applicable: the tree digest is not compared.
ApplicableToFile ==
    /\ candidate.module = receipt.seen
    /\ content # candidate.module

\* validate_patch_artifact: neither the tree nor the file has changed since
\* it was captured, and the replacement is no no-op.
Applicable ==
    /\ candidate.extra # "link" /\ candidate = receipt.tree
    /\ candidate.module = receipt.seen
    /\ content # candidate.module

ValidatePatch ==
    /\ pc = "validate" /\ Applicable
    /\ todo' = <<[path |-> Source, content |-> content]>>
    /\ UNCHANGED candidate /\ Patch!Accept
    /\ moved' = [moved EXCEPT ![Task] = FALSE]
    /\ Goto("install")
    /\ UNCHANGED <<adapter, verifier, content, receipt, receipts, out, changes, used>>

InstallPatch ==
    /\ pc = "install"
    /\ candidate' = [candidate EXCEPT !.module = content]
    /\ Patch!Install
    /\ Goto("return")
    /\ UNCHANGED <<adapter, verifier, content, receipt, receipts, out, changes, moved, used>>

ReturnPatch ==
    /\ pc = "return"
    /\ UNCHANGED candidate /\ Patch!Return
    /\ Goto("stage")
    /\ UNCHANGED <<adapter, verifier, content, receipt, receipts, out, changes, moved, used>>

(***************************************************************************)
(* The verifier                                                            *)
(***************************************************************************)
StageVerifier ==
    /\ pc = "stage"
    /\ verifier' = [code |-> "good", writable |-> FALSE]
    /\ Goto("hash verifier")
    /\ UNCHANGED <<candidate, adapter, patching, receipt, receipts, out, history>>

HashVerifier ==
    /\ pc = "hash verifier"
    /\ Records([receipt EXCEPT !.verifier = verifier.code])
    /\ Goto("run") /\ UNCHANGED used

\* Mutant of EnoughRuns: the loop ends one repetition early.
OneRun(runs) == Len(runs) = Repetitions - 1

EnoughRuns(runs) == Len(runs) = Repetitions

RunVerifier ==
    /\ pc = "run"
    /\ \E answer \in Answers(verifier.code, candidate.module, Task) :
          Records([receipt EXCEPT !.runs = Append(@, answer)])
    /\ used' = [used EXCEPT ![Task] = @ \cup
           {[verifier |-> verifier.code,
             fixed |-> candidate.module # Torn /\ Task \in candidate.module]}]
    /\ Goto(IF EnoughRuns(receipt'.runs) THEN "names" ELSE "run")

CheckNames ==
    /\ pc = "names"
    /\ Records([receipt EXCEPT !.source_only = candidate.extra \notin {"git", "verifier"}])
    /\ Goto("mode") /\ UNCHANGED used

CheckMode ==
    /\ pc = "mode"
    /\ Records([receipt EXCEPT !.read_only = ~verifier.writable])
    /\ Goto("unchanged") /\ UNCHANGED used

\* Mutant of Unchanged: a verifier that is still read-only counts as unchanged.
StillReadOnly == ~verifier.writable

Unchanged == verifier.code = receipt.verifier

CheckUnchanged ==
    /\ pc = "unchanged"
    /\ Records([receipt EXCEPT !.unchanged = Unchanged])
    /\ Goto("digest patched") /\ UNCHANGED used

\* Mutant of LastTask: the loop runs once more.
PastLastTask == Task > NumTasks

LastTask == Task = NumTasks

DigestPatched ==
    /\ pc = "digest patched" /\ candidate.extra # "link"
    /\ receipts' = Append(receipts, [receipt EXCEPT !.patched = candidate])
    /\ Goto(IF LastTask THEN "open receipt" ELSE "extract")
    /\ UNCHANGED <<inputs, patching, receipt, out, history>>

(***************************************************************************)
(* The receipt and the exit status                                         *)
(***************************************************************************)
\* contract_gate_passed; the verifier is outside of the workspace by its path,
\* a validated artifact has a path, and the other conditions are constants.
GatePassed(r) ==
    /\ \A i \in DOMAIN r.runs : r.runs[i] = "pass"
    /\ Len(r.runs) >= 2 /\ Identical(r.runs)
    /\ r.source_only /\ r.read_only /\ r.unchanged

\* security_gate_passed: UNMEASURED_M2A_CHECKS is not empty.
SecurityGatePassed == FALSE

OpenReceipt ==
    /\ pc = "open receipt" /\ out' = Torn
    /\ Goto("write receipt")
    /\ UNCHANGED <<inputs, patching, receipt, receipts, history>>

WriteReceipt ==
    /\ pc = "write receipt" /\ out' = receipts
    /\ Goto("print")
    /\ UNCHANGED <<inputs, patching, receipt, receipts, history>>

PrintReceipt ==
    /\ pc = "print"
    /\ Exit(IF /\ \A k \in DOMAIN receipts : GatePassed(receipts[k])
               /\ ~SecurityGatePassed /\ Len(receipts) = NumTasks
            THEN 0 ELSE 1)
    /\ UNCHANGED <<inputs, patching, receipt, receipts, out, history>>

\* An error in any step: a refused snapshot or artifact, an adapter or a
\* verifier that fails or takes too long, a failing system call, a kill.
Fail ==
    /\ pc # "ended" /\ Exit(1)
    /\ UNCHANGED <<inputs, patching, receipt, receipts, out, history>>

(***************************************************************************)
(* Another program                                                         *)
(***************************************************************************)
\* It changes the workspace, the staged verifier or the adapter script.
Edit ==
    /\ pc \notin {"build", "extract", "open receipt", "write receipt", "print", "ended"}
    /\ changes < MaxEdits /\ changes' = changes + 1
    /\ edits' = [edits EXCEPT ![Task] = @ + 1]
    /\ \/ /\ \E w \in Candidates : Altered(candidate, w) /\ candidate' = w
          /\ moved' = [moved EXCEPT ![Task] = TRUE] /\ UNCHANGED <<adapter, verifier>>
       \/ /\ adapter' \in {"mock", "other"} \ {adapter}
          /\ UNCHANGED <<candidate, verifier, moved>>
       \/ /\ verifier # Missing
          /\ \/ \E v \in Verifiers \ {verifier.code} : verifier' = [verifier EXCEPT !.code = v]
             \/ verifier' = [verifier EXCEPT !.writable = ~@]
          /\ UNCHANGED <<candidate, adapter, moved>>
    /\ UNCHANGED <<pc, code, patching, receipt, receipts, out, used>>

Step == \/ Build \/ Extract \/ DigestBase \/ CaptureTree \/ CaptureFiles
        \/ RunAdapter \/ HashAdapter
        \/ ValidatePatch \/ InstallPatch \/ ReturnPatch
        \/ StageVerifier \/ HashVerifier \/ RunVerifier
        \/ CheckNames \/ CheckMode \/ CheckUnchanged \/ DigestPatched
        \/ OpenReceipt \/ WriteReceipt \/ PrintReceipt
        \/ Fail

Next == Step \/ Edit
Spec == Init /\ [][Next]_vars

(***************************************************************************)
(* Properties                                                              *)
(***************************************************************************)
\* Every variable has its type; each stage has what it works on, and an
\* artifact that is to be installed was accepted.
TypeOK ==
    /\ pc \in Stages /\ code \in {0, 1, 2, Missing}
    /\ candidate \in Candidates \cup {Missing} /\ adapter \in {"mock", "other"}
    /\ verifier \in StagedVerifiers \cup {Missing}
    /\ content \in Modules \cup {Missing}
    /\ call \in {"idle", "open", "returned"} /\ Len(todo) <= 1
    /\ Len(receipts) <= NumTasks /\ changes <= MaxEdits
    /\ pc = "install" => call = "open" /\ todo # <<>>
    /\ pc \in {"hash verifier", "run", "names", "mode", "unchanged"} =>
          verifier # Missing /\ call = "returned"

\* Whatever another program changes before an artifact is validated, and
\* unless it changes the workspace later, the patched snapshot is the tree of
\* the request with the artifact's one replacement (docs/
\* m2a-controlled-agent-boundary.md:36, source mutation fails closed).
PatchedIsRequestedPlusPatch ==
    \A k \in DOMAIN receipts : LET r == receipts[k] IN
        ~moved[k] =>
            r.patched = [r.tree EXCEPT !.module = r.content] /\ r.seen = r.tree.module

\* What is recorded of task k when nobody interferes.
Expected(k) ==
    [base |-> [module |-> Repaired(k - 1), extra |-> "none"],
     tree |-> [module |-> Repaired(k - 1), extra |-> "none"],
     seen |-> Repaired(k - 1), content |-> Repaired(k),
     patched |-> [module |-> Repaired(k), extra |-> "none"],
     adapter |-> "mock", verifier |-> "good",
     runs |-> [i \in 1 .. Repetitions |-> "pass"],
     source_only |-> TRUE, read_only |-> TRUE, unchanged |-> TRUE]

\* Without interference each receipt is the same in every run, and its patched
\* snapshot is the base of the next task (docs/m2a-controlled-agent-boundary.md:71,
\* two fresh runs produce an identical suite receipt).
ReceiptsAreStable ==
    changes = 0 => \A k \in DOMAIN receipts : receipts[k] = Expected(k)

\* If the other program changed at most one thing while a task was replayed,
\* whenever it did, a passed gate names the verifier every run was made with,
\* and if that is the trusted one, every run was shown the fix.  If it changed
\* at most one thing at all, a receipt that names the mock adapter holds the
\* mock's answer, though the script is hashed when it has run.
VerdictIsTrue ==
    \A k \in DOMAIN receipts : LET r == receipts[k] IN
        edits[k] <= 1 /\ GatePassed(r) =>
            /\ \A u \in used[k] : /\ u.verifier = r.verifier
                                  /\ u.verifier = "good" => u.fixed
            /\ changes <= 1 /\ r.adapter = "mock" =>
                  r.content \in Repairs("mock", r.seen, k)
=============================================================================
