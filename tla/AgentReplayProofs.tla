------------------------- MODULE AgentReplayProofs -------------------------
(***************************************************************************)
(* Proofs about AgentReplay, for any number of tasks and of changes the    *)
(* other program makes: what a receipt says of the tree that was patched,  *)
(* of the verifier, of the adapter and of an undisturbed replay is true.   *)
(***************************************************************************)
EXTENDS AgentReplay, TLAPS

(***************************************************************************)
(* The inductive invariant                                                 *)
(***************************************************************************)
\* The stages of one task, and those at which something of it is recorded.
InTask == Stages \ {"build", "extract", "open receipt", "write receipt", "print", "ended"}
TreeRecorded == InTask \ {"digest", "capture tree"}
SeenRecorded == TreeRecorded \ {"capture files"}
AnswerRecorded == SeenRecorded \ {"adapter", "hash adapter"}
Installed == AnswerRecorded \ {"validate", "install"}
Staged == Installed \ {"return", "stage"}
Judging == Staged \ {"hash verifier"}
Judged == {"names", "mode", "unchanged", "digest patched"}

Runs == Seq({"pass", "fail", "exception"})
Receipts == [base : Candidates \cup {Missing}, tree : Candidates \cup {Missing},
             seen : Modules \cup {Missing}, content : Modules \cup {Missing},
             patched : Candidates \cup {Missing},
             adapter : {"mock", "other", Missing}, verifier : Verifiers \cup {Missing},
             runs : Runs, source_only : BOOLEAN, read_only : BOOLEAN, unchanged : BOOLEAN]
Replacements == [path : {Source}, content : Modules]

ValueInv ==
    /\ pc \in Stages /\ code \in {0, 1, 2, Missing}
    /\ candidate \in Candidates \cup {Missing} /\ adapter \in {"mock", "other"}
    /\ verifier \in StagedVerifiers \cup {Missing}
    /\ content \in Modules \cup {Missing}
    /\ receipt \in Receipts /\ receipts \in Seq(Receipts)
    /\ Len(receipts) <= NumTasks

CallInv ==
    /\ call \in {"idle", "open", "returned"}
    /\ todo = <<>> \/ \E r \in Replacements : todo = <<r>>
    /\ pc = "install" => call = "open" /\ todo # <<>>
    /\ pc \in Staged \cup {"stage"} => call = "returned"

HistoryInv ==
    /\ edits \in [Tasks -> Nat] /\ changes \in 0 .. MaxEdits
    /\ moved \in [Tasks -> BOOLEAN]
    /\ used \in [Tasks -> SUBSET [verifier : Verifiers, fixed : BOOLEAN]]

\* What the stages of a task have at hand.
StageInv ==
    /\ pc \in InTask \cup {"build", "extract"} => Len(receipts) < NumTasks
    /\ pc \in InTask => candidate \in Candidates
    /\ pc \in SeenRecorded => receipt.seen \in Modules
    /\ pc \in {"hash adapter", "validate", "install"} => content \in Modules
    /\ pc \in Staged => verifier \in StagedVerifiers

TypeInv == ValueInv /\ CallInv /\ HistoryInv /\ StageInv

\* Without a change no task was changed, and a replaced script is a change.
EditInv ==
    /\ changes = 0 => \A k \in Tasks : edits[k] = 0
    /\ adapter = "other" => changes >= 1

\* No runs are made before their time.
UsedInv ==
    /\ \A k \in Tasks : k > Task => used[k] = {}
    /\ pc \in (InTask \ Judging) \cup {"build", "extract"} => used[Task] = {}

\* The patch made so far is the one the request and the artifact say.
PatchInv ==
    /\ pc \in {"validate", "install"} => receipt.content = content
    /\ pc = "install" /\ ~moved[Task] =>
          candidate = receipt.tree /\ receipt.seen = receipt.tree.module
    /\ pc \in Installed /\ ~moved[Task] =>
          /\ candidate = [receipt.tree EXCEPT !.module = receipt.content]
          /\ receipt.seen = receipt.tree.module

\* The mock's answer is recorded under the mock's name.
AdapterInv ==
    /\ pc = "hash adapter" /\ changes <= 1 /\ adapter = "mock" =>
          content \in Repairs("mock", receipt.seen, Task)
    /\ pc \in AnswerRecorded /\ changes <= 1 /\ receipt.adapter = "mock" =>
          receipt.content \in Repairs("mock", receipt.seen, Task)

\* All of task k's runs were made with the verifier r names.
RunsNamed(r, k) == \A u \in used[k] : u.verifier = r.verifier

\* A run of the trusted verifier that was not shown the fix did not pass.
RunsTold(r, k) ==
    (\E u \in used[k] : u.verifier = "good" /\ ~u.fixed) =>
        \E i \in DOMAIN r.runs : r.runs[i] # "pass"

\* One change of the verifier after it was hashed is still there.
VerifierInv ==
    /\ pc \in Judging => RunsTold(receipt, Task)
    /\ pc \in Judging \ {"digest patched"} /\ edits[Task] <= 1 =>
          \/ verifier.code = receipt.verifier /\ RunsNamed(receipt, Task)
          \/ verifier.code # receipt.verifier /\ edits[Task] = 1
    /\ pc = "digest patched" /\ edits[Task] <= 1 /\ receipt.unchanged =>
          RunsNamed(receipt, Task)

\* An undisturbed task, stage by stage.
Clean(n) == [module |-> Repaired(n), extra |-> "none"]
Undisturbed ==
    /\ adapter = "mock"
    /\ pc \in InTask \ Installed => candidate = Clean(Task - 1)
    /\ pc \in Installed => candidate = Clean(Task)
    /\ pc \in InTask \ {"digest"} => receipt.base = Clean(Task - 1)
    /\ pc \in TreeRecorded => receipt.tree = Clean(Task - 1)
    /\ pc \in SeenRecorded => receipt.seen = Repaired(Task - 1)
    /\ pc \in {"hash adapter", "validate", "install"} => content = Repaired(Task)
    /\ pc \in AnswerRecorded => receipt.content = Repaired(Task) /\ receipt.adapter = "mock"
    /\ pc \in Staged => verifier = [code |-> "good", writable |-> FALSE]
    /\ pc \in Judging => receipt.verifier = "good"
    /\ pc \in InTask \ Judging => receipt.runs = <<>>
    /\ pc = "run" => Len(receipt.runs) < Repetitions
    /\ pc \in Judging => \A i \in DOMAIN receipt.runs : receipt.runs[i] = "pass"
    /\ pc \in Judged => Len(receipt.runs) = Repetitions
    /\ pc \in Judged \ {"names"} => receipt.source_only = TRUE
    /\ pc \in {"unchanged", "digest patched"} => receipt.read_only = TRUE
    /\ pc = "digest patched" => receipt.unchanged = TRUE

\* What is true of the receipt r of task k from then on.
Finished(r, k) ==
    /\ ~moved[k] => /\ r.patched = [r.tree EXCEPT !.module = r.content]
                    /\ r.seen = r.tree.module
    /\ edits[k] <= 1 /\ r.unchanged => RunsNamed(r, k)
    /\ RunsTold(r, k)
    /\ changes <= 1 /\ r.adapter = "mock" => r.content \in Repairs("mock", r.seen, k)
    /\ changes = 0 => r = Expected(k)

FinishedInv == \A k \in DOMAIN receipts : Finished(receipts[k], k)

IInv == /\ TypeInv /\ EditInv /\ UsedInv
        /\ PatchInv /\ AdapterInv /\ VerifierInv
        /\ changes = 0 => Undisturbed
        /\ FinishedInv

(***************************************************************************)
(* Lemmas about the operators                                              *)
(***************************************************************************)
LEMMA Appending ==
  ASSUME NEW S, NEW s \in Seq(S), NEW e \in S
  PROVE  /\ Append(s, e) \in Seq(S)
         /\ Len(s) \in Nat /\ Len(Append(s, e)) = Len(s) + 1
         /\ DOMAIN s = 1 .. Len(s) /\ DOMAIN Append(s, e) = 1 .. Len(s) + 1
         /\ \A k \in DOMAIN s : Append(s, e)[k] = s[k]
         /\ Append(s, e)[Len(s) + 1] = e
  OBVIOUS

LEMMA TaskIsATask ==
  ASSUME ValueInv, Len(receipts) < NumTasks
  PROVE  /\ Len(receipts) \in Nat /\ Task \in Tasks /\ Task - 1 = Len(receipts)
         /\ DOMAIN receipts = 1 .. Len(receipts)
         /\ DOMAIN receipts \subseteq Tasks /\ Task \notin DOMAIN receipts
  <1>1. Len(receipts) \in Nat /\ DOMAIN receipts = 1 .. Len(receipts)
    BY DEF ValueInv
  <1>2. NumTasks \in Nat
    BY TaskCount
  <1> QED
    BY <1>1, <1>2 DEF Task, Tasks

\* What the fixes repair is a module, not a torn file, and grows by one.
LEMMA RepairedModule ==
  ASSUME NEW n \in Nat, n < NumTasks
  PROVE  /\ Repaired(n) \in Modules /\ Repaired(n + 1) \in Modules
         /\ Repaired(n) # Torn /\ Repaired(n + 1) # Torn
         /\ n + 1 \notin Repaired(n) /\ Repaired(n) \cup {n + 1} = Repaired(n + 1)
         /\ n + 1 \in Repaired(n + 1)
  <1>1. NumTasks \in Nat
    BY TaskCount
  <1>2. Repaired(n) \subseteq Tasks /\ Repaired(n + 1) \subseteq Tasks
    BY <1>1 DEF Repaired, Tasks
  <1>3. n + 1 \notin Repaired(n) /\ n + 1 \in Repaired(n + 1)
    BY DEF Repaired
  <1>4. Repaired(n) \cup {n + 1} = Repaired(n + 1)
    BY DEF Repaired
  <1> QED
    BY <1>2, <1>3, <1>4, TornIsNoModule DEF Modules

LEMMA RepairIsModule ==
  ASSUME NEW script, NEW seen \in Modules, NEW k \in Tasks,
         NEW answer \in Repairs(script, seen, k)
  PROVE  answer \in Modules
  BY DEF Repairs, Modules

LEMMA AnswerIsOne ==
  ASSUME NEW v, NEW m, NEW k, NEW answer \in Answers(v, m, k)
  PROVE  answer \in {"pass", "fail", "exception"}
  BY DEF Answers

(***************************************************************************)
(* Types                                                                   *)
(***************************************************************************)
LEMMA ReceiptTyped ==
  ASSUME ValueInv
  PROVE  /\ NoReceipt \in Receipts
         /\ \A c \in Candidates : /\ [receipt EXCEPT !.base = c] \in Receipts
                                  /\ [receipt EXCEPT !.tree = c] \in Receipts
                                  /\ [receipt EXCEPT !.patched = c] \in Receipts
         /\ \A m \in Modules : /\ [receipt EXCEPT !.seen = m] \in Receipts
                               /\ [receipt EXCEPT !.adapter = adapter, !.content = m]
                                     \in Receipts
         /\ \A v \in Verifiers : [receipt EXCEPT !.verifier = v] \in Receipts
         /\ \A a \in {"pass", "fail", "exception"} :
               [receipt EXCEPT !.runs = Append(receipt.runs, a)] \in Receipts
         /\ \A b \in BOOLEAN : /\ [receipt EXCEPT !.source_only = b] \in Receipts
                               /\ [receipt EXCEPT !.read_only = b] \in Receipts
                               /\ [receipt EXCEPT !.unchanged = b] \in Receipts
  <1>1. receipt \in Receipts /\ adapter \in {"mock", "other"}
    BY DEF ValueInv
  <1>2. \A a \in {"pass", "fail", "exception"} : Append(receipt.runs, a) \in Runs
    BY <1>1 DEF Receipts, Runs
  <1>3. <<>> \in Runs
    BY DEF Runs
  <1>4. NoReceipt \in Receipts
    BY <1>3 DEF NoReceipt, Receipts
  <1> HIDE DEF Candidates, Modules, Verifiers, Runs
  <1>5. ASSUME NEW c \in Candidates PROVE [receipt EXCEPT !.base = c] \in Receipts
    BY <1>1, <1>5 DEF Receipts
  <1>6. ASSUME NEW c \in Candidates PROVE [receipt EXCEPT !.tree = c] \in Receipts
    BY <1>1, <1>6 DEF Receipts
  <1>7. ASSUME NEW c \in Candidates PROVE [receipt EXCEPT !.patched = c] \in Receipts
    BY <1>1, <1>7 DEF Receipts
  <1>8. ASSUME NEW m \in Modules PROVE [receipt EXCEPT !.seen = m] \in Receipts
    BY <1>1, <1>8 DEF Receipts
  <1>9. ASSUME NEW v \in Verifiers PROVE [receipt EXCEPT !.verifier = v] \in Receipts
    BY <1>1, <1>9 DEF Receipts
  <1>10. ASSUME NEW a \in Runs PROVE [receipt EXCEPT !.runs = a] \in Receipts
    BY <1>1, <1>10 DEF Receipts
  <1>11. ASSUME NEW b \in BOOLEAN PROVE [receipt EXCEPT !.source_only = b] \in Receipts
    BY <1>1, <1>11 DEF Receipts
  <1>12. ASSUME NEW b \in BOOLEAN PROVE [receipt EXCEPT !.read_only = b] \in Receipts
    BY <1>1, <1>12 DEF Receipts
  <1>13. ASSUME NEW b \in BOOLEAN PROVE [receipt EXCEPT !.unchanged = b] \in Receipts
    BY <1>1, <1>13 DEF Receipts
  <1>14. ASSUME NEW m \in Modules
        PROVE  [receipt EXCEPT !.adapter = adapter, !.content = m] \in Receipts
    BY <1>1, <1>14 DEF Receipts
  <1> QED
    BY <1>2, <1>4, <1>5, <1>6, <1>7, <1>8, <1>9, <1>10, <1>11, <1>12, <1>13, <1>14

LEMMA TypeInit == Init => TypeInv
  <1> SUFFICES ASSUME Init PROVE TypeInv
    OBVIOUS
  <1>1. NoReceipt \in Receipts
    BY DEF NoReceipt, Receipts, Runs
  <1>2. ValueInv
    BY <1>1, TaskCount DEF Init, ValueInv, Stages
  <1>3. CallInv
    BY DEF Init, CallInv, Staged, Installed, AnswerRecorded, SeenRecorded, TreeRecorded, InTask
  <1>4. HistoryInv
    BY EditBound DEF Init, HistoryInv
  <1>5. StageInv
    BY TaskCount DEF Init, StageInv, Staged, Installed, AnswerRecorded, SeenRecorded,
       TreeRecorded, InTask
  <1> QED
    BY <1>2, <1>3, <1>4, <1>5 DEF TypeInv
\* The sets of stages, written out.
LEMMA StageSets ==
  /\ InTask = {"digest", "capture tree", "capture files", "adapter",
               "hash adapter", "validate", "install", "return", "stage",
               "hash verifier", "run", "names", "mode", "unchanged",
               "digest patched"}
  /\ TreeRecorded = {"capture files", "adapter", "hash adapter", "validate",
                     "install", "return", "stage", "hash verifier", "run",
                     "names", "mode", "unchanged", "digest patched"}
  /\ SeenRecorded = {"adapter", "hash adapter", "validate", "install",
                     "return", "stage", "hash verifier", "run", "names",
                     "mode", "unchanged", "digest patched"}
  /\ AnswerRecorded = {"validate", "install", "return", "stage",
                       "hash verifier", "run", "names", "mode", "unchanged",
                       "digest patched"}
  /\ Installed = {"return", "stage", "hash verifier", "run", "names", "mode",
                  "unchanged", "digest patched"}
  /\ Staged = {"hash verifier", "run", "names", "mode", "unchanged",
               "digest patched"}
  /\ Judging = {"run", "names", "mode", "unchanged", "digest patched"}
  BY ZenonT(40) DEF Stages, InTask, TreeRecorded, SeenRecorded, AnswerRecorded, Installed,
                    Staged, Judging

LEMMA ValueStep == ASSUME TypeInv, Next PROVE ValueInv'
  <1> USE DEF Goto, Exit, Records, inputs, patching, history, Stages
  <1>1. /\ pc \in Stages /\ code \in {0, 1, 2, Missing}
        /\ candidate \in Candidates \cup {Missing} /\ adapter \in {"mock", "other"}
        /\ verifier \in StagedVerifiers \cup {Missing}
        /\ content \in Modules \cup {Missing}
        /\ receipt \in Receipts /\ receipts \in Seq(Receipts)
        /\ Len(receipts) <= NumTasks
    BY DEF TypeInv, ValueInv
  <1>2. /\ pc \in InTask \cup {"build", "extract"} => Len(receipts) < NumTasks
        /\ pc \in InTask => candidate \in Candidates
        /\ pc \in SeenRecorded => receipt.seen \in Modules
        /\ pc \in {"hash adapter", "validate", "install"} => content \in Modules
        /\ pc \in Staged => verifier \in StagedVerifiers
    BY DEF TypeInv, StageInv
  <1>3. ValueInv
    BY DEF TypeInv
  <1> HIDE DEF Candidates, Modules, StagedVerifiers, Receipts
  <1> SUFFICES /\ pc' \in Stages /\ code' \in {0, 1, 2, Missing}
               /\ candidate' \in Candidates \cup {Missing} /\ adapter' \in {"mock", "other"}
               /\ verifier' \in StagedVerifiers \cup {Missing}
               /\ content' \in Modules \cup {Missing}
               /\ receipt' \in Receipts /\ receipts' \in Seq(Receipts)
               /\ Len(receipts') <= NumTasks
    BY DEF ValueInv
  <1>4. CASE Build \/ ReturnPatch \/ OpenReceipt \/ WriteReceipt \/ PrintReceipt \/ Fail
    BY <1>1, <1>4 DEF Build, ReturnPatch, OpenReceipt, WriteReceipt, PrintReceipt, Fail
  <1>5. CASE Extract
    <2>1. [module |-> Repaired(Task - 1), extra |-> "none"] \in Candidates
      BY <1>2, <1>3, <1>5, TaskIsATask, RepairedModule DEF Extract, Candidates, Extras
    <2> QED
      BY <1>1, <1>3, <1>5, <2>1, ReceiptTyped DEF Extract
  <1>6. CASE DigestBase \/ CaptureTree
    <2>1. candidate \in Candidates
      BY <1>2, <1>6, StageSets DEF DigestBase, CaptureTree
    <2> QED
      BY <1>1, <1>3, <1>6, <2>1, ReceiptTyped DEF DigestBase, CaptureTree
  <1>7. CASE CaptureFiles
    <2>1. candidate.module \in Modules
      BY <1>2, <1>7, StageSets DEF CaptureFiles, Candidates
    <2> QED
      BY <1>1, <1>3, <1>7, <2>1, ReceiptTyped DEF CaptureFiles
  <1>8. CASE RunAdapter
    <2>1. receipt.seen \in Modules /\ Task \in Tasks
      BY <1>2, <1>3, <1>8, StageSets, TaskIsATask DEF RunAdapter
    <2>2. content' \in Modules
      BY <1>8, <2>1, RepairIsModule DEF RunAdapter
    <2> QED
      BY <1>1, <1>8, <2>2 DEF RunAdapter
  <1>9. CASE HashAdapter
    <2>1. content \in Modules
      BY <1>2, <1>9 DEF HashAdapter
    <2> QED
      BY <1>1, <1>3, <1>9, <2>1, ReceiptTyped DEF HashAdapter
  <1>10. CASE ValidatePatch
    BY <1>1, <1>10 DEF ValidatePatch
  <1>11. CASE InstallPatch
    <2>1. content \in Modules /\ candidate \in Candidates
      BY <1>2, <1>11, StageSets DEF InstallPatch
    <2>2. candidate' \in Candidates
      BY <1>11, <2>1 DEF InstallPatch, Candidates
    <2> QED
      BY <1>1, <1>11, <2>2 DEF InstallPatch
  <1>12. CASE StageVerifier
    <2>1. verifier' \in StagedVerifiers
      BY <1>12 DEF StageVerifier, StagedVerifiers, Verifiers
    <2> QED
      BY <1>1, <1>12, <2>1 DEF StageVerifier
  <1>13. CASE HashVerifier
    <2>1. verifier.code \in Verifiers
      BY <1>2, <1>13, StageSets DEF HashVerifier, StagedVerifiers
    <2> QED
      BY <1>1, <1>3, <1>13, <2>1, ReceiptTyped DEF HashVerifier
  <1>14. CASE RunVerifier
    <2>1. PICK answer \in Answers(verifier.code, candidate.module, Task) :
             Records([receipt EXCEPT !.runs = Append(@, answer)])
      BY <1>14 DEF RunVerifier
    <2>2. receipt' \in Receipts
      BY <1>3, <2>1, AnswerIsOne, ReceiptTyped
    <2> QED
      BY <1>1, <1>14, <2>1, <2>2 DEF RunVerifier
  <1>15. CASE CheckNames
    BY <1>1, <1>3, <1>15, ReceiptTyped DEF CheckNames
  <1>16. CASE CheckMode
    BY <1>1, <1>3, <1>16, ReceiptTyped DEF CheckMode
  <1>17. CASE CheckUnchanged
    BY <1>1, <1>3, <1>17, ReceiptTyped DEF CheckUnchanged, Unchanged
  <1>18. CASE DigestPatched
    <2>1. candidate \in Candidates /\ Len(receipts) < NumTasks
      BY <1>2, <1>18, StageSets DEF DigestPatched
    <2>2. [receipt EXCEPT !.patched = candidate] \in Receipts
      BY <1>3, <2>1, ReceiptTyped
    <2>3. receipts' = Append(receipts, [receipt EXCEPT !.patched = candidate])
      BY <1>18 DEF DigestPatched
    <2>4. receipts' \in Seq(Receipts) /\ Len(receipts') = Len(receipts) + 1
      BY <1>1, <2>2, <2>3, Appending
    <2>5. Len(receipts') <= NumTasks
      BY <1>3, <2>1, <2>4, TaskIsATask, TaskCount
    <2> QED
      BY <1>1, <1>18, <2>4, <2>5 DEF DigestPatched
  <1>19. CASE Edit
    <2>1. UNCHANGED <<pc, code, content, receipt, receipts>>
      BY <1>19 DEF Edit
    <2>2. candidate' \in Candidates \cup {Missing} /\ adapter' \in {"mock", "other"}
      BY <1>1, <1>19 DEF Edit
    <2>3. verifier' \in StagedVerifiers \cup {Missing}
      BY <1>1, <1>19 DEF Edit, StagedVerifiers
    <2> QED
      BY <1>1, <2>1, <2>2, <2>3
  <1> QED
    BY <1>4, <1>5, <1>6, <1>7, <1>8, <1>9, <1>10, <1>11, <1>12, <1>13, <1>14, <1>15,
       <1>16, <1>17, <1>18, <1>19 DEF Next, Step

LEMMA OneLong == ASSUME NEW x PROVE <<x>> # <<>> /\ Tail(<<x>>) = <<>>
  OBVIOUS

LEMMA CallStep == ASSUME TypeInv, Next PROVE CallInv'
  <1> USE DEF Goto, Exit, Records, inputs, patching, history
  <1>1. /\ call \in {"idle", "open", "returned"}
        /\ todo = <<>> \/ \E r \in Replacements : todo = <<r>>
        /\ pc = "install" => call = "open" /\ todo # <<>>
        /\ pc \in Staged \cup {"stage"} => call = "returned"
    BY DEF TypeInv, CallInv
  <1>2. pc \in {"hash adapter", "validate", "install"} => content \in Modules
    BY DEF TypeInv, StageInv
  <1> HIDE DEF Replacements
  <1> SUFFICES /\ call' \in {"idle", "open", "returned"}
               /\ todo' = <<>> \/ \E r \in Replacements : todo' = <<r>>
               /\ pc' = "install" => call' = "open" /\ todo' # <<>>
               /\ pc' \in Staged \cup {"stage"} => call' = "returned"
    BY DEF CallInv
  <1>3. CASE Build \/ Extract \/ DigestBase \/ CaptureTree \/ CaptureFiles \/ RunAdapter
             \/ HashAdapter
    BY <1>1, <1>3, StageSets DEF Build, Extract, DigestBase, CaptureTree, CaptureFiles,
       RunAdapter, HashAdapter
  <1>4. CASE ValidatePatch
    <2>1. todo' = <<[path |-> Source, content |-> content]>> /\ call' = "open"
      BY <1>4 DEF ValidatePatch, Patch!Accept
    <2>2. [path |-> Source, content |-> content] \in Replacements
      BY <1>2, <1>4 DEF ValidatePatch, Replacements
    <2> QED
      BY <1>4, <2>1, <2>2, OneLong, StageSets DEF ValidatePatch
  <1>5. CASE InstallPatch
    <2>1. todo' = Tail(todo) /\ call' = call /\ todo # <<>>
      BY <1>1, <1>5 DEF InstallPatch, Patch!Install
    <2>2. todo' = <<>>
      BY <1>1, <2>1, OneLong
    <2> QED
      BY <1>1, <1>5, <2>1, <2>2, StageSets DEF InstallPatch
  <1>6. CASE ReturnPatch
    <2>1. call' = "returned" /\ todo' = todo
      BY <1>6 DEF ReturnPatch, Patch!Return
    <2> QED
      BY <1>1, <1>6, <2>1, StageSets DEF ReturnPatch
  <1>7. CASE StageVerifier \/ HashVerifier \/ CheckNames \/ CheckMode \/ CheckUnchanged
             \/ DigestPatched
    BY <1>1, <1>7, StageSets DEF StageVerifier, HashVerifier, CheckNames, CheckMode,
       CheckUnchanged, DigestPatched
  <1>8. CASE RunVerifier
    <2>1. pc = "run" /\ pc' \in {"run", "names"} /\ UNCHANGED <<call, todo>>
      BY <1>8 DEF RunVerifier
    <2> QED
      BY <1>1, <2>1, StageSets
  <1>9. CASE OpenReceipt \/ WriteReceipt \/ PrintReceipt \/ Fail \/ Edit
    BY <1>1, <1>9, StageSets DEF OpenReceipt, WriteReceipt, PrintReceipt, Fail, Edit
  <1> QED
    BY <1>3, <1>4, <1>5, <1>6, <1>7, <1>8, <1>9 DEF Next, Step

LEMMA HistoryStep ==
  ASSUME TypeInv, Next
  PROVE  /\ HistoryInv'
         /\ changes \in Nat /\ changes' \in Nat /\ changes' >= changes
         /\ \A k \in DOMAIN receipts : UNCHANGED <<edits[k], moved[k], used[k]>>
  <1> USE DEF Records, history
  <1>1. /\ edits \in [Tasks -> Nat] /\ changes \in 0 .. MaxEdits
        /\ moved \in [Tasks -> BOOLEAN]
        /\ used \in [Tasks -> SUBSET [verifier : Verifiers, fixed : BOOLEAN]]
    BY DEF TypeInv, HistoryInv
  <1>2. pc \in InTask => /\ Task \in Tasks
                         /\ DOMAIN receipts \subseteq Tasks /\ Task \notin DOMAIN receipts
    BY TaskIsATask DEF TypeInv, StageInv
  <1>3. changes \in Nat /\ MaxEdits \in Nat
    BY <1>1, EditBound
  <1>4. CASE UNCHANGED <<edits, changes, moved, used>>
    BY <1>1, <1>3, <1>4 DEF HistoryInv
  <1>5. CASE ValidatePatch
    <2>1. pc \in InTask
      BY <1>5, StageSets DEF ValidatePatch
    <2>2. moved' = [moved EXCEPT ![Task] = FALSE] /\ UNCHANGED <<edits, changes, used>>
      BY <1>5 DEF ValidatePatch, Patch!Accept
    <2>3. moved' \in [Tasks -> BOOLEAN]
      BY <1>1, <1>2, <2>1, <2>2
    <2>4. \A k \in DOMAIN receipts : UNCHANGED <<edits[k], moved[k], used[k]>>
      BY <1>1, <1>2, <2>1, <2>2
    <2>5. edits' \in [Tasks -> Nat] /\ changes' \in 0 .. MaxEdits
      BY <1>1, <2>2
    <2>6. used' \in [Tasks -> SUBSET [verifier : Verifiers, fixed : BOOLEAN]]
      BY <1>1, <2>2
    <2>7. changes' \in Nat /\ changes' >= changes
      BY <1>3, <2>2
    <2> QED
      BY <1>3, <2>3, <2>4, <2>5, <2>6, <2>7 DEF HistoryInv
  <1>6. CASE RunVerifier
    <2>1. pc \in InTask
      BY <1>6, StageSets DEF RunVerifier
    <2>2. verifier.code \in Verifiers
      BY <1>6, StageSets DEF RunVerifier, TypeInv, StageInv, StagedVerifiers
    <2>3. PICK u \in [verifier : Verifiers, fixed : BOOLEAN] :
             used' = [used EXCEPT ![Task] = @ \cup {u}]
      <3> DEFINE fixed == candidate.module # Torn /\ Task \in candidate.module
                 u == [verifier |-> verifier.code, fixed |-> fixed]
      <3>1. fixed \in BOOLEAN
        OBVIOUS
      <3>2. used' = [used EXCEPT ![Task] = @ \cup {u}]
        BY <1>6 DEF RunVerifier
      <3> HIDE DEF fixed
      <3>3. u \in [verifier : Verifiers, fixed : BOOLEAN]
        BY <2>2, <3>1
      <3> QED
        BY <3>2, <3>3
    <2>4. UNCHANGED <<edits, changes, moved>>
      BY <1>6 DEF RunVerifier
    <2> HIDE DEF Verifiers
    <2>5. used' \in [Tasks -> SUBSET [verifier : Verifiers, fixed : BOOLEAN]]
      BY <1>1, <1>2, <2>1, <2>3
    <2>6. \A k \in DOMAIN receipts : UNCHANGED <<edits[k], moved[k], used[k]>>
      BY <1>1, <1>2, <2>1, <2>3, <2>4
    <2> QED
      BY <1>1, <1>3, <2>4, <2>5, <2>6 DEF HistoryInv
  <1>7. CASE Edit
    <2>1. pc \in InTask
      BY <1>7 DEF Edit, InTask, TypeInv, ValueInv
    <2>2. /\ edits' = [edits EXCEPT ![Task] = @ + 1] /\ changes' = changes + 1
          /\ changes < MaxEdits /\ used' = used
          /\ moved' = moved \/ moved' = [moved EXCEPT ![Task] = TRUE]
      BY <1>7 DEF Edit
    <2>3. edits' \in [Tasks -> Nat] /\ changes' \in 0 .. MaxEdits
      BY <1>1, <1>2, <1>3, <2>1, <2>2
    <2>4. moved' \in [Tasks -> BOOLEAN]
      BY <1>1, <1>2, <2>1, <2>2
    <2>5. \A k \in DOMAIN receipts : UNCHANGED <<edits[k], moved[k], used[k]>>
      BY <1>1, <1>2, <2>1, <2>2
    <2> QED
      BY <1>1, <1>3, <2>2, <2>3, <2>4, <2>5 DEF HistoryInv
  <1>8. CASE Build \/ Extract \/ DigestBase \/ CaptureTree \/ CaptureFiles \/ RunAdapter
             \/ HashAdapter
    BY <1>4, <1>8 DEF Build, Extract, DigestBase, CaptureTree, CaptureFiles, RunAdapter,
       HashAdapter
  <1>9. CASE InstallPatch \/ ReturnPatch
    BY <1>4, <1>9 DEF InstallPatch, ReturnPatch, Patch!Install, Patch!Return
  <1>10. CASE StageVerifier \/ HashVerifier \/ CheckNames \/ CheckMode \/ CheckUnchanged
              \/ DigestPatched
    BY <1>4, <1>10 DEF StageVerifier, HashVerifier, CheckNames, CheckMode, CheckUnchanged,
       DigestPatched
  <1>11. CASE OpenReceipt \/ WriteReceipt \/ PrintReceipt \/ Fail
    BY <1>4, <1>11 DEF OpenReceipt, WriteReceipt, PrintReceipt, Fail
  <1> QED
    BY <1>5, <1>6, <1>7, <1>8, <1>9, <1>10, <1>11 DEF Next, Step

(***************************************************************************)
(* What a step records in the receipt                                      *)
(***************************************************************************)
LEMMA ReceiptSet ==
  ASSUME TypeInv
  PROVE  /\ DigestBase => receipt'.base = candidate
         /\ CaptureTree => receipt'.tree = candidate
         /\ CaptureFiles => receipt'.seen = candidate.module
         /\ HashAdapter => receipt'.adapter = adapter /\ receipt'.content = content
         /\ HashVerifier => receipt'.verifier = verifier.code
         /\ RunVerifier =>
               \E answer \in Answers(verifier.code, candidate.module, Task) :
                  receipt'.runs = Append(receipt.runs, answer)
         /\ CheckNames =>
               receipt'.source_only = (candidate.extra \notin {"git", "verifier"})
         /\ CheckMode => receipt'.read_only = ~verifier.writable
         /\ CheckUnchanged => receipt'.unchanged = Unchanged
  <1> USE DEF Records
  <1>1. receipt \in Receipts
    BY DEF TypeInv, ValueInv
  <1> HIDE DEF Candidates, Modules, Verifiers, Runs
  <1>2. DigestBase => receipt'.base = candidate
    BY <1>1 DEF Receipts, DigestBase
  <1>3. CaptureTree => receipt'.tree = candidate
    BY <1>1 DEF Receipts, CaptureTree
  <1>4. CaptureFiles => receipt'.seen = candidate.module
    BY <1>1 DEF Receipts, CaptureFiles
  <1>5. HashAdapter => receipt'.adapter = adapter /\ receipt'.content = content
    BY <1>1 DEF Receipts, HashAdapter
  <1>6. HashVerifier => receipt'.verifier = verifier.code
    BY <1>1 DEF Receipts, HashVerifier
  <1>7. RunVerifier => \E answer \in Answers(verifier.code, candidate.module, Task) :
                          receipt'.runs = Append(receipt.runs, answer)
    BY <1>1 DEF Receipts, RunVerifier
  <1>8. CheckNames => receipt'.source_only = (candidate.extra \notin {"git", "verifier"})
    BY <1>1 DEF Receipts, CheckNames
  <1>9. CheckMode => receipt'.read_only = ~verifier.writable
    BY <1>1 DEF Receipts, CheckMode
  <1>10. CheckUnchanged => receipt'.unchanged = Unchanged
    BY <1>1 DEF Receipts, CheckUnchanged
  <1> QED
    BY <1>2, <1>3, <1>4, <1>5, <1>6, <1>7, <1>8, <1>9, <1>10

LEMMA ReceiptKept ==
  ASSUME TypeInv, Next, pc # "extract"
  PROVE  /\ pc # "digest" => receipt'.base = receipt.base
         /\ pc # "capture tree" => receipt'.tree = receipt.tree
         /\ pc # "capture files" => receipt'.seen = receipt.seen
         /\ pc # "hash adapter" => /\ receipt'.content = receipt.content
                                   /\ receipt'.adapter = receipt.adapter
         /\ pc # "hash verifier" => receipt'.verifier = receipt.verifier
         /\ pc # "run" => receipt'.runs = receipt.runs
         /\ pc # "names" => receipt'.source_only = receipt.source_only
         /\ pc # "mode" => receipt'.read_only = receipt.read_only
         /\ pc # "unchanged" => receipt'.unchanged = receipt.unchanged
  <1> USE DEF Records
  <1>1. receipt \in Receipts
    BY DEF TypeInv, ValueInv
  <1> HIDE DEF Candidates, Modules, Verifiers, Runs
  <1>2. CASE receipt' = receipt
    BY <1>2
  <1>3. CASE DigestBase
    BY <1>1, <1>3 DEF Receipts, DigestBase
  <1>4. CASE CaptureTree
    BY <1>1, <1>4 DEF Receipts, CaptureTree
  <1>5. CASE CaptureFiles
    BY <1>1, <1>5 DEF Receipts, CaptureFiles
  <1>6. CASE HashAdapter
    BY <1>1, <1>6 DEF Receipts, HashAdapter
  <1>7. CASE HashVerifier
    BY <1>1, <1>7 DEF Receipts, HashVerifier
  <1>8. CASE RunVerifier
    <2>1. PICK answer : receipt' = [receipt EXCEPT !.runs = Append(@, answer)]
      BY <1>8 DEF RunVerifier
    <2> QED
      BY <1>1, <1>8, <2>1 DEF Receipts, RunVerifier
  <1>9. CASE CheckNames
    BY <1>1, <1>9 DEF Receipts, CheckNames
  <1>10. CASE CheckMode
    BY <1>1, <1>10 DEF Receipts, CheckMode
  <1>11. CASE CheckUnchanged
    BY <1>1, <1>11 DEF Receipts, CheckUnchanged
  <1>12. CASE Build \/ RunAdapter \/ ValidatePatch \/ InstallPatch \/ ReturnPatch
              \/ StageVerifier
    BY <1>2, <1>12 DEF Build, RunAdapter, ValidatePatch, InstallPatch, ReturnPatch,
       StageVerifier
  <1>13. CASE DigestPatched \/ OpenReceipt \/ WriteReceipt \/ PrintReceipt \/ Fail \/ Edit
    BY <1>2, <1>13 DEF DigestPatched, OpenReceipt, WriteReceipt, PrintReceipt, Fail, Edit
  <1>14. ~Extract
    BY DEF Extract
  <1> QED
    BY <1>3, <1>4, <1>5, <1>6, <1>7, <1>8, <1>9, <1>10, <1>11, <1>12, <1>13, <1>14
       DEF Next, Step

\* Receipts are added one by one, each with the tree it was digested from.
LEMMA ReceiptAdded ==
  ASSUME TypeInv, DigestPatched
  PROVE  /\ receipts' = Append(receipts, [receipt EXCEPT !.patched = candidate])
         /\ Len(receipts') = Task /\ Task' = Task + 1
         /\ DOMAIN receipts' = DOMAIN receipts \cup {Task}
         /\ \A k \in DOMAIN receipts : receipts'[k] = receipts[k]
         /\ receipts'[Task] = [receipt EXCEPT !.patched = candidate]
  <1>1. receipts \in Seq(Receipts) /\ ValueInv
    BY DEF TypeInv, ValueInv
  <1>2. candidate \in Candidates /\ Len(receipts) < NumTasks
    BY StageSets DEF DigestPatched, TypeInv, StageInv
  <1>3. [receipt EXCEPT !.patched = candidate] \in Receipts
    BY <1>1, <1>2, ReceiptTyped
  <1>4. receipts' = Append(receipts, [receipt EXCEPT !.patched = candidate])
    BY DEF DigestPatched
  <1> HIDE DEF Receipts
  <1> QED
    BY <1>1, <1>3, <1>4, Appending DEF Task

\* All other steps leave the receipts, and so the task at hand, alone.
LEMMA SameTask ==
  ASSUME Next, ~DigestPatched
  PROVE  receipts' = receipts /\ Task' = Task
  <1> USE DEF Records
  <1>1. receipts' = receipts
    <2>1. CASE Build \/ Extract \/ DigestBase \/ CaptureTree \/ CaptureFiles \/ RunAdapter
               \/ HashAdapter
      BY <2>1 DEF Build, Extract, DigestBase, CaptureTree, CaptureFiles, RunAdapter, HashAdapter
    <2>2. CASE ValidatePatch \/ InstallPatch \/ ReturnPatch \/ StageVerifier \/ HashVerifier
               \/ RunVerifier
      BY <2>2 DEF ValidatePatch, InstallPatch, ReturnPatch, StageVerifier, HashVerifier,
         RunVerifier
    <2>3. CASE CheckNames \/ CheckMode \/ CheckUnchanged
      BY <2>3 DEF CheckNames, CheckMode, CheckUnchanged
    <2>4. CASE OpenReceipt \/ WriteReceipt \/ PrintReceipt \/ Fail \/ Edit
      BY <2>4 DEF OpenReceipt, WriteReceipt, PrintReceipt, Fail, Edit
    <2> QED
      BY <2>1, <2>2, <2>3, <2>4 DEF Next, Step
  <1> QED
    BY <1>1 DEF Task

(***************************************************************************)
(* What the stages have at hand                                            *)
(***************************************************************************)
LEMMA StageStep == ASSUME TypeInv, Next PROVE StageInv'
  <1> USE DEF Goto, Exit, Records, inputs, patching, history
  <1>1. /\ pc \in InTask \cup {"build", "extract"} => Len(receipts) < NumTasks
        /\ pc \in InTask => candidate \in Candidates
        /\ pc \in SeenRecorded => receipt.seen \in Modules
        /\ pc \in {"hash adapter", "validate", "install"} => content \in Modules
        /\ pc \in Staged => verifier \in StagedVerifiers
    BY DEF TypeInv, StageInv
  <1>2. ValueInv /\ ValueInv'
    BY ValueStep DEF TypeInv
  <1> HIDE DEF Candidates, Modules, StagedVerifiers, Receipts
  <1> SUFFICES /\ pc' \in InTask \cup {"build", "extract"} => Len(receipts') < NumTasks
               /\ pc' \in InTask => candidate' \in Candidates
               /\ pc' \in SeenRecorded => receipt'.seen \in Modules
               /\ pc' \in {"hash adapter", "validate", "install"} => content' \in Modules
               /\ pc' \in Staged => verifier' \in StagedVerifiers
    BY DEF StageInv
  <1>3. CASE Build
    BY <1>1, <1>3, StageSets DEF Build
  <1>4. CASE Extract
    <2>1. [module |-> Repaired(Task - 1), extra |-> "none"] \in Candidates
      BY <1>1, <1>2, <1>4, TaskIsATask, RepairedModule DEF Extract, Candidates, Extras
    <2> QED
      BY <1>1, <1>4, <2>1, StageSets DEF Extract
  <1>5. CASE DigestBase
    BY <1>1, <1>5, StageSets DEF DigestBase
  <1>6. CASE CaptureTree
    BY <1>1, <1>6, StageSets DEF CaptureTree
  <1>7. CASE CaptureFiles
    <2>1. candidate \in Candidates /\ receipt'.seen = candidate.module
      BY <1>1, <1>7, ReceiptSet, StageSets DEF CaptureFiles
    <2>2. receipt'.seen \in Modules
      BY <2>1 DEF Candidates
    <2> QED
      BY <1>1, <1>7, <2>2, StageSets DEF CaptureFiles
  <1>8. CASE RunAdapter
    <2>1. receipt.seen \in Modules /\ Task \in Tasks
      BY <1>1, <1>2, <1>8, StageSets, TaskIsATask DEF RunAdapter
    <2>2. content' \in Modules
      BY <1>8, <2>1, RepairIsModule DEF RunAdapter
    <2> QED
      BY <1>1, <1>8, <2>2, StageSets DEF RunAdapter
  <1>9. CASE HashAdapter
    <2>1. receipt'.seen = receipt.seen
      BY <1>9, ReceiptKept DEF HashAdapter
    <2> QED
      BY <1>1, <1>9, <2>1, StageSets DEF HashAdapter
  <1>10. CASE ValidatePatch
    BY <1>1, <1>10, StageSets DEF ValidatePatch
  <1>11. CASE InstallPatch
    <2>1. content \in Modules /\ candidate \in Candidates
      BY <1>1, <1>11, StageSets DEF InstallPatch
    <2>2. candidate' \in Candidates
      BY <1>11, <2>1 DEF InstallPatch, Candidates
    <2> QED
      BY <1>1, <1>11, <2>2, StageSets DEF InstallPatch
  <1>12. CASE ReturnPatch
    BY <1>1, <1>12, StageSets DEF ReturnPatch
  <1>13. CASE StageVerifier
    <2>1. verifier' \in StagedVerifiers
      BY <1>13 DEF StageVerifier, StagedVerifiers, Verifiers
    <2> QED
      BY <1>1, <1>13, <2>1, StageSets DEF StageVerifier
  <1>14. CASE HashVerifier
    <2>1. receipt'.seen = receipt.seen
      BY <1>14, ReceiptKept DEF HashVerifier
    <2> QED
      BY <1>1, <1>14, <2>1, StageSets DEF HashVerifier
  <1>15. CASE RunVerifier
    <2>1. receipt'.seen = receipt.seen
      BY <1>15, ReceiptKept DEF RunVerifier
    <2>2. pc = "run" /\ pc' \in {"run", "names"}
          /\ UNCHANGED <<candidate, verifier, content, receipts>>
      BY <1>15 DEF RunVerifier
    <2> QED
      BY <1>1, <2>1, <2>2, StageSets
  <1>16. CASE CheckNames
    <2>1. receipt'.seen = receipt.seen
      BY <1>16, ReceiptKept DEF CheckNames
    <2> QED
      BY <1>1, <1>16, <2>1, StageSets DEF CheckNames
  <1>17. CASE CheckMode
    <2>1. receipt'.seen = receipt.seen
      BY <1>17, ReceiptKept DEF CheckMode
    <2> QED
      BY <1>1, <1>17, <2>1, StageSets DEF CheckMode
  <1>18. CASE CheckUnchanged
    <2>1. receipt'.seen = receipt.seen
      BY <1>18, ReceiptKept DEF CheckUnchanged
    <2> QED
      BY <1>1, <1>18, <2>1, StageSets DEF CheckUnchanged
  <1>19. CASE DigestPatched
    <2>1. Len(receipts') = Len(receipts) + 1 /\ Len(receipts) < NumTasks
          /\ Len(receipts) \in Nat
      BY <1>1, <1>2, <1>19, ReceiptAdded, StageSets, TaskIsATask DEF DigestPatched, Task
    <2>2. pc' = IF Len(receipts) + 1 = NumTasks THEN "open receipt" ELSE "extract"
      BY <1>19 DEF DigestPatched, LastTask, Task
    <2>3. pc' = "extract" => Len(receipts') < NumTasks
      BY <2>1, <2>2, TaskCount
    <2> QED
      BY <2>2, <2>3, StageSets
  <1>20. CASE OpenReceipt \/ WriteReceipt \/ PrintReceipt \/ Fail
    BY <1>1, <1>20, StageSets DEF OpenReceipt, WriteReceipt, PrintReceipt, Fail
  <1>21. CASE Edit
    <2>1. UNCHANGED <<pc, content, receipt, receipts>>
      BY <1>21 DEF Edit
    <2>2. candidate' = candidate \/ candidate' \in Candidates
      BY <1>21 DEF Edit
    <2>3. verifier \in StagedVerifiers => verifier' \in StagedVerifiers
      BY <1>21 DEF Edit, StagedVerifiers
    <2> QED
      BY <1>1, <2>1, <2>2, <2>3
  <1> QED
    BY <1>3, <1>4, <1>5, <1>6, <1>7, <1>8, <1>9, <1>10, <1>11, <1>12, <1>13, <1>14, <1>15,
       <1>16, <1>17, <1>18, <1>19, <1>20, <1>21 DEF Next, Step

LEMMA TypeStep == ASSUME TypeInv, Next PROVE TypeInv'
  BY ValueStep, CallStep, HistoryStep, StageStep DEF TypeInv

LEMMA EditStep == ASSUME TypeInv, EditInv, Next PROVE EditInv'
  <1> USE DEF Goto, Exit, Records, inputs, patching, history
  <1>1. /\ changes = 0 => \A k \in Tasks : edits[k] = 0
        /\ adapter = "other" => changes >= 1
    BY DEF EditInv
  <1>2. changes \in Nat
    BY HistoryStep
  <1>3. CASE UNCHANGED <<edits, changes, adapter>>
    BY <1>1, <1>3 DEF EditInv
  <1>4. CASE Edit
    <2>1. changes' = changes + 1
      BY <1>4 DEF Edit
    <2> QED
      BY <1>2, <2>1 DEF EditInv
  <1>5. CASE Build \/ Extract \/ DigestBase \/ CaptureTree \/ CaptureFiles \/ RunAdapter
             \/ HashAdapter
    BY <1>3, <1>5 DEF Build, Extract, DigestBase, CaptureTree, CaptureFiles, RunAdapter,
       HashAdapter
  <1>6. CASE ValidatePatch \/ InstallPatch \/ ReturnPatch
    BY <1>3, <1>6 DEF ValidatePatch, InstallPatch, ReturnPatch, Patch!Accept, Patch!Install,
       Patch!Return
  <1>7. CASE StageVerifier \/ HashVerifier \/ RunVerifier \/ CheckNames \/ CheckMode
             \/ CheckUnchanged \/ DigestPatched
    BY <1>3, <1>7 DEF StageVerifier, HashVerifier, RunVerifier, CheckNames, CheckMode,
       CheckUnchanged, DigestPatched
  <1>8. CASE OpenReceipt \/ WriteReceipt \/ PrintReceipt \/ Fail
    BY <1>3, <1>8 DEF OpenReceipt, WriteReceipt, PrintReceipt, Fail
  <1> QED
    BY <1>4, <1>5, <1>6, <1>7, <1>8 DEF Next, Step

LEMMA UsedStep == ASSUME TypeInv, UsedInv, Next PROVE UsedInv'
  <1> USE DEF Goto, Exit, Records, inputs, patching, history
  <1>1. /\ \A k \in Tasks : k > Task => used[k] = {}
        /\ pc \in (InTask \ Judging) \cup {"build", "extract"} => used[Task] = {}
    BY DEF UsedInv
  <1>2. Len(receipts) \in Nat /\ Task = Len(receipts) + 1
    BY DEF TypeInv, ValueInv, Task
  <1>3. ASSUME UNCHANGED <<used, Task>>,
               pc' \in (InTask \ Judging) \cup {"build", "extract"} =>
                  pc \in (InTask \ Judging) \cup {"build", "extract"}
        PROVE  UsedInv'
    BY <1>1, <1>3 DEF UsedInv
  <1>4. CASE Build \/ Extract \/ DigestBase \/ CaptureTree \/ CaptureFiles \/ RunAdapter
             \/ HashAdapter
    BY <1>3, <1>4, StageSets DEF Build, Extract, DigestBase, CaptureTree, CaptureFiles,
       RunAdapter, HashAdapter, Task
  <1>5. CASE ValidatePatch \/ InstallPatch \/ ReturnPatch
    BY <1>3, <1>5, StageSets DEF ValidatePatch, InstallPatch, ReturnPatch, Task
  <1>6. CASE StageVerifier \/ HashVerifier \/ CheckNames \/ CheckMode \/ CheckUnchanged
    BY <1>3, <1>6, StageSets DEF StageVerifier, HashVerifier, CheckNames, CheckMode,
       CheckUnchanged, Task
  <1>7. CASE RunVerifier
    <2>1. pc = "run" /\ pc' \in {"run", "names"} /\ Task' = Task
      BY <1>7 DEF RunVerifier, Task
    <2>2. PICK u : used' = [used EXCEPT ![Task] = u]
      BY <1>7 DEF RunVerifier
    <2>3. \A k \in Tasks : k > Task => used'[k] = used[k]
      BY <1>2, <2>2 DEF TypeInv, HistoryInv
    <2> QED
      BY <1>1, <2>1, <2>3, StageSets DEF UsedInv
  <1>8. CASE DigestPatched
    <2>1. Task' = Task + 1 /\ used' = used
      BY <1>8, ReceiptAdded DEF DigestPatched
    <2>2. pc' = IF Task = NumTasks THEN "open receipt" ELSE "extract"
      BY <1>8 DEF DigestPatched, LastTask
    <2>3. Task \in Tasks
      BY <1>8, StageSets, TaskIsATask DEF DigestPatched, TypeInv, StageInv
    <2>4. pc' = "extract" => Task + 1 \in Tasks
      BY <2>2, <2>3, TaskCount DEF Tasks
    <2>5. \A k \in Tasks : k > Task + 1 => k > Task
      BY <1>2, TaskCount DEF Tasks
    <2>6. Task + 1 > Task
      BY <1>2
    <2> QED
      BY <1>1, <2>1, <2>2, <2>4, <2>5, <2>6, StageSets DEF UsedInv
  <1>9. CASE OpenReceipt \/ WriteReceipt \/ PrintReceipt \/ Fail
    BY <1>3, <1>9, StageSets DEF OpenReceipt, WriteReceipt, PrintReceipt, Fail, Task
  <1>10. CASE Edit
    <2>1. UNCHANGED <<pc, used, Task>>
      BY <1>10 DEF Edit, Task
    <2> QED
      BY <1>3, <2>1
  <1> QED
    BY <1>4, <1>5, <1>6, <1>7, <1>8, <1>9, <1>10 DEF Next, Step

(***************************************************************************)
(* The patch, the adapter and the verifier of the task at hand             *)
(***************************************************************************)
LEMMA PatchStep == ASSUME TypeInv, PatchInv, Next PROVE PatchInv'
  <1> USE DEF Goto, Exit, Records, inputs, patching, history
  <1>1. /\ pc \in {"validate", "install"} => receipt.content = content
        /\ pc = "install" /\ ~moved[Task] =>
              candidate = receipt.tree /\ receipt.seen = receipt.tree.module
        /\ pc \in Installed /\ ~moved[Task] =>
              /\ candidate = [receipt.tree EXCEPT !.module = receipt.content]
              /\ receipt.seen = receipt.tree.module
    BY DEF PatchInv
  <1>2. ASSUME pc' \notin {"validate", "install"} \cup Installed
        PROVE  PatchInv'
    BY <1>2 DEF PatchInv
  <1>3. ASSUME pc \in Installed, pc' \in Installed, Task' = Task,
               UNCHANGED <<candidate, moved>>
        PROVE  PatchInv'
    <2>1. /\ receipt'.tree = receipt.tree /\ receipt'.seen = receipt.seen
          /\ receipt'.content = receipt.content
      BY <1>3, ReceiptKept, StageSets
    <2> QED
      BY <1>1, <1>3, <2>1, StageSets DEF PatchInv
  <1>4. CASE Build \/ Extract \/ DigestBase \/ CaptureTree \/ CaptureFiles \/ RunAdapter
    BY <1>2, <1>4, StageSets DEF Build, Extract, DigestBase, CaptureTree, CaptureFiles,
       RunAdapter
  <1>5. CASE HashAdapter
    <2>1. pc' = "validate" /\ content' = content /\ receipt'.content = content
      BY <1>5, ReceiptSet DEF HashAdapter
    <2> QED
      BY <2>1, StageSets DEF PatchInv
  <1>6. CASE ValidatePatch
    BY <1>1, <1>6, StageSets DEF ValidatePatch, Applicable, PatchInv
  <1>7. CASE InstallPatch
    <2>1. /\ pc = "install" /\ pc' = "return" /\ Task' = Task
          /\ candidate' = [candidate EXCEPT !.module = content]
          /\ UNCHANGED <<moved, receipt, content>>
      BY <1>7 DEF InstallPatch, Task
    <2> QED
      BY <1>1, <2>1, StageSets DEF PatchInv
  <1>8. CASE ReturnPatch \/ StageVerifier \/ HashVerifier
    BY <1>3, <1>8, StageSets DEF ReturnPatch, StageVerifier, HashVerifier, Task
  <1>9. CASE RunVerifier
    <2>1. pc = "run" /\ pc' \in {"run", "names"} /\ UNCHANGED <<candidate, moved, Task>>
      BY <1>9 DEF RunVerifier, Task
    <2> QED
      BY <1>3, <2>1, StageSets
  <1>10. CASE CheckNames \/ CheckMode \/ CheckUnchanged
    BY <1>3, <1>10, StageSets DEF CheckNames, CheckMode, CheckUnchanged, Task
  <1>11. CASE DigestPatched \/ OpenReceipt \/ WriteReceipt \/ PrintReceipt \/ Fail
    BY <1>2, <1>11, StageSets DEF DigestPatched, OpenReceipt, WriteReceipt, PrintReceipt, Fail
  <1>12. CASE Edit
    <2>1. UNCHANGED <<pc, content, receipt, Task>>
      BY <1>12 DEF Edit, Task
    <2>2. Task \in DOMAIN moved
      BY <1>12, StageSets, TaskIsATask DEF Edit, Stages, TypeInv, ValueInv, StageInv, HistoryInv
    <2>3. CASE UNCHANGED <<candidate, moved>>
      BY <1>1, <2>1, <2>3 DEF PatchInv
    <2>4. CASE moved' = [moved EXCEPT ![Task] = TRUE]
      BY <1>1, <2>1, <2>2, <2>4, StageSets DEF PatchInv
    <2> QED
      BY <1>12, <2>3, <2>4 DEF Edit
  <1> QED
    BY <1>4, <1>5, <1>6, <1>7, <1>8, <1>9, <1>10, <1>11, <1>12 DEF Next, Step

LEMMA AdapterStep == ASSUME TypeInv, EditInv, AdapterInv, Next PROVE AdapterInv'
  <1> USE DEF Goto, Exit, Records, inputs, patching, history
  <1>1. /\ pc = "hash adapter" /\ changes <= 1 /\ adapter = "mock" =>
              content \in Repairs("mock", receipt.seen, Task)
        /\ pc \in AnswerRecorded /\ changes <= 1 /\ receipt.adapter = "mock" =>
              receipt.content \in Repairs("mock", receipt.seen, Task)
    BY DEF AdapterInv
  <1>2. changes \in Nat /\ changes' \in Nat /\ changes' >= changes
    BY HistoryStep
  <1>3. changes' <= 1 => changes <= 1
    BY <1>2
  <1> HIDE DEF Repairs
  <1>4. ASSUME pc' \notin {"hash adapter"} \cup AnswerRecorded
        PROVE  AdapterInv'
    BY <1>4 DEF AdapterInv
  <1>5. ASSUME pc \in AnswerRecorded, pc' \in AnswerRecorded, Task' = Task
        PROVE  AdapterInv'
    <2>1. /\ receipt'.adapter = receipt.adapter /\ receipt'.seen = receipt.seen
          /\ receipt'.content = receipt.content
      BY <1>5, ReceiptKept, StageSets
    <2> QED
      BY <1>1, <1>3, <1>5, <2>1, StageSets DEF AdapterInv
  <1>6. CASE Build \/ Extract \/ DigestBase \/ CaptureTree \/ CaptureFiles
    BY <1>4, <1>6, StageSets DEF Build, Extract, DigestBase, CaptureTree, CaptureFiles
  <1>7. CASE RunAdapter
    <2>1. /\ pc' = "hash adapter" /\ content' \in Repairs(adapter, receipt.seen, Task)
          /\ UNCHANGED <<adapter, receipt, Task>>
      BY <1>7 DEF RunAdapter, Task
    <2> QED
      BY <2>1, StageSets DEF AdapterInv
  <1>8. CASE HashAdapter
    <2>1. /\ pc = "hash adapter" /\ pc' = "validate" /\ UNCHANGED <<changes, Task>>
          /\ receipt'.adapter = adapter /\ receipt'.content = content
          /\ receipt'.seen = receipt.seen
      BY <1>8, ReceiptSet, ReceiptKept DEF HashAdapter, Task
    <2> QED
      BY <1>1, <2>1, StageSets DEF AdapterInv
  <1>9. CASE ValidatePatch \/ InstallPatch \/ ReturnPatch \/ StageVerifier \/ HashVerifier
    BY <1>5, <1>9, StageSets DEF ValidatePatch, InstallPatch, ReturnPatch, StageVerifier,
       HashVerifier, Task
  <1>10. CASE RunVerifier
    <2>1. pc = "run" /\ pc' \in {"run", "names"} /\ Task' = Task
      BY <1>10 DEF RunVerifier, Task
    <2> QED
      BY <1>5, <2>1, StageSets
  <1>11. CASE CheckNames \/ CheckMode \/ CheckUnchanged
    BY <1>5, <1>11, StageSets DEF CheckNames, CheckMode, CheckUnchanged, Task
  <1>12. CASE DigestPatched \/ OpenReceipt \/ WriteReceipt \/ PrintReceipt \/ Fail
    BY <1>4, <1>12, StageSets DEF DigestPatched, OpenReceipt, WriteReceipt, PrintReceipt, Fail
  <1>13. CASE Edit
    <2>1. UNCHANGED <<pc, content, receipt, Task>> /\ changes' = changes + 1
      BY <1>13 DEF Edit, Task
    <2>2. changes' <= 1 => changes <= 1 /\ adapter = "mock"
      BY <1>2, <2>1 DEF EditInv, TypeInv, ValueInv
    <2> QED
      BY <1>1, <2>1, <2>2 DEF AdapterInv
  <1> QED
    BY <1>6, <1>7, <1>8, <1>9, <1>10, <1>11, <1>12, <1>13 DEF Next, Step

\* A run that was not shown the fix does not pass with the trusted verifier.
LEMMA UnfixedFails ==
  ASSUME NEW m, NEW k, m = Torn \/ k \notin m, NEW answer \in Answers("good", m, k)
  PROVE  answer # "pass"
  BY DEF Answers

LEMMA RunToldStep ==
  ASSUME TypeInv, RunVerifier, RunsTold(receipt, Task)
  PROVE  RunsTold(receipt, Task)'
  <1> DEFINE fixed == candidate.module # Torn /\ Task \in candidate.module
  <1>1. PICK answer \in Answers(verifier.code, candidate.module, Task) :
           receipt'.runs = Append(receipt.runs, answer)
    BY ReceiptSet
  <1>2. receipt.runs \in Runs /\ answer \in {"pass", "fail", "exception"}
    BY <1>1, AnswerIsOne DEF TypeInv, ValueInv, Receipts
  <1>3. /\ \A i \in DOMAIN receipt.runs : i \in DOMAIN receipt'.runs
                                        /\ receipt'.runs[i] = receipt.runs[i]
        /\ Len(receipt.runs) + 1 \in DOMAIN receipt'.runs
        /\ receipt'.runs[Len(receipt.runs) + 1] = answer
    BY <1>1, <1>2, Appending DEF Runs
  <1>4. Task' = Task /\ Task \in Tasks
    BY StageSets, TaskIsATask DEF RunVerifier, Records, Task, TypeInv, StageInv
  <1>5. used'[Task] = used[Task] \cup {[verifier |-> verifier.code, fixed |-> fixed]}
    BY <1>4 DEF RunVerifier, TypeInv, HistoryInv
  <1>6. ~fixed <=> candidate.module = Torn \/ Task \notin candidate.module
    OBVIOUS
  <1> HIDE DEF fixed
  <1>7. verifier.code = "good" /\ ~fixed => answer # "pass"
    BY <1>1, <1>6, UnfixedFails
  <1>8. SUFFICES ASSUME NEW u \in used'[Task], u.verifier = "good", ~u.fixed
                 PROVE  \E i \in DOMAIN receipt'.runs : receipt'.runs[i] # "pass"
    BY <1>4 DEF RunsTold
  <1>9. CASE u \in used[Task]
    BY <1>3, <1>8, <1>9 DEF RunsTold
  <1>10. CASE u = [verifier |-> verifier.code, fixed |-> fixed]
    BY <1>3, <1>7, <1>8, <1>10
  <1> QED
    BY <1>5, <1>8, <1>9, <1>10

LEMMA VerifierStep == ASSUME TypeInv, UsedInv, VerifierInv, Next PROVE VerifierInv'
  <1> USE DEF Goto, Exit, Records, inputs, patching, history
  <1>1. /\ pc \in Judging => RunsTold(receipt, Task)
        /\ pc \in Judging \ {"digest patched"} /\ edits[Task] <= 1 =>
              \/ verifier.code = receipt.verifier /\ RunsNamed(receipt, Task)
              \/ verifier.code # receipt.verifier /\ edits[Task] = 1
        /\ pc = "digest patched" /\ edits[Task] <= 1 /\ receipt.unchanged =>
              RunsNamed(receipt, Task)
    BY DEF VerifierInv
  <1>2. pc \in InTask => Task \in Tasks
    BY TaskIsATask DEF TypeInv, StageInv
  <1>3. ASSUME pc' \notin Judging PROVE VerifierInv'
    BY <1>3, StageSets DEF VerifierInv
  <1>4. CASE Build \/ Extract \/ DigestBase \/ CaptureTree \/ CaptureFiles \/ RunAdapter
             \/ HashAdapter
    BY <1>3, <1>4, StageSets DEF Build, Extract, DigestBase, CaptureTree, CaptureFiles,
       RunAdapter, HashAdapter
  <1>5. CASE ValidatePatch \/ InstallPatch \/ ReturnPatch \/ StageVerifier
    BY <1>3, <1>5, StageSets DEF ValidatePatch, InstallPatch, ReturnPatch, StageVerifier
  <1>6. CASE HashVerifier
    <2>1. /\ pc' = "run" /\ UNCHANGED <<verifier, used, Task>>
          /\ used[Task] = {} /\ receipt'.verifier = verifier.code
      BY <1>6, ReceiptSet, StageSets DEF HashVerifier, Task, UsedInv
    <2> QED
      BY <2>1 DEF VerifierInv, RunsTold, RunsNamed
  <1>7. CASE RunVerifier
    <2>1. /\ pc = "run" /\ pc' \in {"run", "names"} /\ UNCHANGED <<verifier, edits, Task>>
          /\ receipt'.verifier = receipt.verifier
      BY <1>7, ReceiptKept DEF RunVerifier, Task
    <2>2. RunsTold(receipt, Task)'
      BY <1>1, <1>7, <2>1, RunToldStep, StageSets
    <2> DEFINE fixed == candidate.module # Torn /\ Task \in candidate.module
               u == [verifier |-> verifier.code, fixed |-> fixed]
    <2>3. used' = [used EXCEPT ![Task] = @ \cup {u}] /\ u.verifier = verifier.code
      BY <1>7 DEF RunVerifier
    <2> HIDE DEF u
    <2>4. used'[Task] = used[Task] \cup {u}
      BY <1>2, <2>1, <2>3, StageSets DEF TypeInv, HistoryInv
    <2>5. verifier.code = receipt.verifier /\ RunsNamed(receipt, Task) =>
             RunsNamed(receipt, Task)'
      BY <2>1, <2>3, <2>4 DEF RunsNamed
    <2> QED
      BY <1>1, <2>1, <2>2, <2>5, StageSets DEF VerifierInv
  <1>8. CASE CheckNames \/ CheckMode
    <2>1. /\ pc \in {"names", "mode"} /\ pc' \in {"mode", "unchanged"}
          /\ UNCHANGED <<verifier, edits, used, Task>>
      BY <1>8 DEF CheckNames, CheckMode, Task
    <2>2. receipt'.verifier = receipt.verifier /\ receipt'.runs = receipt.runs
      BY <2>1, ReceiptKept
    <2> QED
      BY <1>1, <2>1, <2>2, StageSets DEF VerifierInv, RunsTold, RunsNamed
  <1>9. CASE CheckUnchanged
    <2>1. /\ pc = "unchanged" /\ pc' = "digest patched"
          /\ UNCHANGED <<verifier, edits, used, Task>>
      BY <1>9 DEF CheckUnchanged, Task
    <2>2. receipt'.verifier = receipt.verifier /\ receipt'.runs = receipt.runs
      BY <2>1, ReceiptKept
    <2>3. receipt'.unchanged = (verifier.code = receipt.verifier)
      BY <1>9, ReceiptSet DEF Unchanged
    <2> QED
      BY <1>1, <2>1, <2>2, <2>3, StageSets DEF VerifierInv, RunsTold, RunsNamed
  <1>10. CASE DigestPatched \/ OpenReceipt \/ WriteReceipt \/ PrintReceipt \/ Fail
    BY <1>3, <1>10, StageSets DEF DigestPatched, OpenReceipt, WriteReceipt, PrintReceipt, Fail
  <1>11. CASE Edit
    <2>1. UNCHANGED <<pc, used, receipt, Task>> /\ edits' = [edits EXCEPT ![Task] = @ + 1]
      BY <1>11 DEF Edit, Task
    <2>2. CASE pc \in Judging
      <3>1. edits'[Task] = edits[Task] + 1 /\ edits[Task] \in Nat
        BY <1>2, <2>1, <2>2, StageSets DEF TypeInv, HistoryInv
      <3>2. RunsTold(receipt, Task)' /\ (RunsNamed(receipt, Task)' <=> RunsNamed(receipt, Task))
        BY <1>1, <2>1, <2>2 DEF RunsTold, RunsNamed
      <3>3. edits'[Task] <= 1 =>
               edits'[Task] = 1 /\ edits[Task] <= 1 /\ edits[Task] # 1
        BY <3>1
      <3>4. pc # "digest patched" /\ edits'[Task] <= 1 => RunsNamed(receipt, Task)
        BY <1>1, <2>2, <3>3
      <3>5. pc = "digest patched" /\ edits'[Task] <= 1 /\ receipt.unchanged =>
               RunsNamed(receipt, Task)
        BY <1>1, <3>3
      <3>6. \/ verifier'.code = receipt.verifier
            \/ verifier'.code # receipt.verifier
        OBVIOUS
      <3> HIDE DEF RunsTold, RunsNamed
      <3> QED
        BY <2>1, <2>2, <3>2, <3>3, <3>4, <3>5, <3>6 DEF VerifierInv
    <2> QED
      BY <1>3, <2>1, <2>2
  <1> QED
    BY <1>4, <1>5, <1>6, <1>7, <1>8, <1>9, <1>10, <1>11 DEF Next, Step

(***************************************************************************)
(* A task nobody disturbs                                                  *)
(***************************************************************************)
\* The mock repairs the defect, and the trusted verifier sees it is gone.
LEMMA MockRepairs ==
  ASSUME NEW n \in Nat, n < NumTasks, NEW answer \in Repairs("mock", Repaired(n), n + 1)
  PROVE  answer = Repaired(n + 1)
  <1>1. /\ Repaired(n) # Torn /\ n + 1 \notin Repaired(n)
        /\ Repaired(n) \cup {n + 1} = Repaired(n + 1)
    BY RepairedModule
  <1> HIDE DEF Repaired
  <1> QED
    BY <1>1 DEF Repairs

LEMMA FixPasses ==
  ASSUME NEW n \in Nat, n < NumTasks,
         NEW answer \in Answers("good", Clean(n + 1).module, n + 1)
  PROVE  answer = "pass"
  <1>1. Repaired(n + 1) # Torn /\ n + 1 \in Repaired(n + 1)
    BY RepairedModule
  <1>2. Clean(n + 1).module = Repaired(n + 1)
    BY DEF Clean
  <1> HIDE DEF Repaired
  <1> QED
    BY <1>1, <1>2 DEF Answers

LEMMA UndisturbedStep ==
  ASSUME TypeInv, Undisturbed, changes' = 0, Next
  PROVE  Undisturbed'
  <1> USE DEF Goto, Exit, Records, inputs, patching, history
  <1> HIDE DEF Repaired, Repairs, Answers
  <1>1. /\ adapter = "mock"
        /\ pc \in InTask \ Installed => candidate = Clean(Task - 1)
        /\ pc \in Installed => candidate = Clean(Task)
        /\ pc \in {"hash adapter", "validate", "install"} => content = Repaired(Task)
        /\ pc \in Staged => verifier = [code |-> "good", writable |-> FALSE]
    BY DEF Undisturbed
  <1>2. /\ pc \in InTask \ {"digest"} => receipt.base = Clean(Task - 1)
        /\ pc \in TreeRecorded => receipt.tree = Clean(Task - 1)
        /\ pc \in SeenRecorded => receipt.seen = Repaired(Task - 1)
        /\ pc \in AnswerRecorded => receipt.content = Repaired(Task) /\ receipt.adapter = "mock"
    BY DEF Undisturbed
  <1>3. /\ pc \in Judging => receipt.verifier = "good"
        /\ pc \in InTask \ Judging => receipt.runs = <<>>
        /\ pc = "run" => Len(receipt.runs) < Repetitions
        /\ pc \in Judging => \A i \in DOMAIN receipt.runs : receipt.runs[i] = "pass"
        /\ pc \in Judged => Len(receipt.runs) = Repetitions
        /\ pc \in Judged \ {"names"} => receipt.source_only = TRUE
        /\ pc \in {"unchanged", "digest patched"} => receipt.read_only = TRUE
        /\ pc = "digest patched" => receipt.unchanged = TRUE
    BY DEF Undisturbed
  <1>4. pc \in InTask \cup {"extract"} =>
           /\ Task - 1 \in Nat /\ Task - 1 < NumTasks /\ Task - 1 + 1 = Task
    BY TaskIsATask DEF TypeInv, StageInv, Task
  <1>5. ASSUME pc' \notin InTask, adapter' = "mock"
        PROVE  Undisturbed'
    BY <1>5, StageSets DEF Undisturbed, Judged
  <1> HIDE DEF Clean
  <1>6. CASE Build \/ DigestPatched \/ OpenReceipt \/ WriteReceipt \/ PrintReceipt \/ Fail
    BY <1>1, <1>5, <1>6, StageSets DEF Build, DigestPatched, OpenReceipt, WriteReceipt,
       PrintReceipt, Fail
  <1>7. CASE Extract
    <2>1. /\ pc' = "digest" /\ candidate' = Clean(Task' - 1) /\ adapter' = "mock"
          /\ receipt'.runs = <<>>
      BY <1>1, <1>7 DEF Extract, Clean, Task, NoReceipt
    <2> QED
      BY <2>1, StageSets DEF Undisturbed, Judged
  <1>8. CASE DigestBase
    <2>1. /\ pc = "digest" /\ pc' = "capture tree" /\ receipt'.base = candidate
          /\ receipt'.runs = receipt.runs /\ UNCHANGED <<candidate, adapter, Task>>
      BY <1>8, ReceiptSet, ReceiptKept DEF DigestBase, Task
    <2> QED
      BY <1>1, <1>3, <2>1, StageSets DEF Undisturbed, Judged
  <1>9. CASE CaptureTree
    <2>1. /\ pc = "capture tree" /\ pc' = "capture files" /\ receipt'.tree = candidate
          /\ receipt'.runs = receipt.runs /\ receipt'.base = receipt.base
          /\ UNCHANGED <<candidate, adapter, Task>>
      BY <1>9, ReceiptSet, ReceiptKept DEF CaptureTree, Task
    <2> QED
      BY <1>1, <1>2, <1>3, <2>1, StageSets DEF Undisturbed, Judged
  <1>10. CASE CaptureFiles
    <2>1. /\ pc = "capture files" /\ pc' = "adapter" /\ receipt'.seen = candidate.module
          /\ receipt'.runs = receipt.runs /\ receipt'.base = receipt.base
          /\ receipt'.tree = receipt.tree /\ UNCHANGED <<candidate, adapter, Task>>
      BY <1>10, ReceiptSet, ReceiptKept DEF CaptureFiles, Task
    <2>2. candidate = Clean(Task - 1)
      BY <1>1, <2>1, StageSets
    <2>3. candidate.module = Repaired(Task - 1)
      BY <2>2 DEF Clean
    <2> QED
      BY <1>1, <1>2, <1>3, <2>1, <2>3, StageSets DEF Undisturbed, Judged
  <1>11. CASE RunAdapter
    <2>1. /\ pc = "adapter" /\ pc' = "hash adapter"
          /\ content' \in Repairs("mock", receipt.seen, Task)
          /\ UNCHANGED <<candidate, adapter, receipt, Task>>
      BY <1>1, <1>11 DEF RunAdapter, Task
    <2>2. content' = Repaired(Task)
      BY <1>2, <1>4, <2>1, MockRepairs, StageSets
    <2> QED
      BY <1>1, <1>2, <1>3, <2>1, <2>2, StageSets DEF Undisturbed, Judged
  <1>12. CASE HashAdapter
    <2>1. /\ pc = "hash adapter" /\ pc' = "validate"
          /\ receipt'.content = content /\ receipt'.adapter = adapter
          /\ receipt'.runs = receipt.runs /\ receipt'.base = receipt.base
          /\ receipt'.tree = receipt.tree /\ receipt'.seen = receipt.seen
          /\ UNCHANGED <<candidate, adapter, content, Task>>
      BY <1>12, ReceiptSet, ReceiptKept DEF HashAdapter, Task
    <2> QED
      BY <1>1, <1>2, <1>3, <2>1, StageSets DEF Undisturbed, Judged
  <1>13. CASE ValidatePatch
    <2>1. /\ pc = "validate" /\ pc' = "install"
          /\ UNCHANGED <<candidate, adapter, content, receipt, Task>>
      BY <1>13 DEF ValidatePatch, Task
    <2> QED
      BY <1>1, <1>2, <1>3, <2>1, StageSets DEF Undisturbed, Judged
  <1>14. CASE InstallPatch
    <2>1. /\ pc = "install" /\ pc' = "return"
          /\ candidate' = [candidate EXCEPT !.module = content]
          /\ UNCHANGED <<adapter, receipt, Task>>
      BY <1>14 DEF InstallPatch, Task
    <2>2. candidate = Clean(Task - 1) /\ content = Repaired(Task)
      BY <1>1, <2>1, StageSets
    <2>3. candidate' = Clean(Task)
      BY <2>1, <2>2 DEF Clean
    <2> QED
      BY <1>1, <1>2, <1>3, <2>1, <2>3, StageSets DEF Undisturbed, Judged
  <1>15. CASE ReturnPatch
    <2>1. /\ pc = "return" /\ pc' = "stage"
          /\ UNCHANGED <<candidate, adapter, receipt, Task>>
      BY <1>15 DEF ReturnPatch, Task
    <2> QED
      BY <1>1, <1>2, <1>3, <2>1, StageSets DEF Undisturbed, Judged
  <1>16. CASE StageVerifier
    <2>1. /\ pc = "stage" /\ pc' = "hash verifier"
          /\ verifier' = [code |-> "good", writable |-> FALSE]
          /\ UNCHANGED <<candidate, adapter, receipt, Task>>
      BY <1>16 DEF StageVerifier, Task
    <2> QED
      BY <1>1, <1>2, <1>3, <2>1, StageSets DEF Undisturbed, Judged
  <1>17. ASSUME pc \in Staged, pc' \in Judging, UNCHANGED <<candidate, adapter, verifier, Task>>,
                receipt'.verifier = "good",
                pc' = "run" => Len(receipt'.runs) < Repetitions,
                \A i \in DOMAIN receipt'.runs : receipt'.runs[i] = "pass",
                pc' \in Judged => Len(receipt'.runs) = Repetitions,
                pc' \in Judged \ {"names"} => receipt'.source_only = TRUE,
                pc' \in {"unchanged", "digest patched"} => receipt'.read_only = TRUE,
                pc' = "digest patched" => receipt'.unchanged = TRUE
         PROVE  Undisturbed'
    <2>1. /\ receipt'.base = receipt.base /\ receipt'.tree = receipt.tree
          /\ receipt'.seen = receipt.seen /\ receipt'.content = receipt.content
          /\ receipt'.adapter = receipt.adapter
      BY <1>17, ReceiptKept, StageSets
    <2> QED
      BY <1>1, <1>2, <1>17, <2>1, StageSets DEF Undisturbed
  <1>18. CASE HashVerifier
    <2>1. /\ pc = "hash verifier" /\ pc' = "run"
          /\ receipt'.verifier = verifier.code /\ receipt'.runs = receipt.runs
          /\ UNCHANGED <<candidate, adapter, verifier, Task>>
      BY <1>18, ReceiptSet, ReceiptKept DEF HashVerifier, Task
    <2>2. verifier = [code |-> "good", writable |-> FALSE] /\ receipt'.runs = <<>>
      BY <1>1, <1>3, <2>1, StageSets
    <2>3. receipt'.verifier = "good"
      BY <2>1, <2>2
    <2>4. /\ Len(receipt'.runs) < Repetitions
          /\ \A i \in DOMAIN receipt'.runs : receipt'.runs[i] = "pass"
      BY <2>2 DEF Repetitions
    <2> QED
      BY <1>17, <2>1, <2>3, <2>4, StageSets DEF Judged
  <1>19. CASE RunVerifier
    <2>1. PICK answer \in Answers(verifier.code, candidate.module, Task) :
             receipt'.runs = Append(receipt.runs, answer)
      BY <1>19, ReceiptSet
    <2>2. /\ pc = "run" /\ receipt'.verifier = receipt.verifier
          /\ pc' = (IF Len(receipt'.runs) = Repetitions THEN "names" ELSE "run")
          /\ UNCHANGED <<candidate, adapter, verifier, Task>>
      BY <1>19, ReceiptKept DEF RunVerifier, EnoughRuns, Task
    <2>3. answer = "pass"
      <3>1. candidate = Clean(Task) /\ verifier = [code |-> "good", writable |-> FALSE]
        BY <1>1, <2>2, StageSets
      <3>2. answer \in Answers("good", Clean(Task).module, Task)
        BY <2>1, <3>1
      <3>3. Task - 1 \in Nat /\ Task - 1 < NumTasks /\ Task - 1 + 1 = Task
        BY <1>4, <2>2, StageSets
      <3> QED
        BY <3>2, <3>3, FixPasses
    <2>4. receipt.runs \in Seq({"pass", "fail", "exception"})
      BY DEF TypeInv, ValueInv, Receipts, Runs
    <2>5. \A i \in DOMAIN receipt.runs : receipt.runs[i] = "pass"
      BY <1>3, <2>2, StageSets
    <2>6. /\ Len(receipt.runs) \in Nat /\ Len(receipt'.runs) = Len(receipt.runs) + 1
          /\ \A i \in DOMAIN receipt'.runs : receipt'.runs[i] = "pass"
      BY <2>1, <2>3, <2>4, <2>5, Appending
    <2>7. Len(receipt'.runs) # Repetitions => Len(receipt'.runs) < Repetitions
      BY <1>3, <2>2, <2>6 DEF Repetitions
    <2> QED
      BY <1>3, <1>17, <2>2, <2>6, <2>7, StageSets DEF Judged
  <1>20. CASE CheckNames
    <2>1. /\ pc = "names" /\ pc' = "mode"
          /\ receipt'.source_only = (candidate.extra \notin {"git", "verifier"})
          /\ receipt'.verifier = receipt.verifier /\ receipt'.runs = receipt.runs
          /\ UNCHANGED <<candidate, adapter, verifier, Task>>
      BY <1>20, ReceiptSet, ReceiptKept DEF CheckNames, Task
    <2>2. candidate = Clean(Task)
      BY <1>1, <2>1, StageSets
    <2>3. candidate.extra = "none"
      BY <2>2 DEF Clean
    <2>4. receipt'.source_only = TRUE
      BY <2>1, <2>3
    <2> QED
      BY <1>3, <1>17, <2>1, <2>4, StageSets DEF Judged
  <1>21. CASE CheckMode
    <2>1. /\ pc = "mode" /\ pc' = "unchanged" /\ receipt'.read_only = ~verifier.writable
          /\ receipt'.verifier = receipt.verifier /\ receipt'.runs = receipt.runs
          /\ receipt'.source_only = receipt.source_only
          /\ UNCHANGED <<candidate, adapter, verifier, Task>>
      BY <1>21, ReceiptSet, ReceiptKept DEF CheckMode, Task
    <2>2. verifier = [code |-> "good", writable |-> FALSE]
      BY <1>1, <2>1, StageSets
    <2>3. receipt'.read_only = TRUE
      BY <2>1, <2>2
    <2> QED
      BY <1>3, <1>17, <2>1, <2>3, StageSets DEF Judged
  <1>22. CASE CheckUnchanged
    <2>1. /\ pc = "unchanged" /\ pc' = "digest patched"
          /\ receipt'.unchanged = (verifier.code = receipt.verifier)
          /\ receipt'.verifier = receipt.verifier /\ receipt'.runs = receipt.runs
          /\ receipt'.source_only = receipt.source_only
          /\ receipt'.read_only = receipt.read_only
          /\ UNCHANGED <<candidate, adapter, verifier, Task>>
      BY <1>22, ReceiptSet, ReceiptKept DEF CheckUnchanged, Unchanged, Task
    <2>2. verifier = [code |-> "good", writable |-> FALSE] /\ receipt.verifier = "good"
      BY <1>1, <1>3, <2>1, StageSets
    <2>3. receipt'.unchanged = TRUE
      BY <2>1, <2>2
    <2> QED
      BY <1>3, <1>17, <2>1, <2>3, StageSets DEF Judged
  <1>23. ~Edit
    <2>1. Edit => changes' = changes + 1
      BY DEF Edit
    <2> QED
      BY <2>1, HistoryStep
  <1> QED
    BY <1>6, <1>7, <1>8, <1>9, <1>10, <1>11, <1>12, <1>13, <1>14, <1>15, <1>16, <1>18, <1>19,
       <1>20, <1>21, <1>22, <1>23 DEF Next, Step

(***************************************************************************)
(* Finished receipts                                                       *)
(***************************************************************************)
LEMMA FinishedKept ==
  ASSUME TypeInv, Next, NEW k \in DOMAIN receipts, receipts'[k] = receipts[k],
         Finished(receipts[k], k)
  PROVE  Finished(receipts[k], k)'
  <1>1. changes \in Nat /\ changes' \in Nat /\ changes' >= changes
    BY HistoryStep
  <1>2. (changes' <= 1 => changes <= 1) /\ (changes' = 0 => changes = 0)
    BY <1>1
  <1>3. edits'[k] = edits[k] /\ moved'[k] = moved[k] /\ used'[k] = used[k]
    BY HistoryStep
  <1> HIDE DEF Repairs, Expected
  <1> QED
    BY <1>2, <1>3 DEF Finished, RunsNamed, RunsTold

\* Every field of an undisturbed receipt is as expected, so the receipt is.
LEMMA ExpectedFields ==
  ASSUME NEW r \in Receipts, NEW k,
         r.base = Clean(k - 1), r.tree = Clean(k - 1), r.seen = Repaired(k - 1),
         r.content = Repaired(k), r.patched = Clean(k), r.adapter = "mock",
         r.verifier = "good", Len(r.runs) = Repetitions,
         \A i \in DOMAIN r.runs : r.runs[i] = "pass",
         r.source_only = TRUE, r.read_only = TRUE, r.unchanged = TRUE
  PROVE  r = Expected(k)
  <1>1. r.runs \in Seq({"pass", "fail", "exception"})
    BY DEF Receipts, Runs
  <1>2. r.runs = [i \in 1 .. Repetitions |-> "pass"]
    BY <1>1
  <1>3. r = [base |-> r.base, tree |-> r.tree, seen |-> r.seen, content |-> r.content,
             patched |-> r.patched, adapter |-> r.adapter, verifier |-> r.verifier,
             runs |-> r.runs, source_only |-> r.source_only,
             read_only |-> r.read_only, unchanged |-> r.unchanged]
    BY DEF Receipts
  <1> HIDE DEF Repaired, Repetitions
  <1> QED
    BY <1>2, <1>3 DEF Expected, Clean

LEMMA FinishedNow ==
  ASSUME TypeInv, PatchInv, AdapterInv, VerifierInv, changes = 0 => Undisturbed,
         pc = "digest patched"
  PROVE  Finished([receipt EXCEPT !.patched = candidate], Task)
  <1> DEFINE r == [receipt EXCEPT !.patched = candidate]
  <1>1. r \in Receipts /\ receipt \in Receipts
    BY ReceiptTyped, StageSets DEF TypeInv, ValueInv, StageInv
  <1>2. /\ r.patched = candidate /\ r.base = receipt.base /\ r.tree = receipt.tree
        /\ r.seen = receipt.seen /\ r.content = receipt.content
        /\ r.adapter = receipt.adapter /\ r.verifier = receipt.verifier
        /\ r.runs = receipt.runs /\ r.source_only = receipt.source_only
        /\ r.read_only = receipt.read_only /\ r.unchanged = receipt.unchanged
    BY <1>1 DEF Receipts
  <1> HIDE DEF r
  <1>3. ~moved[Task] => r.patched = [r.tree EXCEPT !.module = r.content]
                        /\ r.seen = r.tree.module
    BY <1>2, StageSets DEF PatchInv
  <1>4. edits[Task] <= 1 /\ r.unchanged => RunsNamed(r, Task)
    BY <1>2 DEF VerifierInv, RunsNamed
  <1>5. RunsTold(r, Task)
    BY <1>2, StageSets DEF VerifierInv, RunsTold
  <1> HIDE DEF Repairs
  <1>6. changes <= 1 /\ r.adapter = "mock" => r.content \in Repairs("mock", r.seen, Task)
    BY <1>2, StageSets DEF AdapterInv
  <1>7. changes = 0 => r = Expected(Task)
    <2> HAVE changes = 0
    <2> HIDE DEF Clean, Repaired, Expected
    <2>1. /\ r.base = Clean(Task - 1) /\ r.tree = Clean(Task - 1)
          /\ r.seen = Repaired(Task - 1) /\ r.content = Repaired(Task)
          /\ r.patched = Clean(Task) /\ r.adapter = "mock" /\ r.verifier = "good"
      BY <1>2, StageSets DEF Undisturbed
    <2>2. /\ Len(r.runs) = Repetitions /\ \A i \in DOMAIN r.runs : r.runs[i] = "pass"
          /\ r.source_only = TRUE /\ r.read_only = TRUE /\ r.unchanged = TRUE
      BY <1>2, StageSets DEF Undisturbed, Judged
    <2> QED
      BY <1>1, <2>1, <2>2, ExpectedFields
  <1>8. Finished(r, Task)
    BY <1>3, <1>4, <1>5, <1>6, <1>7 DEF Finished
  <1> QED
    BY <1>8 DEF r

LEMMA FinishedStep == ASSUME IInv, Next PROVE FinishedInv'
  <1>1. TypeInv /\ FinishedInv
    BY DEF IInv
  <1>2. CASE ~DigestPatched
    BY <1>1, <1>2, FinishedKept, SameTask DEF FinishedInv
  <1>3. CASE DigestPatched
    <2>1. /\ DOMAIN receipts' = DOMAIN receipts \cup {Task}
          /\ \A k \in DOMAIN receipts : receipts'[k] = receipts[k]
          /\ receipts'[Task] = [receipt EXCEPT !.patched = candidate]
      BY <1>1, <1>3, ReceiptAdded
    <2>2. \A k \in DOMAIN receipts : Finished(receipts[k], k)'
      BY <1>1, <2>1, FinishedKept DEF FinishedInv
    <2>3. Finished([receipt EXCEPT !.patched = candidate], Task)
      BY <1>3, FinishedNow DEF IInv, DigestPatched
    <2>4. PICK k : k = Task
      OBVIOUS
    <2>5. UNCHANGED <<edits, changes, moved, used>>
      BY <1>3 DEF DigestPatched, history
    <2>6. receipts'[k] = [receipt EXCEPT !.patched = candidate]
      BY <2>1, <2>4
    <2>7. Finished(receipts[k], k)'
      <3> HIDE DEF Repairs, Expected
      <3> QED
        BY <2>3, <2>4, <2>5, <2>6 DEF Finished, RunsNamed, RunsTold
    <2> QED
      BY <2>1, <2>2, <2>4, <2>7 DEF FinishedInv
  <1> QED
    BY <1>2, <1>3

(***************************************************************************)
(* The theorems                                                            *)
(***************************************************************************)
LEMMA InitInv == Init => IInv
  <1> SUFFICES ASSUME Init PROVE IInv
    OBVIOUS
  <1>1. TypeInv
    BY TypeInit
  <1>2. pc = "build" /\ adapter = "mock" /\ receipts = <<>>
    BY DEF Init
  <1>3. EditInv
    BY DEF Init, EditInv
  <1>4. UsedInv
    <2>1. Task = 1 /\ Task \in Tasks
      BY <1>2, TaskCount DEF Task, Tasks
    <2> QED
      BY <2>1 DEF Init, UsedInv
  <1>5. PatchInv /\ AdapterInv /\ VerifierInv
    BY <1>2, StageSets DEF PatchInv, AdapterInv, VerifierInv
  <1>6. Undisturbed
    BY <1>2, StageSets DEF Undisturbed, Judged
  <1>7. FinishedInv
    BY <1>2 DEF FinishedInv
  <1> QED
    BY <1>1, <1>3, <1>4, <1>5, <1>6, <1>7 DEF IInv

LEMMA StepInv == IInv /\ [Next]_vars => IInv'
  <1> SUFFICES ASSUME IInv, [Next]_vars PROVE IInv'
    OBVIOUS
  <1>1. CASE Next
    <2>1. TypeInv' /\ EditInv' /\ UsedInv'
      BY <1>1, TypeStep, EditStep, UsedStep DEF IInv
    <2>2. PatchInv' /\ AdapterInv' /\ VerifierInv'
      BY <1>1, PatchStep, AdapterStep, VerifierStep DEF IInv
    <2>3. changes' = 0 => changes = 0
      BY <1>1, HistoryStep DEF IInv
    <2>4. changes' = 0 => Undisturbed'
      BY <1>1, <2>3, UndisturbedStep DEF IInv
    <2>5. FinishedInv'
      BY <1>1, FinishedStep
    <2> QED
      BY <2>1, <2>2, <2>4, <2>5 DEF IInv
  <1>2. CASE UNCHANGED vars
    <2> USE <1>2 DEF vars, inputs, patching, history
    <2>1. TypeInv'
      BY ZenonT(40) DEF IInv, TypeInv, ValueInv, CallInv, HistoryInv, StageInv
    <2>2. EditInv' /\ UsedInv'
      BY DEF IInv, EditInv, UsedInv, Task
    <2>3. PatchInv' /\ AdapterInv'
      BY DEF IInv, PatchInv, AdapterInv, Task
    <2>4. VerifierInv'
      BY DEF IInv, VerifierInv, RunsNamed, RunsTold, Task
    <2>5. changes' = 0 => Undisturbed'
      BY DEF IInv, Undisturbed, Task
    <2>6. FinishedInv'
      BY DEF IInv, FinishedInv, Finished, RunsNamed, RunsTold
    <2> QED
      BY <2>1, <2>2, <2>3, <2>4, <2>5, <2>6 DEF IInv
  <1> QED
    BY <1>1, <1>2

\* The inductive invariant holds throughout controlled-agent-replay.
THEOREM ReplayInvariant == Spec => []IInv
  BY InitInv, StepInv, PTL DEF Spec

\* Every variable has its type; each stage has what it works on, and an
\* artifact that is to be installed was accepted.
THEOREM TypeCorrect == Spec => []TypeOK
  <1>1. IInv => TypeOK
    <2> SUFFICES ASSUME IInv PROVE TypeOK
      OBVIOUS
    <2>1. ValueInv /\ CallInv /\ HistoryInv /\ StageInv
      BY DEF IInv, TypeInv
    <2>2. Len(todo) <= 1
      <3>1. Len(<<>>) = 0 /\ \A x : Len(<<x>>) = 1
        OBVIOUS
      <3>2. Len(todo) \in {0, 1}
        BY <2>1, <3>1 DEF CallInv
      <3>3. \A n \in {0, 1} : n <= 1
        OBVIOUS
      <3> QED
        BY <3>2, <3>3
    <2>3. changes <= MaxEdits
      BY <2>1, EditBound DEF HistoryInv
    <2>4. pc \in Staged => verifier # Missing
      BY <2>1, MissingIsNoFile DEF StageInv
    <2> QED
      BY <2>1, <2>2, <2>3, <2>4, StageSets DEF TypeOK, ValueInv, CallInv
  <1> QED
    BY <1>1, ReplayInvariant, PTL

\* Whatever another program does before an artifact is validated, and unless
\* it changes the workspace later, the patched snapshot is the tree of the
\* request with the artifact's one replacement.
THEOREM PatchedTree == Spec => []PatchedIsRequestedPlusPatch
  <1>1. IInv => PatchedIsRequestedPlusPatch
    BY DEF IInv, FinishedInv, Finished, PatchedIsRequestedPlusPatch
  <1> QED
    BY <1>1, ReplayInvariant, PTL

\* Nobody interfering, the receipts are those every run of the suite records.
THEOREM StableReceipts == Spec => []ReceiptsAreStable
  <1>1. IInv => ReceiptsAreStable
    BY DEF IInv, FinishedInv, Finished, ReceiptsAreStable
  <1> QED
    BY <1>1, ReplayInvariant, PTL

\* However the one change of another program is placed among the hashes and
\* the runs, a passed gate names the verifier that was run, which saw the fix
\* if it is the trusted one; and the mock is not credited with another's answer.
THEOREM TrueVerdict == Spec => []VerdictIsTrue
  <1>1. IInv => VerdictIsTrue
    <2> SUFFICES ASSUME IInv, NEW k \in DOMAIN receipts,
                        edits[k] <= 1, GatePassed(receipts[k])
                 PROVE  /\ \A u \in used[k] : /\ u.verifier = receipts[k].verifier
                                              /\ u.verifier = "good" => u.fixed
                        /\ changes <= 1 /\ receipts[k].adapter = "mock" =>
                              receipts[k].content \in Repairs("mock", receipts[k].seen, k)
      BY DEF VerdictIsTrue
    <2> HIDE DEF Repairs
    <2>1. Finished(receipts[k], k)
      BY DEF IInv, FinishedInv
    <2>2. RunsNamed(receipts[k], k)
      BY <2>1 DEF Finished, GatePassed
    <2>3. ~\E i \in DOMAIN receipts[k].runs : receipts[k].runs[i] # "pass"
      BY DEF GatePassed
    <2>4. ~\E u \in used[k] : u.verifier = "good" /\ ~u.fixed
      BY <2>1, <2>3 DEF Finished, RunsTold
    <2> QED
      BY <2>1, <2>2, <2>4 DEF Finished, RunsNamed
  <1> QED
    BY <1>1, ReplayInvariant, PTL

=============================================================================
