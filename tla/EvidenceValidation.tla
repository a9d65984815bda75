------------------------- MODULE EvidenceValidation -------------------------
(***************************************************************************)
(* The commands "validate" and "new-evidence" of src/src/reposeal/         *)
(* __main__.py over the evidence files of src/src/reposeal/evidence.py.    *)
(*                                                                         *)
(* Several processes run them on one evidence directory while another      *)
(* program replaces its files.  A digest is the content it is taken from,  *)
(* a file name is a number (names sort as numbers), and a receipt is the   *)
(* sequence of its task reports.                                           *)
(***************************************************************************)
EXTENDS Falsification, FiniteSets, SequencesExt

CONSTANTS
    Validators,  \* processes running "validate"
    Drafters,    \* processes running "new-evidence"
    Names,       \* names of *.json entries in the evidence directory
    Contents,    \* what files may hold: a document, or bytes that are none
    Garbage,     \* bytes that are no JSON object, or repeat a key
    Nested,      \* JSON nested beyond the recursion limit of the parser
    LinkTarget,  \* what a symbolic link leads to
    Starts,      \* the directories a run may start from
    MaxBytes,    \* MAX_EVIDENCE_BYTES
    MaxBatch,    \* MAX_BATCH_FILES
    Bounds,      \* bounds, one for each run: the processes that start, and how
                 \* often another program replaces a file by which contents
    Missing, Symlink, None

Files == [content : Contents, by : Drafters \cup {None}]
Entries == Files \cup {Missing, Symlink}

ASSUME EvidenceConstants ==
    /\ Validators \cap Drafters = {}
    /\ Names \subseteq Nat /\ IsFiniteSet(Names)
    /\ \A c \in Contents : c = [doc |-> c.doc, size |-> c.size] /\ c.size \in Nat
    /\ LinkTarget \in Contents
    /\ MaxBytes \in Nat /\ MaxBatch \in Nat \ {0}
    /\ \A b \in Bounds : /\ b.running \subseteq Validators \cup Drafters
                         /\ b.edits \in Nat /\ b.contents \subseteq Contents
    /\ Starts \subseteq [Names -> Entries]
    /\ \A n \in 0 .. 2 : None # n

VARIABLES
    dir,      \* the evidence directory
    out,      \* the entry --output names
    pc,       \* where each process is
    kind,     \* "task" for a file, "task_set" for a directory
    saves,    \* was --output given?
    listed,   \* the candidates, in the order of their names
    reports,  \* the reports made so far
    code,     \* the exit status
    target,   \* the file a draft is written to
    edits,    \* replacements made
    bound,    \* the bounds of this run
    was       \* history: what each entry held since a validation began

validation == <<kind, saves, listed, reports>>
outside == <<edits, bound>>
vars == <<dir, out, pc, validation, code, target, outside, was>>

Procs == Validators \cup Drafters
Deciding == {"deciding", "opening", "writing", "reporting"}
Stages == Deciding \cup {"idle", "inspecting", "reading", "creating", "filling",
                         "ended", "killed"}

(***************************************************************************)
(* Operators                                                               *)
(***************************************************************************)
\* Opening an entry follows a symbolic link.
Named(entry) == IF entry = Symlink THEN {LinkTarget}
                ELSE IF entry = Missing THEN {} ELSE {entry.content}

\* handle.read(MAX_EVIDENCE_BYTES + 1)
Read(c) == [c EXCEPT !.size = IF c.size > MaxBytes THEN MaxBytes + 1 ELSE c.size]

\* Mutant of SmallEnough: the size is only looked at before the file is read.
AnySize(c) == TRUE

SmallEnough(c) == c.size <= MaxBytes

\* The exceptions "validate" does not catch end the interpreter.
Uncaught(c) == c.doc = Nested \/ (c.doc # Garbage /\ Overflows(c.doc))

Judged(c) == c.doc \notin {Garbage, Nested} /\ Verdict(c.doc) \in {"ELIGIBLE", "HOLD"}

ASSUME TasksAreNumbers == \A c \in Contents : Judged(c) => c.doc.task_id \in Nat

\* validate_evidence_file: one content decides task, digest and findings.
ReportOn(c) == [task |-> c.doc.task_id, digest |-> c, findings |-> Findings(c.doc)]
Reports == {ReportOn(c) : c \in {d \in Contents : Judged(d)}}

\* What --output may become.
Outputs == [by : Validators, whole : BOOLEAN, kind : {"task", "task_set"},
            reports : Seq(Reports)]

ASSUME MissingIsNoOutput == Missing \notin Outputs /\ Symlink \notin Outputs

\* The elements of S by their keys, which differ.
Sorted(S, key) == CHOOSE s \in SetToSeqs(S) :
                      \A i, j \in DOMAIN s : i < j => key[s[i]] < key[s[j]]

Duplicates(rs) == \E i, j \in DOMAIN rs : i # j /\ rs[i].task = rs[j].task

\* Mutant of Ordered: the reports stay in the order of the file names.
Unordered(rs) == rs

\* TaskSetEvidenceReport sorts by task (and digest, should tasks be equal).
Ordered(rs) == Sorted(ToSet(rs), [r \in ToSet(rs) |-> r.task])

\* Mutant of Eligible: one eligible task makes the set eligible.
AnyEligible(rs) == \E i \in DOMAIN rs : rs[i].findings = NoFindings

\* A set is held as soon as one of its tasks is.
Eligible(rs) == \A i \in DOMAIN rs : rs[i].findings = NoFindings

Init ==
    /\ dir \in Starts
    /\ out \in {Missing, Symlink}
    /\ pc = [p \in Procs |-> "idle"]
    /\ kind = [p \in Validators |-> "task"]
    /\ saves = [p \in Validators |-> FALSE]
    /\ listed = [p \in Validators |-> <<>>]
    /\ reports = [p \in Validators |-> <<>>]
    /\ code = [p \in Procs |-> None]
    /\ target = [d \in Drafters |-> None]
    /\ edits = 0 /\ bound \in Bounds
    /\ was = [p \in Validators |-> [n \in Names |-> {}]]

Goto(p, stage) == pc' = [pc EXCEPT ![p] = stage] /\ UNCHANGED code
Exit(p, status) == /\ pc' = [pc EXCEPT ![p] = "ended"]
                   /\ code' = [code EXCEPT ![p] = status]

(***************************************************************************)
(* reposeal validate                                                       *)
(***************************************************************************)
Begins(p, names) ==
    /\ listed' = [listed EXCEPT ![p] = names]
    /\ was' = [was EXCEPT ![p] = [n \in Names |-> Named(dir[n])]]
    /\ saves' \in {saves, [saves EXCEPT ![p] = TRUE]}
    /\ UNCHANGED <<dir, out, reports, target, outside>>

ValidateFile(p, n) ==
    /\ pc[p] = "idle" /\ p \in bound.running
    /\ Begins(p, <<n>>)
    /\ Goto(p, "inspecting")
    /\ UNCHANGED kind

\* Mutant of BatchSize: a directory without evidence is not refused.
AtMost(n) == n <= MaxBatch

BatchSize(n) == n \in 1 .. MaxBatch

\* validate_evidence_path on a directory: its .json entries by name.
ValidateDirectory(p) ==
    LET present == {n \in Names : dir[n] # Missing} IN
    /\ pc[p] = "idle" /\ p \in bound.running
    /\ Begins(p, Sorted(present, [n \in present |-> n]))
    /\ kind' = [kind EXCEPT ![p] = "task_set"]
    /\ IF BatchSize(Cardinality(present)) THEN Goto(p, "inspecting") ELSE Exit(p, 2)

Current(p) == listed[p][Len(reports[p]) + 1]

\* is_symlink and stat of the next file.
Inspect(p) ==
    LET entry == dir[Current(p)] IN
    /\ pc[p] = "inspecting"
    /\ IF entry \notin {Missing, Symlink} /\ entry.content.size <= MaxBytes
         THEN Goto(p, "reading") ELSE Exit(p, 2)
    /\ UNCHANGED <<dir, out, validation, target, outside, was>>

\* open, read, parse and judge; by then the entry may be another one.
ReadFile(p) ==
    /\ pc[p] = "reading"
    /\ IF dir[Current(p)] = Missing THEN Exit(p, 2) /\ UNCHANGED reports
       ELSE \E c \in {Read(x) : x \in Named(dir[Current(p)])} :
              IF ~SmallEnough(c) THEN Exit(p, 2) /\ UNCHANGED reports
              ELSE IF Uncaught(c) THEN Exit(p, 1) /\ UNCHANGED reports
              ELSE IF ~Judged(c) THEN Exit(p, 2) /\ UNCHANGED reports
              ELSE /\ reports' = [reports EXCEPT ![p] = Append(@, ReportOn(c))]
                   /\ Goto(p, IF Len(reports'[p]) = Len(listed[p]) THEN "deciding"
                                                                   ELSE "inspecting")
    /\ UNCHANGED <<dir, out, kind, saves, listed, target, outside, was>>

Decide(p) ==
    /\ pc[p] = "deciding"
    /\ IF Duplicates(reports[p])
         THEN Exit(p, 2) /\ UNCHANGED reports
         ELSE /\ reports' = [reports EXCEPT ![p] = Ordered(reports[p])]
              /\ Goto(p, IF saves[p] THEN "opening" ELSE "reporting")
    /\ UNCHANGED <<dir, out, kind, saves, listed, target, outside, was>>

\* Mutant of MayCreate: the file is opened with mode "w".
AnyEntry(entry) == TRUE

\* Mode "x" creates the file or raises, a dangling link included.
MayCreate(entry) == entry = Missing

\* _write_new_text: the receipt file exists, still empty ...
OpenOutput(p) ==
    /\ pc[p] = "opening"
    /\ IF MayCreate(out)
         THEN /\ out' = [by |-> p, whole |-> FALSE, kind |-> kind[p],
                       reports |-> reports[p]]
              /\ Goto(p, "writing")
         ELSE Exit(p, 2) /\ UNCHANGED out
    /\ UNCHANGED <<dir, validation, target, outside, was>>

\* ... and is written; an error leaves what was written so far.
WriteOutput(p) ==
    /\ pc[p] = "writing"
    /\ \/ /\ out' = IF out.by = p THEN [out EXCEPT !.whole = TRUE] ELSE out
          /\ Goto(p, "reporting")
       \/ Exit(p, 2) /\ UNCHANGED out
    /\ UNCHANGED <<dir, validation, target, outside, was>>

\* The report goes to standard output; the exit status is the decision.
ReportDecision(p) ==
    /\ pc[p] = "reporting"
    /\ Exit(p, IF Eligible(reports[p]) THEN 0 ELSE 1)
    /\ UNCHANGED <<dir, out, validation, target, outside, was>>

\* An OSError while listing, reading or printing.
Fail(p) ==
    /\ pc[p] \in {"inspecting", "reading", "opening", "reporting"}
    /\ Exit(p, 2)
    /\ UNCHANGED <<dir, out, validation, target, outside, was>>

(***************************************************************************)
(* reposeal new-evidence                                                   *)
(***************************************************************************)
Empty == [doc |-> Garbage, size |-> 0]
Filled == [doc |-> Draft(1), size |-> 1]

\* What validations under way may see of an entry from now on.
Becomes(n, entry) ==
    /\ dir' = [dir EXCEPT ![n] = entry]
    /\ was' = [p \in Validators |->
                 IF pc[p] \in {"inspecting", "reading"}
                   THEN [was[p] EXCEPT ![n] = @ \cup Named(entry)] ELSE was[p]]

\* path.exists() or path.is_symlink()
StartDraft(d, n) ==
    /\ pc[d] = "idle" /\ d \in bound.running
    /\ IF dir[n] = Missing THEN /\ target' = [target EXCEPT ![d] = n]
                                /\ Goto(d, "creating")
                           ELSE Exit(d, 2) /\ UNCHANGED target
    /\ UNCHANGED <<dir, out, validation, outside, was>>

CreateDraft(d) ==
    /\ pc[d] = "creating"
    /\ IF MayCreate(dir[target[d]])
         THEN /\ Becomes(target[d], [content |-> Empty, by |-> d])
              /\ Goto(d, "filling")
         ELSE Exit(d, 2) /\ UNCHANGED <<dir, was>>
    /\ UNCHANGED <<out, validation, target, outside>>

\* The write reaches the file that was created, if it is still named; what is
\* printed afterwards may fail.
FillDraft(d) ==
    /\ pc[d] = "filling"
    /\ IF dir[target[d]] = [content |-> Empty, by |-> d]
         THEN Becomes(target[d], [content |-> Filled, by |-> d])
         ELSE UNCHANGED <<dir, was>>
    /\ Exit(d, 0) \/ Exit(d, 2)
    /\ UNCHANGED <<out, validation, target, outside>>

FailDraft(d) ==
    /\ pc[d] \in {"creating", "filling"}
    /\ Exit(d, 2)
    /\ UNCHANGED <<dir, out, validation, target, outside, was>>

(***************************************************************************)
(* The rest of the system                                                  *)
(***************************************************************************)
Kill(p) ==
    /\ pc[p] \notin {"idle", "ended", "killed"}
    /\ Goto(p, "killed")
    /\ UNCHANGED <<dir, out, validation, target, outside, was>>

\* Another program replaces, removes or links an entry.
EditEntry(n) ==
    /\ edits < bound.edits /\ edits' = edits + 1
    /\ \E entry \in [content : bound.contents, by : {None}] \cup {Missing, Symlink} :
          /\ entry # dir[n]
          /\ Becomes(n, entry)
    /\ UNCHANGED <<out, pc, validation, code, target, bound>>

ValidateStep(p) ==
    \/ \E n \in Names : ValidateFile(p, n)
    \/ ValidateDirectory(p) \/ Inspect(p) \/ ReadFile(p) \/ Decide(p)
    \/ OpenOutput(p) \/ WriteOutput(p) \/ ReportDecision(p) \/ Fail(p)

DraftStep(d) ==
    \/ \E n \in Names : StartDraft(d, n)
    \/ CreateDraft(d) \/ FillDraft(d) \/ FailDraft(d)

Next == \/ \E p \in Validators : ValidateStep(p)
        \/ \E d \in Drafters : DraftStep(d)
        \/ \E p \in Procs : Kill(p)
        \/ \E n \in Names : EditEntry(n)

Spec == Init /\ [][Next]_vars

(***************************************************************************)
(* Properties                                                              *)
(***************************************************************************)
\* A report of p is about one whole content that one of the files it was asked
\* to look at held since it began.
IsTrue(p, r) ==
    /\ \E i \in DOMAIN listed[p] : r.digest \in was[p][listed[p][i]]
    /\ r.digest.size <= MaxBytes
    /\ Judged(r.digest) /\ r = ReportOn(r.digest)

\* Every variable has its type.
TypeOK ==
    /\ dir \in [Names -> Entries \cup [content : {Empty, Filled}, by : Drafters]]
    /\ out \in {Missing, Symlink} \cup Outputs
    /\ pc \in [Procs -> Stages]
    /\ kind \in [Validators -> {"task", "task_set"}]
    /\ saves \in [Validators -> BOOLEAN]
    /\ code \in [Procs -> {0, 1, 2, None}]
    /\ target \in [Drafters -> Names \cup {None}]
    /\ \A p \in Validators : /\ ToSet(listed[p]) \subseteq Names
                              /\ Len(reports[p]) <= Len(listed[p])
                              /\ pc[p] \notin {"idle", "ended"} =>
                                    Len(listed[p]) \in 1 .. MaxBatch
    /\ edits \in 0 .. bound.edits

\* A decision rests on every file that was listed, each report true of a
\* content the file held meanwhile though files are replaced under the
\* validator, and on no task twice (docs/adr/0004-mvp-closure.md:18: evidence
\* that is missing, malformed, duplicated or oversized fails closed).
DecisionIsTrue ==
    \A p \in Validators : pc[p] \in Deciding \/ code[p] = 0 =>
        /\ Len(reports[p]) = Len(listed[p])
        /\ \A i \in DOMAIN reports[p] : IsTrue(p, reports[p][i])
        /\ pc[p] # "deciding" => ~Duplicates(reports[p])

\* No draft, whole or half written, is ever part of a decision
\* (docs/adr/0003-evidence-workflow.md:21: it is "deliberately invalid").
DraftsAreNotJudged ==
    \A p \in Validators : \A i \in DOMAIN reports[p] :
        reports[p][i].digest \notin {Empty, Filled}

\* Status 0 is never wrong: every report is without finding and the receipt
\* that was asked for is whole and says the same. A validation that ends
\* before its decision leaves no receipt.
ZeroIsEligible ==
    \A p \in Validators :
        /\ code[p] = 0 =>
              /\ \A i \in DOMAIN reports[p] : reports[p][i].findings = NoFindings
              /\ saves[p] => out = [by |-> p, whole |-> TRUE, kind |-> kind[p],
                                    reports |-> reports[p]]
        /\ Len(reports[p]) < Len(listed[p]) /\ out \notin {Missing, Symlink} => out.by # p

\* Two validations of the same evidence write the same receipt, whatever the
\* files are called (docs/adr/0004-mvp-closure.md:20: receipts never depend on
\* filenames or filesystem enumeration order).
SameEvidenceSameReceipt ==
    \A p, q \in Validators :
        /\ pc[p] \in Deciding \ {"deciding"} /\ pc[q] \in Deciding \ {"deciding"}
        /\ ToSet(reports[p]) = ToSet(reports[q])
        => reports[p] = reports[q]

\* Neither command ever writes over an entry it did not create: a receipt and
\* a draft change only from missing to empty to whole
\* (docs/adr/0004-mvp-closure.md:16 and 21).
NothingOverwritten ==
    [][/\ out' # out => \/ out = Missing
                        \/ out # Symlink /\ out' = [out EXCEPT !.whole = TRUE]
       /\ edits' = edits => \A n \in Names : dir'[n] # dir[n] =>
              \/ dir[n] = Missing
              \/ \E d \in Drafters : /\ dir[n] = [content |-> Empty, by |-> d]
                                     /\ dir'[n] = [content |-> Filled, by |-> d]]_vars

\* README.md:63, "1: the task is on HOLD because findings were reported".
OneMeansHold ==
    \A p \in Validators : code[p] = 1 =>
        Len(reports[p]) = Len(listed[p]) /\ ~Eligible(reports[p])
=============================================================================
