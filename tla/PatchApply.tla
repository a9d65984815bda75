----------------------------- MODULE PatchApply -----------------------------
(***************************************************************************)
(* The patch boundary of src/src/reposeal/agent_boundary.py: a caller      *)
(* captures a workspace, obtains a replacement artifact from the           *)
(* controlled adapter, validates it and moves the new files into place.    *)
(*                                                                         *)
(* Every system call of apply_patch_artifact that can fail or be           *)
(* interleaved is a step of its own.  A digest is the value it is computed *)
(* from (SHA-256 taken as injective).  The editor is any other process     *)
(* writing to the workspace; Crash kills a caller without its "finally".   *)
(***************************************************************************)
EXTENDS Naturals, Sequences

CONSTANTS
    Procs,      \* callers, each a process with its own pid
    Paths,      \* the source files that may exist in the workspace
    Allowed,    \* allowed_paths, the orchestrator's allowlist
    Dirs,       \* directories that hold the paths
    DirOf,      \* the directory of each path
    Contents,   \* file contents
    Partial,    \* what a temporary file holds before its write completes
    Modes,      \* permission bits
    ExecModes,  \* the modes with an execute bit, all tree_sha256 sees of a mode
    Private,    \* mode 0o600, given to a new temporary file
    Starts,     \* the workspaces a run may start from
    Proposals,  \* sequences of replacements an adapter may answer with
    MaxFiles,   \* max_files of parse_patch_artifact
    MaxEdits,   \* bound: edits made by the editor
    MaxCalls,   \* bound: captures and applications begun by one caller
    Missing,    \* no directory entry
    Symlink     \* a directory entry that is a symbolic link

File == [content : Contents \cup {Partial}, mode : Modes]
RegularFile == [content : Contents, mode : Modes]
Replacement == [path : Paths, expected : Contents, content : Contents]
\* What tree_sha256 sees of an entry: its bytes and whether it is executable.
Seen(contents) == {Missing} \cup (contents \X {"x", "-"})
TempIds == Dirs \X Procs \X (1 .. MaxFiles)
Digests == [Paths -> Seen(Contents)] \X [TempIds -> Seen(Contents \cup {Partial})]
Requests ==
    [tree : Digests, seen : [Paths -> Contents \cup {Missing}]]

ASSUME PatchConstants ==
    /\ Allowed \subseteq Paths
    /\ DirOf \in [Paths -> Dirs]
    /\ ExecModes \subseteq Modes
    /\ Private \in Modes \ ExecModes
    /\ Partial \notin Contents
    /\ Starts \subseteq [Paths -> RegularFile]
    /\ Proposals \subseteq Seq(Replacement)
    /\ MaxFiles \in Nat \ {0}
    /\ MaxEdits \in Nat
    /\ MaxCalls \in Nat
    /\ Missing # Symlink
    /\ Missing \notin File /\ Symlink \notin File

VARIABLES
    files,      \* the workspace: what each path names
    temps,      \* the ".reposeal-replacement-<pid>-<index>" files
    pc,         \* where each caller is
    request,    \* the AgentRequest: the tree digest and the captured contents
    artifact,   \* the replacements of the parsed PatchArtifact
    identity,   \* do task_id and base_snapshot_sha256 echo the request?
    checked,    \* replacements validated by this call
    staged,     \* temporary files completed by this call
    replaced,   \* os.replace calls completed by this call
    outcome,    \* how the last call ended
    calls,      \* captures and applications begun
    edits,      \* edits made
    before,     \* history: the workspace when this call began
    touched     \* history: paths another actor changed since then

inputs == <<request, artifact, identity>>
progress == <<checked, staged, replaced>>
history == <<edits, before, touched>>
vars == <<files, temps, pc, inputs, progress, outcome, calls, history>>

Stages == {"idle", "reading", "captured", "answered", "checking", "staging",
           "writing", "moding", "replacing", "cleanup", "finished", "crashed"}
Applying == {"checking", "staging", "writing", "moding", "replacing", "cleanup"}

(***************************************************************************)
(* Operators of the module                                                 *)
(***************************************************************************)
View(node) ==
    IF node = Missing THEN Missing ELSE <<node.content, IF node.mode \in ExecModes THEN "x" ELSE "-">>

TreeDigest ==
    <<[f \in Paths |-> View(files[f])], [t \in TempIds |-> View(temps[t])]>>

\* tree_sha256 and capture_request raise on a symbolic link.
HasSymlink == \E f \in Paths : files[f] = Symlink

\* The tree has no file at all, not even a temporary one.
EmptyTree == /\ \A f \in Paths : files[f] = Missing
             /\ \A t \in TempIds : temps[t] = Missing

Content(node) == IF node = Missing THEN Missing ELSE node.content

\* Mutant of Parses: max_files is not enforced.
ParsesAnyLength(a) ==
    /\ a # <<>>
    /\ \A i, j \in 1 .. Len(a) : a[i].path = a[j].path => i = j

\* parse_patch_artifact: a non-empty bounded list with no path twice.
Parses(a) ==
    /\ Len(a) \in 1 .. MaxFiles
    /\ \A i, j \in 1 .. Len(a) : a[i].path = a[j].path => i = j

TempOf(p, i) == <<DirOf[artifact[p][i].path], p, i>>

\* Mutant of Valid: the allowlist is not consulted.
ValidWithoutAllowlist(p, i) ==
    LET rep == artifact[p][i] IN
    /\ files[rep.path] \notin {Missing, Symlink}
    /\ rep.expected = request[p].seen[rep.path]
    /\ files[rep.path].content = rep.expected
    /\ rep.content # rep.expected

\* Mutant of Valid: a replacement may be a no-op.
ValidWithNoOps(p, i) ==
    LET rep == artifact[p][i] IN
    /\ rep.path \in Allowed
    /\ files[rep.path] \notin {Missing, Symlink}
    /\ rep.expected = request[p].seen[rep.path]
    /\ files[rep.path].content = rep.expected

\* The checks validate_patch_artifact makes on one replacement.
Valid(p, i) ==
    LET rep == artifact[p][i] IN
    /\ rep.path \in Allowed
    /\ request[p].seen[rep.path] # Missing
    /\ files[rep.path] \notin {Missing, Symlink}
    /\ rep.expected = request[p].seen[rep.path]
    /\ files[rep.path].content = rep.expected
    /\ rep.content # rep.expected

\* Mutant of TargetModes: the mode os.open gave is kept.
TempMode(node) == {Private}

\* The modes target.stat() may report: none when the target is gone, anything
\* when it has become a link, which stat follows out of this model.
TargetModes(node) ==
    CASE node = Missing -> {}
      [] node = Symlink -> Modes
      [] OTHER -> {node.mode}

\* The caller's own steps never count as another actor's change.
TouchedBy(p, f) ==
    touched' = [q \in Procs |-> IF q = p THEN touched[q] ELSE touched[q] \cup {f}]

Init ==
    /\ files \in Starts
    /\ temps = [t \in TempIds |-> Missing]
    /\ pc = [p \in Procs |-> "idle"]
    /\ request = [p \in Procs |-> Missing]
    /\ artifact = [p \in Procs |-> <<>>]
    /\ identity = [p \in Procs |-> FALSE]
    /\ checked = [p \in Procs |-> 0]
    /\ staged = [p \in Procs |-> 0]
    /\ replaced = [p \in Procs |-> 0]
    /\ outcome = [p \in Procs |-> "none"]
    /\ calls = [p \in Procs |-> 0]
    /\ edits = 0
    /\ before = [p \in Procs |-> files]
    /\ touched = [p \in Procs |-> {}]

(***************************************************************************)
(* Capturing a request and running the adapter                             *)
(***************************************************************************)
Goto(p, stage) == pc' = [pc EXCEPT ![p] = stage]
Ends(p, result) ==
    /\ Goto(p, "finished")
    /\ outcome' = [outcome EXCEPT ![p] = result]

\* A new call: its counters restart and the history starts again.
Restart(p) ==
    /\ checked' = [checked EXCEPT ![p] = 0]
    /\ staged' = [staged EXCEPT ![p] = 0]
    /\ replaced' = [replaced EXCEPT ![p] = 0]
    /\ calls' = [calls EXCEPT ![p] = @ + 1]
    /\ before' = [before EXCEPT ![p] = files]
    /\ touched' = [touched EXCEPT ![p] = {}]

\* capture_request takes the tree digest first ...
CaptureTree(p) ==
    /\ pc[p] = "idle" /\ calls[p] < MaxCalls
    /\ Restart(p)
    /\ artifact' = [artifact EXCEPT ![p] = <<>>]
    /\ \/ /\ HasSymlink
          /\ Ends(p, "rejected") /\ UNCHANGED request
       \/ /\ ~HasSymlink
          /\ request' = [request EXCEPT ![p] =
                 [tree |-> TreeDigest, seen |-> [f \in Paths |-> Missing]]]
          /\ Goto(p, "reading") /\ UNCHANGED outcome
    /\ UNCHANGED <<files, temps, identity, edits>>

\* ... and then reads the files, which may have changed in between. It raises
\* for a symbolic link, a file that is not UTF-8 or too large, or no file.
ReadSources(p) ==
    /\ pc[p] = "reading"
    /\ \/ Ends(p, "rejected") /\ UNCHANGED request
       \/ /\ ~HasSymlink /\ ~EmptyTree
          /\ request' = [request EXCEPT ![p].seen = [f \in Paths |-> Content(files[f])]]
          /\ Goto(p, "captured") /\ UNCHANGED outcome
    /\ UNCHANGED <<files, temps, artifact, identity, progress, calls, history>>

\* run_controlled_adapter returns a parsed artifact, or raises: the adapter
\* timed out, failed, wrote too much, or its answer does not parse.
RunAdapter(p) ==
    /\ pc[p] = "captured"
    /\ \/ Ends(p, "rejected") /\ UNCHANGED <<artifact, identity>>
       \/ \E a \in Proposals, echo \in BOOLEAN :
              /\ Parses(a)
              /\ artifact' = [artifact EXCEPT ![p] = a]
              /\ identity' = [identity EXCEPT ![p] = echo]
              /\ Goto(p, "answered") /\ UNCHANGED outcome
    /\ UNCHANGED <<files, temps, request, progress, calls, history>>

(***************************************************************************)
(* apply_patch_artifact                                                    *)
(***************************************************************************)
\* validate_patch_artifact: the identity of the artifact and the whole tree.
CheckTree(p) ==
    /\ pc[p] = "answered" /\ calls[p] < MaxCalls
    /\ Restart(p)
    /\ IF identity[p] /\ ~HasSymlink /\ TreeDigest = request[p].tree
         THEN Goto(p, "checking") /\ UNCHANGED outcome
         ELSE Ends(p, "rejected")
    /\ UNCHANGED <<files, temps, inputs, edits>>

\* validate_patch_artifact: one replacement; staging begins after the last.
CheckReplacement(p) ==
    /\ pc[p] = "checking"
    /\ IF Valid(p, checked[p] + 1)
         THEN /\ checked' = [checked EXCEPT ![p] = @ + 1]
              /\ Goto(p, IF checked[p] + 1 = Len(artifact[p]) THEN "staging"
                                                             ELSE "checking")
              /\ UNCHANGED outcome
         ELSE Ends(p, "rejected") /\ UNCHANGED checked
    /\ UNCHANGED <<files, temps, inputs, staged, replaced, calls, history>>

\* Mutant of Fails: an error is retried where it occurred.
Retries(p) == UNCHANGED <<pc, outcome>>

\* An exception in the try block: the finally block is next.
Fails(p) == Goto(p, "cleanup") /\ outcome' = [outcome EXCEPT ![p] = "failed"]

\* os.open(temporary, O_WRONLY | O_CREAT | O_EXCL, 0o600)
OpenTemp(p) ==
    LET t == TempOf(p, staged[p] + 1) IN
    /\ pc[p] = "staging"
    /\ \/ /\ temps[t] = Missing
          /\ temps' = [temps EXCEPT ![t] = [content |-> Partial, mode |-> Private]]
          /\ Goto(p, "writing") /\ UNCHANGED outcome
       \/ Fails(p) /\ UNCHANGED temps
    /\ UNCHANGED <<files, inputs, progress, calls, history>>

\* stream.write; on an error the descriptor is closed and the file stays.
WriteTemp(p) ==
    LET i == staged[p] + 1
        t == TempOf(p, i)
    IN
    /\ pc[p] = "writing"
    /\ \/ /\ temps' = [temps EXCEPT ![t] =
                 [content |-> artifact[p][i].content, mode |-> temps[t].mode]]
          /\ Goto(p, "moding") /\ UNCHANGED outcome
       \/ Fails(p) /\ UNCHANGED temps
    /\ UNCHANGED <<files, inputs, progress, calls, history>>

\* Mutant of AfterStaging: the second loop begins when one file is staged.
AfterOne(p, i) == "replacing"

\* Nothing is replaced until every replacement is staged.
AfterStaging(p, i) == IF i = Len(artifact[p]) THEN "replacing" ELSE "staging"

\* os.chmod(temporary, S_IMODE(target.stat().st_mode)), then staged.append.
ChmodTemp(p) ==
    LET i == staged[p] + 1
        t == TempOf(p, i)
    IN
    /\ pc[p] = "moding"
    /\ \/ \E m \in TargetModes(files[artifact[p][i].path]) :
              /\ temps' = [temps EXCEPT ![t] =
                     [content |-> temps[t].content, mode |-> m]]
              /\ staged' = [staged EXCEPT ![p] = i]
              /\ Goto(p, AfterStaging(p, i))
              /\ UNCHANGED outcome
       \/ Fails(p) /\ UNCHANGED <<temps, staged>>
    /\ UNCHANGED <<files, inputs, checked, replaced, calls, history>>

\* os.replace(temporary, target): atomic for one file, not for the list.
ReplaceTarget(p) ==
    LET i == replaced[p] + 1
        f == artifact[p][i].path
    IN
    /\ pc[p] = "replacing"
    /\ \/ /\ files' = [files EXCEPT ![f] = temps[TempOf(p, i)]]
          /\ temps' = [temps EXCEPT ![TempOf(p, i)] = Missing]
          /\ replaced' = [replaced EXCEPT ![p] = i]
          /\ TouchedBy(p, f)
          /\ IF i = Len(artifact[p])
               THEN Goto(p, "cleanup") /\ outcome' = [outcome EXCEPT ![p] = "ok"]
               ELSE UNCHANGED <<pc, outcome>>
       \/ Fails(p) /\ UNCHANGED <<files, temps, replaced, touched>>
    /\ UNCHANGED <<inputs, checked, staged, calls, edits, before>>

\* The finally block unlinks what was appended to staged and is still there;
\* an unlink that raises leaves that file and the ones after it.
Cleanup(p) ==
    /\ pc[p] = "cleanup"
    /\ \E k \in replaced[p] .. staged[p] :
          /\ temps' = [t \in TempIds |->
                 IF \E i \in 1 .. k : t = TempOf(p, i) THEN Missing ELSE temps[t]]
          /\ outcome' = [outcome EXCEPT ![p] = IF k = staged[p] THEN @ ELSE "failed"]
    /\ Goto(p, "finished")
    /\ UNCHANGED <<files, inputs, progress, calls, history>>

\* The same process may apply the artifact again, or capture anew.
CallAgain(p) ==
    /\ pc[p] = "finished" /\ calls[p] < MaxCalls
    /\ \/ Goto(p, "idle")
       \/ artifact[p] # <<>> /\ Goto(p, "answered")
    /\ UNCHANGED <<files, temps, inputs, progress, outcome, calls, history>>

\* The process is killed: nothing is cleaned up.
Crash(p) ==
    /\ pc[p] \in Applying
    /\ Goto(p, "crashed")
    /\ UNCHANGED <<files, temps, inputs, progress, outcome, calls, history>>

(***************************************************************************)
(* Any other writer of the workspace                                       *)
(***************************************************************************)
Edit(f) ==
    /\ edits < MaxEdits
    /\ \E node \in RegularFile \cup {Missing, Symlink} :
          node # files[f] /\ files' = [files EXCEPT ![f] = node]
    /\ edits' = edits + 1
    /\ touched' = [p \in Procs |-> touched[p] \cup {f}]
    /\ UNCHANGED <<temps, pc, inputs, progress, outcome, calls, before>>

CallStep(p) == \/ CaptureTree(p) \/ ReadSources(p) \/ RunAdapter(p)
               \/ CheckTree(p) \/ CheckReplacement(p)
               \/ OpenTemp(p) \/ WriteTemp(p) \/ ChmodTemp(p)
               \/ ReplaceTarget(p) \/ Cleanup(p)

Next == \/ \E p \in Procs : CallStep(p) \/ CallAgain(p) \/ Crash(p)
        \/ \E f \in Paths : Edit(f)

Spec == Init /\ [][Next]_vars

\* A process that is neither blocked nor killed keeps executing its call.
FairSpec == Spec /\ \A p \in Procs : WF_vars(CallStep(p))

(***************************************************************************)
(* Properties                                                              *)
(***************************************************************************)
\* The replacement p's artifact makes of f, if it makes one.
Replaces(p, i, f) == artifact[p][i].path = f

FilesOK ==
    /\ files \in [Paths -> RegularFile \cup {Missing, Symlink}]
    /\ temps \in [TempIds -> File \cup {Missing}]
    /\ before \in [Procs -> [Paths -> RegularFile \cup {Missing, Symlink}]]
    /\ touched \in [Procs -> SUBSET Paths]
    /\ edits \in Nat

CallsOK ==
    /\ pc \in [Procs -> Stages]
    /\ request \in [Procs -> Requests \cup {Missing}]
    /\ artifact \in [Procs -> Seq(Replacement)]
    /\ identity \in [Procs -> BOOLEAN]
    /\ outcome \in [Procs -> {"none", "rejected", "failed", "ok"}]

CountsOK ==
    /\ checked \in [Procs -> Nat] /\ staged \in [Procs -> Nat]
    /\ replaced \in [Procs -> Nat] /\ calls \in [Procs -> Nat]
    /\ \A p \in Procs : /\ replaced[p] <= staged[p]
                        /\ staged[p] <= checked[p]
                        /\ checked[p] <= Len(artifact[p])
                        /\ Len(artifact[p]) <= MaxFiles

\* Every variable has its type; in particular no workspace file ever holds
\* the unfinished bytes of a temporary one.
TypeOK == FilesOK /\ CallsOK /\ CountsOK

\* What a call does is a prefix of its artifact, at every moment and wherever
\* it fails or is killed: each file nobody else wrote to is as the call found
\* it or, if it is among the first `replaced` targets, holds the whole new
\* content under its old mode (docstring of apply_patch_artifact).
PrefixApplied ==
    \A p \in Procs : \A f \in Paths \ touched[p] :
        /\ \A i \in 1 .. replaced[p] : Replaces(p, i, f) =>
              files[f] = [content |-> artifact[p][i].content, mode |-> before[p][f].mode]
        /\ (\A i \in 1 .. replaced[p] : ~Replaces(p, i, f)) => files[f] = before[p][f]

\* No temporary file is opened before the whole artifact is validated: every
\* target is allowed and, unless another actor wrote to it since, was found
\* with the content the request captured and the artifact expects.
ValidatedFirst ==
    \A p \in Procs : pc[p] \in {"staging", "writing", "moding", "replacing"} =>
        \A i \in 1 .. Len(artifact[p]) :
            LET rep == artifact[p][i] IN
            /\ rep.path \in Allowed
            /\ rep.content # rep.expected
            /\ rep.expected = request[p].seen[rep.path]
            /\ rep.path \notin touched[p] =>
                  /\ before[p][rep.path] \notin {Missing, Symlink}
                  /\ before[p][rep.path].content = rep.expected

\* Only os.replace of a call that has validated its whole artifact changes a
\* file, one file at a time, and only a file the allowlist names; whatever
\* other callers do in between.
OnlyApprovedFilesChange ==
    [][\A f \in Paths : files'[f] # files[f] /\ edits' = edits =>
          /\ f \in Allowed
          /\ \A g \in Paths \ {f} : files'[g] = files[g]
          /\ \E p \in Procs : /\ pc[p] = "replacing"
                              /\ staged[p] = Len(artifact[p])
                              /\ replaced'[p] = replaced[p] + 1
                              /\ artifact[p][replaced'[p]].path = f]_vars

\* An artifact a call has installed, even in part, is never accepted again
\* unless another actor wrote to one of the files it installed.
AppliedOnce ==
    [][\A p \in Procs : pc[p] = "answered" /\ pc'[p] = "checking" =>
          \A i \in 1 .. replaced[p] : artifact[p][i].path \in touched[p]]_vars

\* Every call that begins to apply an artifact ends, whatever fails: a stale
\* temporary file or a vanished target must not make it wait.
CallReturns ==
    \A p \in Procs : pc[p] \in Applying ~> pc[p] \in {"finished", "crashed"}

\* What a call has left to do, as an upper bound on its steps: each replacement
\* is checked, staged in three steps and moved, and the finally block comes last.
StageLeft(stage) ==
    CASE stage = "checking" -> 5
      [] stage = "staging" -> 4
      [] stage = "writing" -> 3
      [] stage \in {"moding", "replacing"} -> 2
      [] stage = "cleanup" -> 1
      [] OTHER -> 0

StepsLeft(p) ==
    LET n == Len(artifact[p]) IN
    (n - checked[p]) + 4 * (n - staged[p]) + (n - replaced[p]) + StageLeft(pc[p])

\* Each step of a call, also one that fails, brings it closer to its end, and
\* no other caller or editor sets it back: apply_patch_artifact makes at most
\* six steps for a replacement, and five more, whatever happens meanwhile.
CallAdvances ==
    [][\A p \in Procs : pc[p] \in Applying =>
          /\ StepsLeft(p)' \in 0 .. StepsLeft(p)
          /\ CallStep(p) => StepsLeft(p)' < StepsLeft(p)]_vars

\* docs/m2a-controlled-agent-boundary.md:36, "source mutation after capture
\* [fails] closed": each os.replace overwrites the content that was captured.
NoLostUpdate ==
    [][\A p \in Procs : replaced'[p] = replaced[p] + 1 =>
          LET rep == artifact[p][replaced'[p]] IN
          /\ files[rep.path] \notin {Missing, Symlink}
          /\ files[rep.path].content = rep.expected]_vars

=============================================================================
