---------------------------- MODULE ReviewBundle ----------------------------
(***************************************************************************)
(* src/src/reposeal/review_bundle.py: create_security_review_bundle reads  *)
(* HEAD and the worktree status, hashes the review scope, reads HEAD and   *)
(* the status again and writes manifest and checklist.                     *)
(*                                                                         *)
(* Git and the repository are external.  Whoever works in the repository   *)
(* edits files, commits them or moves HEAD between two steps.  A digest or *)
(* a size is the content it is taken from, an object ID the commit itself. *)
(***************************************************************************)
EXTENDS Naturals, Sequences

CONSTANTS
    Procs,      \* processes that generate a bundle into the same directory
    Paths,      \* files of the worktree
    Scope,      \* REVIEW_SCOPE_PATHS
    Contents,   \* file contents
    Missing,    \* no such file
    Symlink,    \* a symbolic link
    None,       \* nothing recorded yet
    History,    \* the commits the repository starts with
    MaxCommits, \* bound: commits in the repository
    MaxMoves,   \* bound: changes made in the repository
    MaxCalls    \* bound: bundles one process tries to generate

Trees == [Paths -> Contents \cup {Missing, Symlink}]

ASSUME BundleConstants ==
    /\ Scope \subseteq Paths
    /\ History \in Seq(Trees) /\ History # <<>>
    /\ MaxCommits \in Nat /\ MaxMoves \in Nat /\ MaxCalls \in Nat
    /\ None \notin Procs \cup Contents
    /\ Symlink \notin Contents

VARIABLES
    trees,      \* the tree of each commit
    head,       \* the commit HEAD resolves to
    worktree,   \* the files of the worktree
    output,     \* the output directory: does it exist, whose are its files?
    pc,         \* where each process is
    oid,        \* git_commit_oid, read by the first check
    size,       \* what the size of each reviewed file was taken from
    digest,     \* what its digest was taken from
    calls,      \* bundles begun
    moves,      \* changes made in the repository
    since       \* history: changes from the start of a bundle to its last check

repository == <<trees, head, worktree, moves>>
record == <<oid, size, digest>>
vars == <<repository, output, pc, record, calls, since>>

Reading == {"head", "status", "hashing", "second head", "second status"}
Writing == {"making", "manifest", "checklist", "done"}

Init ==
    /\ trees = History /\ head = Len(History) /\ worktree = trees[head]
    /\ output = [exists |-> FALSE, manifest |-> None, checklist |-> None]
    /\ pc = [p \in Procs |-> "idle"]
    /\ oid = [p \in Procs |-> head]
    /\ size = [p \in Procs |-> [f \in Scope |-> None]]
    /\ digest = [p \in Procs |-> [f \in Scope |-> None]]
    /\ calls = [p \in Procs |-> 0]
    /\ moves = 0 /\ since = [p \in Procs |-> 0]

Goto(p, stage) == pc' = [pc EXCEPT ![p] = stage]

(***************************************************************************)
(* create_security_review_bundle                                           *)
(***************************************************************************)
Begin(p) ==
    /\ pc[p] \in {"idle", "rejected", "failed", "done"} /\ calls[p] < MaxCalls
    /\ calls' = [calls EXCEPT ![p] = @ + 1]
    /\ Goto(p, IF output.exists THEN "rejected" ELSE "head")
    /\ size' = [size EXCEPT ![p] = [f \in Scope |-> None]]
    /\ digest' = [digest EXCEPT ![p] = [f \in Scope |-> None]]
    /\ since' = [since EXCEPT ![p] = 0]
    /\ UNCHANGED <<repository, output, oid>>

\* Git is unavailable, refuses or times out, or a file is not acceptable.
Reject(p) ==
    /\ pc[p] \in Reading
    /\ Goto(p, "rejected")
    /\ UNCHANGED <<repository, output, record, calls, since>>

\* _clean_git_source_state: rev-parse HEAD comes before status.
ReadHead(p) ==
    /\ pc[p] = "head"
    /\ oid' = [oid EXCEPT ![p] = head]
    /\ Goto(p, "status")
    /\ UNCHANGED <<repository, output, size, digest, calls, since>>

Clean == worktree = trees[head]

ReadStatus(p) ==
    /\ pc[p] = "status"
    /\ Goto(p, IF Clean THEN "hashing" ELSE "rejected")
    /\ UNCHANGED <<repository, output, record, calls, since>>

\* Mutant of Reviewable: the file need not be there.
NoLink(f) == worktree[f] # Symlink

\* _reviewed_file takes the size from stat of a regular file ...
Reviewable(f) == worktree[f] \in Contents

StatFile(p, f) ==
    /\ pc[p] = "hashing" /\ size[p][f] = None
    /\ \A g \in Scope : size[p][g] # None => digest[p][g] # None
    /\ IF Reviewable(f)
         THEN size' = [size EXCEPT ![p][f] = worktree[f]] /\ UNCHANGED pc
         ELSE Goto(p, "rejected") /\ UNCHANGED size
    /\ UNCHANGED <<repository, output, oid, digest, calls, since>>

\* ... and then reads it; a link made meanwhile is followed out of this model.
HashFile(p, f) ==
    /\ pc[p] = "hashing" /\ size[p][f] # None /\ digest[p][f] = None
    /\ \/ \E c \in Contents :
             /\ worktree[f] \in {c, Symlink}
             /\ digest' = [digest EXCEPT ![p][f] = c]
             /\ UNCHANGED pc
       \/ worktree[f] = Missing /\ Goto(p, "rejected") /\ UNCHANGED digest
    /\ UNCHANGED <<repository, output, oid, size, calls, since>>

AllHashed(p) ==
    /\ pc[p] = "hashing" /\ \A f \in Scope : digest[p][f] # None
    /\ Goto(p, "second head")
    /\ UNCHANGED <<repository, output, record, calls, since>>

\* Mutant of SameHead: only the status is checked again.
AnyHead(p) == TRUE

\* The second check: HEAD must be the commit of the first one ...
SameHead(p) == head = oid[p]

ReadHeadAgain(p) ==
    /\ pc[p] = "second head"
    /\ Goto(p, IF SameHead(p) THEN "second status" ELSE "rejected")
    /\ UNCHANGED <<repository, output, record, calls, since>>

\* ... and the worktree clean.
ReadStatusAgain(p) ==
    /\ pc[p] = "second status"
    /\ Goto(p, IF Clean THEN "making" ELSE "rejected")
    /\ UNCHANGED <<repository, output, record, calls, since>>

\* Mutant of MayMake: mkdir(exist_ok=True).
ExistOk == TRUE

\* output.mkdir raises when the directory has appeared meanwhile.
MayMake == ~output.exists

MakeOutput(p) ==
    /\ pc[p] = "making"
    /\ IF MayMake THEN output' = [output EXCEPT !.exists = TRUE] /\ Goto(p, "manifest")
                  ELSE Goto(p, "failed") /\ UNCHANGED output
    /\ UNCHANGED <<repository, record, calls, since>>

WriteManifest(p) ==
    /\ pc[p] = "manifest"
    /\ output' = [output EXCEPT !.manifest = p]
    /\ Goto(p, "checklist")
    /\ UNCHANGED <<repository, record, calls, since>>

WriteChecklist(p) ==
    /\ pc[p] = "checklist"
    /\ output' = [output EXCEPT !.checklist = p]
    /\ Goto(p, "done")
    /\ UNCHANGED <<repository, record, calls, since>>

\* An OSError or a kill: what is written so far stays.
FailWriting(p) ==
    /\ pc[p] \in Writing \ {"done"}
    /\ Goto(p, "failed")
    /\ UNCHANGED <<repository, output, record, calls, since>>

(***************************************************************************)
(* The repository                                                          *)
(***************************************************************************)
Moves ==
    /\ moves < MaxMoves /\ moves' = moves + 1
    /\ since' = [p \in Procs |-> IF pc[p] \in Reading THEN since[p] + 1 ELSE since[p]]
    /\ UNCHANGED <<output, pc, record, calls>>

EditFile(f) ==
    /\ Moves
    /\ \E node \in Contents \cup {Missing, Symlink} :
          node # worktree[f] /\ worktree' = [worktree EXCEPT ![f] = node]
    /\ UNCHANGED <<trees, head>>

Commit ==
    /\ Moves
    /\ ~Clean /\ Len(trees) < MaxCommits
    /\ trees' = Append(trees, worktree) /\ head' = Len(trees) + 1
    /\ UNCHANGED worktree

\* git checkout or git reset --hard, and git reset, which leaves the files.
MoveHead(c) ==
    /\ Moves
    /\ c # head /\ head' = c
    /\ worktree' \in {worktree, trees[c]}
    /\ UNCHANGED trees

Step(p) == \/ Begin(p) \/ Reject(p) \/ ReadHead(p) \/ ReadStatus(p)
           \/ \E f \in Scope : StatFile(p, f) \/ HashFile(p, f)
           \/ AllHashed(p) \/ ReadHeadAgain(p) \/ ReadStatusAgain(p)
           \/ MakeOutput(p) \/ WriteManifest(p) \/ WriteChecklist(p) \/ FailWriting(p)

Next == \/ \E p \in Procs : Step(p)
        \/ \E f \in Paths : EditFile(f)
        \/ Commit
        \/ \E c \in 1 .. Len(trees) : MoveHead(c)

Spec == Init /\ [][Next]_vars

(***************************************************************************)
(* Properties                                                              *)
(***************************************************************************)
\* Every variable has its type; what is recorded of a file is the content of
\* a regular one.
TypeOK ==
    /\ trees \in Seq(Trees) /\ worktree \in Trees
    /\ head \in 1 .. Len(trees)
    /\ output \in [exists : BOOLEAN, manifest : Procs \cup {None},
                   checklist : Procs \cup {None}]
    /\ pc \in [Procs -> Reading \cup Writing \cup {"idle", "rejected", "failed"}]
    /\ oid \in [Procs -> 1 .. Len(trees)]
    /\ size \in [Procs -> [Scope -> Contents \cup {None}]]
    /\ digest \in [Procs -> [Scope -> Contents \cup {None}]]
    /\ calls \in [Procs -> Nat] /\ since \in [Procs -> Nat] /\ moves \in Nat

\* The manifest describes the commit it names.
DescribesCommit(p) ==
    \A f \in Scope : digest[p][f] = trees[oid[p]][f] /\ size[p][f] = digest[p][f]

\* One change of the repository while a bundle is generated, of whatever kind
\* and at whatever moment, is noticed or harmless: if the output is written,
\* every size and digest in it is that of the recorded commit.
OneChangeIsCaught ==
    \A p \in Procs : pc[p] \in Writing /\ since[p] <= 1 => DescribesCommit(p)

\* A process that reports success has written the whole output itself, though
\* several may have found the directory free.
SuccessIsOwnOutput ==
    \A p \in Procs : pc[p] = "done" => output.manifest = p /\ output.checklist = p

\* docs/m2b-docker-backend.md:94: the bundle "rejects a moving or dirty source
\* tree before writing output", so what it writes describes its commit.
MovingTreeRejected == \A p \in Procs : pc[p] \in Writing => DescribesCommit(p)
=============================================================================
