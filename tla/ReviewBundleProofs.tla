------------------------- MODULE ReviewBundleProofs -------------------------
(***************************************************************************)
(* Proofs about ReviewBundle, for any number of processes, files, commits  *)
(* and changes: a bundle whose writer reports success is its own, and one  *)
(* change of the repository while it is generated is caught or harmless.   *)
(***************************************************************************)
EXTENDS ReviewBundle, TLAPS

(***************************************************************************)
(* The inductive invariant                                                 *)
(***************************************************************************)
\* The directory is made once, so one process at most is writing into it or
\* has written it, and what that process wrote is there.
Owning == {"manifest", "checklist", "done"}

OwnerInv(p) ==
    /\ pc[p] \in Owning => output.exists
    /\ \A q \in Procs : pc[p] \in Owning /\ pc[q] \in Owning => p = q
    /\ pc[p] \in {"checklist", "done"} => output.manifest = p
    /\ pc[p] = "done" => output.checklist = p

\* What is recorded so far: a size comes before its digest, nothing is there
\* before hashing begins and nothing lacks once it is over.
RecordInv(p) ==
    /\ \A f \in Scope : digest[p][f] # None => size[p][f] # None
    /\ pc[p] \in {"head", "status"} =>
          \A f \in Scope : size[p][f] = None /\ digest[p][f] = None
    /\ pc[p] \in {"second head", "second status"} \cup Writing =>
          \A f \in Scope : digest[p][f] # None

\* What is recorded so far is that of the recorded commit.
Accurate(p) ==
    \A f \in Scope : /\ size[p][f] # None => size[p][f] = trees[oid[p]][f]
                     /\ digest[p][f] # None => digest[p][f] = trees[oid[p]][f]

\* Without a change, HEAD and the worktree are as the first check found them.
\* After one, either what is recorded is accurate or the second check will
\* see it: its read of HEAD first, then its status.
ChangeInv(p) ==
    /\ pc[p] = "status" /\ since[p] = 0 => head = oid[p]
    /\ pc[p] \in {"hashing", "second head", "second status"} /\ since[p] = 0 =>
          head = oid[p] /\ Clean /\ Accurate(p)
    /\ pc[p] \in {"hashing", "second head"} /\ since[p] <= 1 /\ head = oid[p] /\ Clean =>
          Accurate(p)
    /\ pc[p] = "second status" /\ since[p] <= 1 /\ Clean => Accurate(p)
    /\ pc[p] \in Writing /\ since[p] <= 1 => Accurate(p)

IInv == /\ TypeOK
        /\ \A p \in Procs : OwnerInv(p) /\ RecordInv(p) /\ ChangeInv(p)

LEMMA InitInv == Init => IInv
  <1> SUFFICES ASSUME Init PROVE IInv
    OBVIOUS
  <1>1. Len(History) \in 1 .. Len(History) /\ History[Len(History)] \in Trees
    BY BundleConstants DEF Trees
  <1>2. TypeOK
    BY <1>1, BundleConstants DEF Init, TypeOK, Trees, Reading, Writing
  <1>3. ASSUME NEW p \in Procs PROVE OwnerInv(p) /\ RecordInv(p) /\ ChangeInv(p)
    BY DEF Init, OwnerInv, RecordInv, ChangeInv, Owning, Writing
  <1> QED
    BY <1>2, <1>3 DEF IInv

(***************************************************************************)
(* Every step keeps the types                                              *)
(***************************************************************************)
LEMMA MoveTypes ==
    ASSUME TypeOK,
           (\E f \in Paths : EditFile(f)) \/ Commit \/ (\E c \in 1 .. Len(trees) : MoveHead(c))
    PROVE  TypeOK' /\ \A c \in 1 .. Len(trees) : trees'[c] = trees[c]
  <1> USE DEF Moves, record
  <1>1. /\ UNCHANGED <<output, pc, oid, size, digest, calls>>
        /\ moves' \in Nat /\ since' \in [Procs -> Nat]
    BY DEF EditFile, Commit, MoveHead, TypeOK
  <1>2. ASSUME NEW f \in Paths, EditFile(f) PROVE worktree' \in Trees
    BY <1>2 DEF EditFile, Trees, TypeOK
  <1>3. CASE Commit
    <2>1. trees' = Append(trees, worktree) /\ trees \in Seq(Trees) /\ worktree \in Trees
      BY <1>3 DEF Commit, TypeOK
    <2>2. /\ trees' \in Seq(Trees) /\ Len(trees') = Len(trees) + 1
          /\ \A c \in 1 .. Len(trees) : trees'[c] = trees[c]
      BY <2>1
    <2>3. Len(trees) \in Nat /\ head' = Len(trees) + 1 /\ oid \in [Procs -> 1 .. Len(trees)]
      BY <1>3, <2>1 DEF Commit, TypeOK
    <2>4. head' \in 1 .. Len(trees') /\ oid \in [Procs -> 1 .. Len(trees')]
      BY <2>2, <2>3
    <2> QED
      BY <1>1, <1>3, <2>2, <2>4 DEF Commit, TypeOK
  <1>4. ASSUME NEW c \in 1 .. Len(trees), MoveHead(c)
        PROVE  trees' = trees /\ head' \in 1 .. Len(trees) /\ worktree' \in Trees
    <2>1. trees[c] \in Trees
      BY DEF TypeOK
    <2> QED
      BY <1>4, <2>1 DEF MoveHead, TypeOK
  <1>5. (\E f \in Paths : EditFile(f)) => UNCHANGED <<trees, head>>
    BY DEF EditFile
  <1> QED
    BY <1>1, <1>2, <1>3, <1>4, <1>5 DEF TypeOK

\* A step of one process leaves the repository and the others alone.
Same(q) == /\ pc'[q] = pc[q] /\ oid'[q] = oid[q] /\ size'[q] = size[q]
           /\ digest'[q] = digest[q] /\ since'[q] = since[q]

LEMMA StepTypes ==
    ASSUME TypeOK, NEW p \in Procs, Step(p)
    PROVE  /\ TypeOK'
           /\ UNCHANGED <<trees, head, worktree>>
           /\ \A q \in Procs : q # p => Same(q)
  <1> USE DEF Goto, repository, record, Same
  <1>1. UNCHANGED <<trees, head, worktree, moves>>
    BY DEF Step, Begin, Reject, ReadHead, ReadStatus, StatFile, HashFile, AllHashed,
           ReadHeadAgain, ReadStatusAgain, MakeOutput, WriteManifest, WriteChecklist, FailWriting
  <1>2. CASE Begin(p)
    <2>1. /\ size' \in [Procs -> [Scope -> Contents \cup {None}]]
          /\ digest' \in [Procs -> [Scope -> Contents \cup {None}]]
      BY <1>2 DEF Begin, TypeOK
    <2>2. calls' \in [Procs -> Nat] /\ since' \in [Procs -> Nat]
      BY <1>2 DEF Begin, TypeOK
    <2>4. pc' \in [Procs -> Reading \cup Writing \cup {"idle", "rejected", "failed"}]
      BY <1>2 DEF Begin, TypeOK, Reading
    <2>3. \A q \in Procs : q # p => Same(q)
      BY <1>2 DEF Begin, TypeOK
    <2> QED
      BY <1>1, <1>2, <2>1, <2>2, <2>3, <2>4 DEF Begin, TypeOK
  <1>3. CASE Reject(p) \/ ReadStatus(p) \/ AllHashed(p)
    BY <1>1, <1>3 DEF Reject, ReadStatus, AllHashed, TypeOK, Reading, Writing
  <1>4. CASE ReadHead(p)
    BY <1>1, <1>4 DEF ReadHead, TypeOK, Reading, Writing
  <1>5. ASSUME NEW f \in Scope, StatFile(p, f)
        PROVE  TypeOK' /\ \A q \in Procs : q # p => Same(q)
    <2>1. size' \in [Procs -> [Scope -> Contents \cup {None}]]
      <3>1. CASE Reviewable(f)
        <4>1. size' = [size EXCEPT ![p][f] = worktree[f]] /\ worktree[f] \in Contents
          BY <1>5, <3>1 DEF StatFile, Reviewable
        <4> QED
          BY <4>1 DEF TypeOK
      <3>2. CASE ~Reviewable(f)
        BY <1>5, <3>2 DEF StatFile, TypeOK
      <3> QED
        BY <3>1, <3>2
    <2>2. pc' \in [Procs -> Reading \cup Writing \cup {"idle", "rejected", "failed"}]
      BY <1>5 DEF StatFile, TypeOK
    <2>3. \A q \in Procs : q # p => Same(q)
      BY <1>5 DEF StatFile, TypeOK
    <2> QED
      BY <1>1, <1>5, <2>1, <2>2, <2>3 DEF StatFile, TypeOK
  <1>6. ASSUME NEW f \in Scope, HashFile(p, f)
        PROVE  TypeOK' /\ \A q \in Procs : q # p => Same(q)
    <2>1. digest' \in [Procs -> [Scope -> Contents \cup {None}]]
      <3>1. ASSUME NEW c \in Contents, digest' = [digest EXCEPT ![p][f] = c]
            PROVE  digest' \in [Procs -> [Scope -> Contents \cup {None}]]
        BY <3>1 DEF TypeOK
      <3> QED
        BY <1>6, <3>1 DEF HashFile, TypeOK
    <2>2. pc' \in [Procs -> Reading \cup Writing \cup {"idle", "rejected", "failed"}]
      BY <1>6 DEF HashFile, TypeOK
    <2>3. \A q \in Procs : q # p => Same(q)
      BY <1>6 DEF HashFile, TypeOK
    <2> QED
      BY <1>1, <1>6, <2>1, <2>2, <2>3 DEF HashFile, TypeOK
  <1>7. CASE ReadHeadAgain(p) \/ ReadStatusAgain(p)
    BY <1>1, <1>7 DEF ReadHeadAgain, ReadStatusAgain, TypeOK, Reading, Writing
  <1>8. CASE MakeOutput(p) \/ WriteManifest(p)
    BY <1>1, <1>8 DEF MakeOutput, WriteManifest, TypeOK, Writing
  <1>9. CASE WriteChecklist(p) \/ FailWriting(p)
    BY <1>1, <1>9 DEF WriteChecklist, FailWriting, TypeOK, Writing
  <1> QED
    BY <1>1, <1>2, <1>3, <1>4, <1>5, <1>6, <1>7, <1>8, <1>9 DEF Step

(***************************************************************************)
(* The output directory belongs to one process                             *)
(***************************************************************************)
LEMMA OwnerStep ==
    ASSUME IInv, NEW p \in Procs, Step(p)
    PROVE  \A q \in Procs : OwnerInv(q)'
  <1> USE DEF Goto
  <1>1. TypeOK /\ \A q \in Procs : q # p => pc'[q] = pc[q]
    BY StepTypes DEF IInv, Same
  <1>2. CASE pc'[p] \notin Owning /\ UNCHANGED output
    BY <1>1, <1>2 DEF IInv, OwnerInv, Owning
  <1>3. CASE MakeOutput(p) /\ MayMake
    <2>1. \A q \in Procs : pc[q] \notin Owning
      BY <1>3 DEF IInv, OwnerInv, MayMake
    <2>2. pc'[p] = "manifest" /\ output'.exists
      BY <1>1, <1>3 DEF MakeOutput, TypeOK
    <2> QED
      BY <1>1, <2>1, <2>2 DEF OwnerInv, Owning
  <1>4. CASE WriteManifest(p)
    <2>1. /\ pc[p] = "manifest" /\ pc'[p] = "checklist"
          /\ output'.exists = output.exists /\ output'.manifest = p
      BY <1>1, <1>4 DEF WriteManifest, TypeOK
    <2> QED
      BY <1>1, <2>1 DEF IInv, OwnerInv, Owning
  <1>5. CASE WriteChecklist(p)
    <2>1. /\ pc[p] = "checklist" /\ pc'[p] = "done" /\ output'.exists = output.exists
          /\ output'.manifest = output.manifest /\ output'.checklist = p
      BY <1>1, <1>5 DEF WriteChecklist, TypeOK
    <2> QED
      BY <1>1, <2>1 DEF IInv, OwnerInv, Owning
  <1>6. \/ pc'[p] \notin Owning /\ UNCHANGED output
        \/ MakeOutput(p) /\ MayMake
        \/ WriteManifest(p) \/ WriteChecklist(p)
    <2>1. ASSUME NEW f \in Scope, StatFile(p, f) \/ HashFile(p, f)
          PROVE  pc'[p] \notin Owning /\ UNCHANGED output
      BY <1>1, <2>1 DEF StatFile, HashFile, Owning, TypeOK
    <2>2. CASE Begin(p) \/ Reject(p) \/ ReadHead(p) \/ ReadStatus(p)
      BY <1>1, <2>2 DEF Begin, Reject, ReadHead, ReadStatus, Owning, TypeOK
    <2>3. CASE AllHashed(p) \/ ReadHeadAgain(p) \/ ReadStatusAgain(p) \/ FailWriting(p)
      BY <1>1, <2>3 DEF AllHashed, ReadHeadAgain, ReadStatusAgain, FailWriting, Owning, TypeOK
    <2>4. CASE MakeOutput(p) /\ ~MayMake
      BY <1>1, <2>4 DEF MakeOutput, Owning, TypeOK
    <2> QED
      BY <2>1, <2>2, <2>3, <2>4 DEF Step
  <1> QED
    BY <1>2, <1>3, <1>4, <1>5, <1>6

(***************************************************************************)
(* What is recorded, and whether it is that of the recorded commit         *)
(***************************************************************************)
\* What StatFile and HashFile record of a file, and of no other one.
LEMMA StatRecord ==
    ASSUME TypeOK, NEW p \in Procs, NEW f \in Scope, StatFile(p, f)
    PROVE  /\ UNCHANGED <<oid, digest, since>>
           /\ pc[p] = "hashing" /\ pc'[p] \in {"hashing", "rejected"}
           /\ pc'[p] = "hashing" =>
                 /\ size'[p][f] = worktree[f] /\ worktree[f] \in Contents
                 /\ \A g \in Scope : g # f => size'[p][g] = size[p][g]
  <1>1. CASE Reviewable(f)
    <2>1. size' = [size EXCEPT ![p][f] = worktree[f]]
      BY <1>1 DEF StatFile
    <2>2. /\ size'[p][f] = worktree[f]
          /\ \A g \in Scope : g # f => size'[p][g] = size[p][g]
      BY <2>1 DEF TypeOK
    <2> QED
      BY <1>1, <2>2 DEF StatFile, Reviewable
  <1>2. CASE ~Reviewable(f)
    BY <1>2 DEF StatFile, TypeOK, Goto
  <1> QED
    BY <1>1, <1>2

LEMMA HashRecord ==
    ASSUME TypeOK, NEW p \in Procs, NEW f \in Scope, HashFile(p, f)
    PROVE  /\ UNCHANGED <<oid, size, since>>
           /\ pc[p] = "hashing" /\ pc'[p] \in {"hashing", "rejected"}
           /\ size[p][f] # None
           /\ pc'[p] = "hashing" =>
                 /\ digest'[p][f] = worktree[f] \/ worktree[f] = Symlink
                 /\ \A g \in Scope : g # f => digest'[p][g] = digest[p][g]
  <1>1. ASSUME NEW c \in Contents, digest' = [digest EXCEPT ![p][f] = c]
        PROVE  digest'[p][f] = c /\ \A g \in Scope : g # f => digest'[p][g] = digest[p][g]
    BY <1>1 DEF TypeOK
  <1>2. CASE worktree[f] = Missing /\ Goto(p, "rejected")
    BY <1>2 DEF HashFile, TypeOK, Goto
  <1> QED
    BY <1>1, <1>2 DEF HashFile

LEMMA RecordStep ==
    ASSUME IInv, NEW p \in Procs, Step(p)
    PROVE  \A q \in Procs : RecordInv(q)'
  <1> USE DEF Goto
  <1>1. TypeOK /\ RecordInv(p)
    BY DEF IInv
  <1>2. ASSUME NEW q \in Procs, q # p PROVE RecordInv(q)'
    <2>1. Same(q) /\ RecordInv(q)
      BY <1>1, <1>2, StepTypes DEF IInv
    <2> QED
      BY <2>1 DEF Same, RecordInv
  <1> SUFFICES RecordInv(p)'
    BY <1>2
  <1>3. ASSUME NEW f \in Scope, StatFile(p, f) PROVE RecordInv(p)'
    <2>1. CASE pc'[p] = "rejected"
      <3>1. UNCHANGED <<size, digest>>
        BY <1>1, <1>3, <2>1 DEF StatFile, TypeOK
      <3> QED
        BY <1>1, <2>1, <3>1 DEF RecordInv, Writing
    <2>2. CASE pc'[p] = "hashing"
      <3>1. size'[p][f] # None /\ UNCHANGED digest
        BY <1>1, <1>3, <2>2, StatRecord, BundleConstants
      <3>2. \A g \in Scope : size[p][g] # None => size'[p][g] # None
        BY <1>1, <1>3, <2>2, <3>1, StatRecord
      <3> QED
        BY <1>1, <2>2, <3>1, <3>2 DEF RecordInv, Writing
    <2> QED
      BY <1>1, <1>3, <2>1, <2>2, StatRecord
  <1>4. ASSUME NEW f \in Scope, HashFile(p, f) PROVE RecordInv(p)'
    <2>1. /\ UNCHANGED size /\ size[p][f] # None
          /\ pc'[p] \in {"hashing", "rejected"}
          /\ pc'[p] = "hashing" => \A g \in Scope : g # f => digest'[p][g] = digest[p][g]
      BY <1>1, <1>4, HashRecord
    <2>2. pc'[p] = "rejected" => UNCHANGED digest
      BY <1>1, <1>4 DEF HashFile, TypeOK
    <2> QED
      BY <1>1, <2>1, <2>2 DEF RecordInv, Writing
  <1>5. CASE Begin(p)
    <2>1. /\ \A f \in Scope : size'[p][f] = None /\ digest'[p][f] = None
          /\ pc'[p] \in {"rejected", "head"}
      BY <1>1, <1>5 DEF Begin, TypeOK
    <2> QED
      BY <2>1 DEF RecordInv, Writing
  <1>6. CASE UNCHANGED <<size, digest>> /\ ~Begin(p)
    <2>1. \/ pc'[p] \in {"rejected", "failed", "hashing"}
          \/ pc[p] = "head" /\ pc'[p] = "status"
          \/ pc'[p] = "second head" /\ \A f \in Scope : digest[p][f] # None
          \/ /\ pc[p] \in {"second head", "second status"} \cup Writing
             /\ pc'[p] \in {"second status"} \cup Writing
      <3>1. CASE Reject(p) \/ ReadHead(p) \/ ReadStatus(p) \/ AllHashed(p)
        BY <1>1, <3>1 DEF Reject, ReadHead, ReadStatus, AllHashed, TypeOK
      <3>2. CASE ReadHeadAgain(p) \/ ReadStatusAgain(p) \/ FailWriting(p)
        BY <1>1, <3>2 DEF ReadHeadAgain, ReadStatusAgain, FailWriting, TypeOK, Writing
      <3>3. CASE MakeOutput(p) \/ WriteManifest(p) \/ WriteChecklist(p)
        BY <1>1, <3>3 DEF MakeOutput, WriteManifest, WriteChecklist, TypeOK, Writing
      <3>4. CASE \E f \in Scope : StatFile(p, f) \/ HashFile(p, f)
        BY <1>1, <3>4, StatRecord, HashRecord
      <3> QED
        BY <1>6, <3>1, <3>2, <3>3, <3>4 DEF Step
    <2> QED
      BY <1>1, <1>6, <2>1 DEF RecordInv, Writing
  <1>7. UNCHANGED <<size, digest>> \/ Begin(p) \/ \E f \in Scope : StatFile(p, f) \/ HashFile(p, f)
    BY DEF Step, Reject, ReadHead, ReadStatus, AllHashed, ReadHeadAgain, ReadStatusAgain,
           FailWriting, MakeOutput, WriteManifest, WriteChecklist, record
  <1> QED
    BY <1>3, <1>4, <1>5, <1>6, <1>7

\* The second check compares what the first one found with HEAD and the
\* worktree; the steps between them record what the worktree holds.
LEMMA ChangeStep ==
    ASSUME IInv, NEW p \in Procs, Step(p)
    PROVE  \A q \in Procs : ChangeInv(q)'
  <1> USE DEF Goto
  <1>1. /\ TypeOK /\ RecordInv(p) /\ ChangeInv(p)
        /\ UNCHANGED <<trees, head, worktree>> /\ (Clean' <=> Clean)
    BY StepTypes DEF IInv, Clean
  <1>2. ASSUME NEW q \in Procs, q # p PROVE ChangeInv(q)'
    <2>1. Same(q) /\ ChangeInv(q)
      BY <1>2, StepTypes DEF IInv
    <2>2. Accurate(q)' <=> Accurate(q)
      BY <1>1, <2>1 DEF Same, Accurate
    <2> QED
      BY <1>1, <2>1, <2>2 DEF Same, ChangeInv
  <1> SUFFICES ChangeInv(p)'
    BY <1>2
  <1>3. CASE Begin(p) \/ Reject(p) \/ FailWriting(p)
    <2>1. pc'[p] \in {"head", "rejected", "failed"}
      BY <1>1, <1>3 DEF Begin, Reject, FailWriting, TypeOK
    <2> QED
      BY <2>1 DEF ChangeInv, Writing
  <1>4. CASE ReadHead(p)
    <2>1. pc'[p] = "status" /\ oid'[p] = head
      BY <1>1, <1>4 DEF ReadHead, TypeOK
    <2> QED
      BY <1>1, <2>1 DEF ChangeInv, Writing
  <1>5. CASE ReadStatus(p)
    <2>1. /\ UNCHANGED <<oid, size, digest, since>> /\ pc[p] = "status"
          /\ pc'[p] = "hashing" => Clean
          /\ pc'[p] \in {"rejected", "hashing"}
      BY <1>1, <1>5 DEF ReadStatus, TypeOK, record
    <2>2. Accurate(p)'
      BY <1>1, <2>1 DEF RecordInv, Accurate
    <2> QED
      BY <1>1, <2>1, <2>2 DEF ChangeInv, Writing
  <1>6. ASSUME NEW f \in Scope, StatFile(p, f) PROVE ChangeInv(p)'
    <2>1. ASSUME pc'[p] = "hashing", Accurate(p), Clean, head = oid[p] PROVE Accurate(p)'
      BY <1>1, <1>6, <2>1, StatRecord DEF Accurate, Clean
    <2> QED
      BY <1>1, <1>6, <2>1, StatRecord DEF ChangeInv, Writing
  <1>7. ASSUME NEW f \in Scope, HashFile(p, f) PROVE ChangeInv(p)'
    <2>1. ASSUME pc'[p] = "hashing", Accurate(p), Clean, head = oid[p] PROVE Accurate(p)'
      <3>1. size[p][f] = worktree[f] /\ size[p][f] # Symlink
        BY <1>1, <1>7, <2>1, HashRecord, BundleConstants DEF Accurate, Clean, TypeOK
      <3> QED
        BY <1>1, <1>7, <2>1, <3>1, HashRecord DEF Accurate, Clean
    <2> QED
      BY <1>1, <1>7, <2>1, HashRecord DEF ChangeInv, Writing
  <1>8. CASE AllHashed(p) \/ ReadHeadAgain(p) \/ ReadStatusAgain(p)
    <2>1. UNCHANGED <<oid, size, digest, since>> /\ (Accurate(p)' <=> Accurate(p))
      BY <1>1, <1>8 DEF AllHashed, ReadHeadAgain, ReadStatusAgain, record, Accurate
    <2>2. \/ pc'[p] = "rejected"
          \/ pc[p] = "hashing" /\ pc'[p] = "second head"
          \/ pc[p] = "second head" /\ pc'[p] = "second status" /\ head = oid[p]
          \/ pc[p] = "second status" /\ pc'[p] = "making" /\ Clean
      BY <1>1, <1>8 DEF AllHashed, ReadHeadAgain, ReadStatusAgain, SameHead, TypeOK
    <2> QED
      BY <1>1, <2>1, <2>2 DEF ChangeInv, Writing
  <1>9. CASE MakeOutput(p) \/ WriteManifest(p) \/ WriteChecklist(p)
    <2>1. /\ UNCHANGED <<oid, size, digest, since>> /\ (Accurate(p)' <=> Accurate(p))
          /\ pc[p] \in Writing /\ pc'[p] \in Writing \cup {"failed"}
      BY <1>1, <1>9 DEF MakeOutput, WriteManifest, WriteChecklist, record, Accurate, TypeOK,
                        Writing
    <2> QED
      BY <1>1, <2>1 DEF ChangeInv, Writing
  <1> QED
    BY <1>3, <1>4, <1>5, <1>6, <1>7, <1>8, <1>9 DEF Step

\* A first change leaves HEAD or the worktree so that the second check sees
\* it, when something was recorded before it.
LEMMA ChangeMove ==
    ASSUME IInv, NEW p \in Procs,
           (\E f \in Paths : EditFile(f)) \/ Commit \/ (\E c \in 1 .. Len(trees) : MoveHead(c))
    PROVE  ChangeInv(p)'
  <1>1. /\ UNCHANGED <<pc, oid, size, digest>>
        /\ pc[p] \in Reading => since'[p] = since[p] + 1
        /\ pc[p] \notin Reading => since'[p] = since[p]
    BY DEF IInv, TypeOK, EditFile, Commit, MoveHead, Moves, record
  <1>2. /\ since[p] \in Nat /\ ChangeInv(p)
        /\ pc[p] \in Reading => since'[p] # 0 /\ (since[p] # 0 => ~(since'[p] <= 1))
    <2>1. since[p] \in Nat /\ ChangeInv(p)
      BY DEF IInv, TypeOK
    <2> QED
      BY <1>1, <2>1
  <1>3. Accurate(p)' <=> Accurate(p)
    <2>1. oid[p] \in 1 .. Len(trees)
      BY DEF IInv, TypeOK
    <2>2. trees'[oid[p]] = trees[oid[p]]
      BY <2>1, MoveTypes DEF IInv
    <2> QED
      BY <1>1, <2>2 DEF Accurate
  <1>4. CASE pc[p] \notin Reading
    BY <1>1, <1>2, <1>3, <1>4 DEF ChangeInv, Reading
  <1>5. CASE pc[p] \in Reading /\ since[p] # 0
    BY <1>1, <1>2, <1>5 DEF ChangeInv, Reading, Writing
  <1>6. CASE pc[p] \in {"head", "status"} /\ since[p] = 0
    BY <1>1, <1>2, <1>6 DEF ChangeInv, Reading, Writing
  <1>7. CASE pc[p] \in {"hashing", "second head", "second status"} /\ since[p] = 0
    BY <1>1, <1>2, <1>3, <1>7 DEF ChangeInv, Reading, Writing
  <1> QED
    BY <1>4, <1>5, <1>6, <1>7 DEF Reading

LEMMA NextInv == IInv /\ [Next]_vars => IInv'
  <1> SUFFICES ASSUME IInv, [Next]_vars PROVE IInv'
    OBVIOUS
  <1>1. ASSUME NEW p \in Procs, Step(p) PROVE IInv'
    BY <1>1, StepTypes, OwnerStep, RecordStep, ChangeStep DEF IInv
  <1>2. ASSUME (\E f \in Paths : EditFile(f)) \/ Commit
               \/ (\E c \in 1 .. Len(trees) : MoveHead(c))
        PROVE  IInv'
    <2>1. UNCHANGED <<output, pc, size, digest>>
      BY <1>2 DEF EditFile, Commit, MoveHead, Moves, record
    <2>2. ASSUME NEW p \in Procs PROVE OwnerInv(p)' /\ RecordInv(p)'
      BY <2>1 DEF IInv, OwnerInv, RecordInv
    <2> QED
      BY <1>2, <2>2, MoveTypes, ChangeMove DEF IInv
  <1>3. CASE UNCHANGED vars
    <2>1. UNCHANGED <<trees, head, worktree, moves, output, pc, oid, size, digest, calls, since>>
      BY <1>3 DEF vars, repository, record
    <2>2. TypeOK'
      BY <2>1 DEF IInv, TypeOK
    <2>3. ASSUME NEW p \in Procs PROVE OwnerInv(p)' /\ RecordInv(p)' /\ ChangeInv(p)'
      BY ZenonT(40), <2>1 DEF IInv, OwnerInv, RecordInv, ChangeInv, Accurate, Clean
    <2> QED
      BY <2>2, <2>3 DEF IInv
  <1> QED
    BY <1>1, <1>2, <1>3 DEF Next

(***************************************************************************)
(* The theorems                                                            *)
(***************************************************************************)
\* The inductive invariant holds in every state of every behaviour.
THEOREM BundleInvariant == Spec => []IInv
  BY InitInv, NextInv, PTL DEF Spec

\* Every variable has its type: what is recorded of a file is the content of
\* a regular one, and a recorded commit exists.
THEOREM TypeCorrect == Spec => []TypeOK
  <1>1. IInv => TypeOK
    BY DEF IInv
  <1> QED
    BY <1>1, BundleInvariant, PTL

\* create_security_review_bundle: a process that returns has written manifest
\* and checklist itself, though several found the directory free, because
\* mkdir succeeds for one of them.
THEOREM OwnOutput == Spec => []SuccessIsOwnOutput
  <1>1. IInv => SuccessIsOwnOutput
    BY DEF IInv, OwnerInv, SuccessIsOwnOutput
  <1> QED
    BY <1>1, BundleInvariant, PTL

\* create_security_review_bundle: one edit, commit or move of HEAD between any
\* two of its steps is caught by the second check, or what is written is
\* still the content of the recorded commit.
THEOREM OneChange == Spec => []OneChangeIsCaught
  <1>1. ASSUME IInv, NEW p \in Procs, pc[p] \in Writing, since[p] <= 1
        PROVE  DescribesCommit(p)
    <2>1. Accurate(p) /\ \A f \in Scope : digest[p][f] # None /\ size[p][f] # None
      BY <1>1 DEF IInv, RecordInv, ChangeInv
    <2> QED
      BY <2>1 DEF Accurate, DescribesCommit
  <1>2. IInv => OneChangeIsCaught
    BY <1>1 DEF OneChangeIsCaught
  <1> QED
    BY <1>2, BundleInvariant, PTL
=============================================================================
