-------------------------- MODULE PatchApplyProofs --------------------------
(***************************************************************************)
(* Proofs about PatchApply, for any number of callers, files, contents,    *)
(* modes and proposals: type correctness, PrefixApplied, ValidatedFirst,   *)
(* OnlyApprovedFilesChange and AppliedOnce; and that PatchApply implements *)
(* the safety part of PatchContract for every caller.                      *)
(***************************************************************************)
EXTENDS PatchRefinement, SequenceTheorems, TLAPS

(***************************************************************************)
(* The inductive invariant: TypeOK and, for each caller, four facts.       *)
(***************************************************************************)
Expected(p, i) == artifact[p][i].expected
NewContent(p, i) == artifact[p][i].content
Target(p, i) == artifact[p][i].path

\* How far the call is, by its stage.
StageInv(p) ==
    /\ artifact[p] = <<>> \/ Parses(artifact[p])
    /\ pc[p] \in {"answered"} \cup Applying => artifact[p] # <<>>
    /\ pc[p] \in {"reading", "captured"} => checked[p] = 0 /\ request[p] \in Requests
    /\ pc[p] = "checking" => staged[p] = 0 /\ checked[p] < Len(artifact[p])
    /\ pc[p] \in {"staging", "writing", "moding"} =>
          /\ checked[p] = Len(artifact[p])
          /\ staged[p] < Len(artifact[p])
          /\ replaced[p] = 0
    /\ pc[p] = "replacing" =>
          /\ checked[p] = Len(artifact[p])
          /\ staged[p] = Len(artifact[p])
          /\ replaced[p] < Len(artifact[p])

\* What validation has established about the artifact and the workspace.
CheckInv(p) ==
    /\ \A i \in 1 .. checked[p] :
          /\ Target(p, i) \in Allowed
          /\ NewContent(p, i) # Expected(p, i)
          /\ Expected(p, i) = request[p].seen[Target(p, i)]
          /\ Target(p, i) \notin touched[p] =>
                /\ before[p][Target(p, i)] # Missing
                /\ before[p][Target(p, i)].content = Expected(p, i)
    /\ pc[p] \in Applying \/ checked[p] > 0 =>
          \A f \in Paths : /\ before[p][f] # Symlink
                           /\ request[p].tree[1][f] = View(before[p][f])

\* What the temporary files of the call hold.
TempInv(p) ==
    /\ pc[p] = "writing" => temps[TempOf(p, staged[p] + 1)] \in File
    /\ pc[p] = "moding" =>
          /\ temps[TempOf(p, staged[p] + 1)] \in File
          /\ temps[TempOf(p, staged[p] + 1)].content = NewContent(p, staged[p] + 1)
    /\ pc[p] \in {"staging", "writing", "moding", "replacing"} =>
          \A i \in replaced[p] + 1 .. staged[p] :
              /\ temps[TempOf(p, i)] \in RegularFile
              /\ temps[TempOf(p, i)].content = NewContent(p, i)
              /\ Target(p, i) \notin touched[p] =>
                    temps[TempOf(p, i)].mode = before[p][Target(p, i)].mode

\* PrefixApplied for one caller.
PrefixInv(p) ==
    \A f \in Paths \ touched[p] :
        /\ \A i \in 1 .. replaced[p] : Replaces(p, i, f) =>
              files[f] = [content |-> artifact[p][i].content, mode |-> before[p][f].mode]
        /\ (\A i \in 1 .. replaced[p] : ~Replaces(p, i, f)) => files[f] = before[p][f]

CallerInv(p) == StageInv(p) /\ CheckInv(p) /\ TempInv(p) /\ PrefixInv(p)

IInv == TypeOK /\ \A p \in Procs : CallerInv(p)

(***************************************************************************)
(* Typing of an artifact and of the names of its temporary files           *)
(***************************************************************************)
\* Every replacement of a held artifact is well typed and names a temporary
\* file of its own caller.
LEMMA ReplacementTypes ==
    ASSUME TypeOK, NEW p \in Procs, NEW i \in 1 .. Len(artifact[p])
    PROVE  /\ artifact[p][i] \in Replacement
           /\ Target(p, i) \in Paths
           /\ NewContent(p, i) \in Contents
           /\ TempOf(p, i) \in TempIds
           /\ TempOf(p, i)[2] = p
  <1>1. artifact[p] \in Seq(Replacement) /\ Len(artifact[p]) <= MaxFiles
    BY DEF TypeOK, FilesOK, CallsOK, CountsOK
  <1>2. artifact[p][i] \in Replacement
    BY <1>1
  <1>3. i \in 1 .. MaxFiles
    BY <1>1, PatchConstants
  <1> QED
    BY <1>2, <1>3, PatchConstants DEF Replacement, Target, NewContent, TempOf, TempIds

\* A step that leaves a caller's own variables and temporary files alone, and
\* records in `touched` every file it changes, preserves that caller's part of
\* the invariant.
LEMMA Frame ==
    ASSUME TypeOK, NEW q \in Procs, CallerInv(q),
           pc'[q] = pc[q], request'[q] = request[q], artifact'[q] = artifact[q],
           checked'[q] = checked[q], staged'[q] = staged[q],
           replaced'[q] = replaced[q], before'[q] = before[q],
           touched[q] \subseteq touched'[q],
           \A f \in Paths \ touched'[q] : files'[f] = files[f],
           \A t \in TempIds : t[2] = q => temps'[t] = temps[t]
    PROVE  CallerInv(q)'
  <1>1. StageInv(q)'
    BY DEF CallerInv, StageInv, Parses
  <1>2. CheckInv(q)'
    BY DEF CallerInv, CheckInv, Target, NewContent, Expected, View
  <1>3. PrefixInv(q)'
    BY DEF CallerInv, PrefixInv, Replaces
  <1>4. ASSUME NEW i \in 1 .. Len(artifact[q])
        PROVE  /\ temps'[TempOf(q, i)] = temps[TempOf(q, i)]
               /\ TempOf(q, i)' = TempOf(q, i)
    BY <1>4, ReplacementTypes DEF TempOf
  <1>5. TempInv(q)'
    <2>1. staged[q] \in Nat /\ replaced[q] \in Nat /\ staged[q] <= Len(artifact[q])
      BY DEF TypeOK, FilesOK, CallsOK, CountsOK
    <2>2. pc[q] \in {"writing", "moding"} => staged[q] + 1 \in 1 .. Len(artifact[q])
      BY <2>1 DEF CallerInv, StageInv, TypeOK, FilesOK, CallsOK, CountsOK
    <2>3. \A i \in replaced[q] + 1 .. staged[q] : i \in 1 .. Len(artifact[q])
      BY <2>1 DEF TypeOK
    <2> QED
      BY <1>4, <2>2, <2>3 DEF CallerInv, TempInv, Target, NewContent, TempOf
  <1> QED
    BY <1>1, <1>2, <1>3, <1>5 DEF CallerInv

(***************************************************************************)
(* The initial states                                                      *)
(***************************************************************************)
LEMMA InitIInv == Init => IInv
  <1> SUFFICES ASSUME Init PROVE IInv
    OBVIOUS
  <1>1. TypeOK
    BY PatchConstants DEF Init, TypeOK, FilesOK, CallsOK, CountsOK, RegularFile, Stages, Requests
  <1>2. ASSUME NEW p \in Procs PROVE CallerInv(p)
    BY <1>2, PatchConstants
       DEF Init, CallerInv, StageInv, CheckInv, TempInv, PrefixInv, Applying
  <1> QED
    BY <1>1, <1>2 DEF IInv


\* Without a symbolic link the tree has a digest, and every file a content.
LEMMA DigestType ==
    ASSUME TypeOK, ~HasSymlink
    PROVE  /\ TreeDigest \in Digests
           /\ \A f \in Paths : Content(files[f]) \in Contents \cup {Missing}
  <1>1. \A node \in RegularFile \cup {Missing} :
           /\ View(node) \in Seen(Contents)
           /\ Content(node) \in Contents \cup {Missing}
    BY DEF View, Seen, Content, RegularFile
  <1>2. \A node \in File \cup {Missing} : View(node) \in Seen(Contents \cup {Partial})
    BY DEF View, Seen, File
  <1>3. \A f \in Paths : files[f] \in RegularFile \cup {Missing}
    BY DEF TypeOK, FilesOK, HasSymlink
  <1> QED
    BY <1>1, <1>2, <1>3 DEF TypeOK, FilesOK, TreeDigest, Digests

(***************************************************************************)
(* The steps of a call                                                     *)
(***************************************************************************)
LEMMA CaptureTreeStep ==
    ASSUME IInv, NEW p \in Procs, CaptureTree(p) PROVE IInv'
  <1>1. /\ UNCHANGED <<files, temps, identity, edits>>
        /\ artifact'[p] = <<>> /\ before'[p] = files
        /\ checked'[p] = 0 /\ staged'[p] = 0 /\ replaced'[p] = 0
        /\ \/ pc'[p] = "finished"
           \/ pc'[p] = "reading" /\ request'[p] \in Requests
    <2>1. [tree |-> TreeDigest, seen |-> [f \in Paths |-> Missing]] \in Requests
             \/ HasSymlink
      BY DigestType DEF IInv, Requests
    <2>2. \/ HasSymlink /\ pc' = [pc EXCEPT ![p] = "finished"]
          \/ ~HasSymlink /\ pc' = [pc EXCEPT ![p] = "reading"]
      BY DEF CaptureTree, Ends, Goto
    <2>3. pc'[p] = "finished" \/ request'[p] =
             [tree |-> TreeDigest, seen |-> [f \in Paths |-> Missing]]
      BY DEF IInv, TypeOK, CallsOK, CaptureTree, Ends, Goto
    <2>4. UNCHANGED <<files, temps, identity, edits>> /\ artifact'[p] = <<>>
      BY DEF IInv, TypeOK, CallsOK, CaptureTree
    <2>5. /\ before'[p] = files
          /\ checked'[p] = 0 /\ staged'[p] = 0 /\ replaced'[p] = 0
      BY DEF IInv, TypeOK, FilesOK, CountsOK, CaptureTree, Restart
    <2>6. \/ pc'[p] = "finished"
          \/ pc'[p] = "reading" /\ request'[p] \in Requests
      <3>1. CASE HasSymlink
        <4>1. pc' = [pc EXCEPT ![p] = "finished"]
          BY <2>2, <3>1
        <4> QED
          BY <4>1 DEF IInv, TypeOK, CallsOK
      <3>2. CASE ~HasSymlink
        <4>1. pc' = [pc EXCEPT ![p] = "reading"]
          BY <2>2, <3>2
        <4>2. pc'[p] = "reading"
          BY <4>1 DEF IInv, TypeOK, CallsOK
        <4> QED
          BY <2>1, <2>3, <3>2, <4>2
      <3> QED
        BY <3>1, <3>2
    <2> QED
      BY <2>4, <2>5, <2>6
  <1>2. FilesOK'
    BY DEF IInv, TypeOK, FilesOK, CaptureTree, Restart
  <1>3. CallsOK'
    <2>1. request' \in [Procs -> Requests \cup {Missing}]
      BY <1>1 DEF IInv, TypeOK, CallsOK, CaptureTree, Ends, Goto
    <2>2. pc' \in [Procs -> Stages]
      BY DEF IInv, TypeOK, CallsOK, CaptureTree, Ends, Goto, Stages
    <2>3. artifact' \in [Procs -> Seq(Replacement)]
      BY DEF IInv, TypeOK, CallsOK, CaptureTree
    <2> QED
      BY <2>1, <2>2, <2>3 DEF IInv, TypeOK, CallsOK, CaptureTree, Ends
  <1>4. CountsOK'
    BY PatchConstants DEF IInv, TypeOK, FilesOK, CallsOK, CountsOK, CaptureTree, Restart
  <1>5. StageInv(p)'
    BY <1>1 DEF StageInv, Applying
  <1>6. CheckInv(p)'
    BY <1>1 DEF CheckInv, Applying
  <1>7. TempInv(p)'
    BY <1>1 DEF TempInv
  <1>8. PrefixInv(p)'
    BY <1>1 DEF PrefixInv
  <1>9. ASSUME NEW q \in Procs, q # p PROVE CallerInv(q)'
    BY <1>9, Frame DEF IInv, TypeOK, FilesOK, CallsOK, CountsOK, CaptureTree, Restart, Ends, Goto
  <1> QED
    BY <1>2, <1>3, <1>4, <1>5, <1>6, <1>7, <1>8, <1>9 DEF IInv, TypeOK, CallerInv

LEMMA ReadSourcesStep ==
    ASSUME IInv, NEW p \in Procs, ReadSources(p) PROVE IInv'
  <1>1. /\ UNCHANGED <<files, temps, artifact, identity, progress, calls, history>>
        /\ checked[p] = 0 /\ staged[p] = 0 /\ replaced[p] = 0
        /\ request[p] \in Requests
        /\ \/ pc'[p] = "finished" /\ request' = request
           \/ pc'[p] = "captured"
    BY DEF IInv, TypeOK, FilesOK, CallsOK, CountsOK, CallerInv, StageInv, ReadSources, Ends, Goto
  <1>2. FilesOK'
    BY <1>1 DEF IInv, TypeOK, FilesOK, history
  <1>3. /\ request' \in [Procs -> Requests \cup {Missing}]
        /\ request'[p] \in Requests
    <2>1. CASE request' = request
      BY <1>1, <2>1 DEF IInv, TypeOK, CallsOK
    <2>2. CASE ~HasSymlink /\ request' =
              [request EXCEPT ![p].seen = [f \in Paths |-> Content(files[f])]]
      <3>1. [f \in Paths |-> Content(files[f])] \in [Paths -> Contents \cup {Missing}]
        BY <2>2, DigestType DEF IInv
      <3>2. [request[p] EXCEPT !.seen = [f \in Paths |-> Content(files[f])]] \in Requests
        BY <1>1, <3>1 DEF Requests
      <3> QED
        BY <2>2, <3>2 DEF IInv, TypeOK, CallsOK
    <2> QED
      BY <2>1, <2>2 DEF ReadSources
  <1>4. CallsOK'
    BY <1>1, <1>3 DEF IInv, TypeOK, CallsOK, ReadSources, Ends, Goto, Stages
  <1>5. CountsOK'
    BY <1>1 DEF IInv, TypeOK, CountsOK, progress
  <1>6. StageInv(p)'
    BY <1>1, <1>3 DEF IInv, CallerInv, StageInv, Applying, Parses, progress
  <1>7. CheckInv(p)'
    BY <1>1 DEF CheckInv, Applying, progress
  <1>8. TempInv(p)'
    BY <1>1 DEF TempInv
  <1>9. PrefixInv(p)'
    BY <1>1 DEF IInv, CallerInv, PrefixInv, Replaces, progress, history
  <1>10. ASSUME NEW q \in Procs, q # p PROVE CallerInv(q)'
    BY <1>10, Frame DEF IInv, TypeOK, FilesOK, CallsOK, CountsOK, ReadSources, Ends, Goto, progress, history
  <1> QED
    BY <1>2, <1>4, <1>5, <1>6, <1>7, <1>8, <1>9, <1>10 DEF IInv, TypeOK, CallerInv

LEMMA RunAdapterStep ==
    ASSUME IInv, NEW p \in Procs, RunAdapter(p) PROVE IInv'
  <1>1. /\ UNCHANGED <<files, temps, request, progress, calls, history>>
        /\ checked[p] = 0 /\ staged[p] = 0 /\ replaced[p] = 0
        /\ \/ pc'[p] = "finished" /\ UNCHANGED <<artifact, identity>>
           \/ pc'[p] = "answered" /\ artifact'[p] \in Proposals /\ Parses(artifact'[p])
    BY DEF IInv, TypeOK, FilesOK, CallsOK, CountsOK, CallerInv, StageInv, RunAdapter, Ends, Goto
  <1>2. FilesOK'
    BY <1>1 DEF IInv, TypeOK, FilesOK, history
  <1>3. CallsOK'
    BY ZenonT(40), <1>1, PatchConstants DEF IInv, TypeOK, CallsOK, RunAdapter, Ends, Goto, Stages
  <1>4. CountsOK'
    <2>1. Len(artifact'[p]) \in Nat /\ Len(artifact'[p]) <= MaxFiles
      BY <1>1, PatchConstants DEF IInv, TypeOK, FilesOK, CallsOK, CountsOK, Parses
    <2>2. \A q \in Procs \ {p} : artifact'[q] = artifact[q]
      BY DEF IInv, TypeOK, CallsOK, RunAdapter
    <2>3. /\ checked' = checked /\ staged' = staged
          /\ replaced' = replaced /\ calls' = calls
      BY <1>1 DEF progress
    <2>4. ASSUME NEW q \in Procs
          PROVE  /\ replaced[q] <= staged[q] /\ staged[q] <= checked[q]
                 /\ checked[q] <= Len(artifact'[q]) /\ Len(artifact'[q]) <= MaxFiles
      <3>1. CASE q = p
        BY <1>1, <2>1, <3>1
      <3>2. CASE q # p
        BY <2>2, <3>2 DEF IInv, TypeOK, CountsOK
      <3> QED
        BY <3>1, <3>2
    <2> QED
      BY <2>3, <2>4 DEF IInv, TypeOK, CountsOK
  <1>5. StageInv(p)'
    <2>1. pc'[p] = "answered" => artifact'[p] # <<>>
      BY <1>1 DEF Parses
    <2> QED
      BY <1>1, <2>1 DEF IInv, CallerInv, StageInv, Applying, Parses
  <1>6. CheckInv(p)'
    BY <1>1 DEF CheckInv, Applying, progress
  <1>7. TempInv(p)'
    BY <1>1 DEF TempInv
  <1>8. PrefixInv(p)'
    BY <1>1 DEF IInv, CallerInv, PrefixInv, progress, history
  <1>9. ASSUME NEW q \in Procs, q # p PROVE CallerInv(q)'
    BY <1>9, Frame DEF IInv, TypeOK, FilesOK, CallsOK, CountsOK, RunAdapter, Ends, Goto, progress, history
  <1> QED
    BY <1>2, <1>3, <1>4, <1>5, <1>6, <1>7, <1>8, <1>9 DEF IInv, TypeOK, CallerInv

LEMMA CheckTreeStep ==
    ASSUME IInv, NEW p \in Procs, CheckTree(p) PROVE IInv'
  <1>1. /\ UNCHANGED <<files, temps, inputs, edits>>
        /\ checked'[p] = 0 /\ staged'[p] = 0 /\ replaced'[p] = 0
        /\ before'[p] = files
        /\ \/ pc'[p] = "finished"
           \/ pc'[p] = "checking" /\ ~HasSymlink /\ TreeDigest = request[p].tree
    BY DEF IInv, TypeOK, FilesOK, CallsOK, CountsOK, CheckTree, Restart, Ends, Goto
  <1>2. FilesOK'
    BY <1>1 DEF IInv, TypeOK, FilesOK, CheckTree, Restart
  <1>3. CallsOK'
    BY DEF IInv, TypeOK, CallsOK, CheckTree, Ends, Goto, Stages, inputs
  <1>4. CountsOK'
    BY DEF IInv, TypeOK, FilesOK, CallsOK, CountsOK, CheckTree, Restart, inputs
  <1>5. StageInv(p)'
    <2>1. artifact[p] # <<>> /\ Parses(artifact[p])
      BY DEF IInv, CallerInv, StageInv, CheckTree
    <2> QED
      BY <1>1, <2>1 DEF StageInv, Applying, Parses, inputs
  <1>6. CheckInv(p)'
    BY <1>1 DEF CheckInv, Applying, HasSymlink, TreeDigest, View, inputs
  <1>7. TempInv(p)'
    BY <1>1 DEF TempInv
  <1>8. PrefixInv(p)'
    BY <1>1 DEF PrefixInv
  <1>9. ASSUME NEW q \in Procs, q # p PROVE CallerInv(q)'
    BY <1>9, Frame DEF IInv, TypeOK, FilesOK, CallsOK, CountsOK, CheckTree, Restart, Ends, Goto, inputs
  <1> QED
    BY <1>2, <1>3, <1>4, <1>5, <1>6, <1>7, <1>8, <1>9 DEF IInv, TypeOK, CallerInv

LEMMA CheckReplacementStep ==
    ASSUME IInv, NEW p \in Procs, CheckReplacement(p) PROVE IInv'
  <1>1. /\ checked[p] \in Nat /\ checked[p] < Len(artifact[p])
        /\ staged[p] = 0 /\ replaced[p] = 0 /\ Len(artifact[p]) \in Nat
        /\ artifact[p] # <<>> /\ Parses(artifact[p]) /\ pc[p] = "checking"
    BY DEF IInv, TypeOK, FilesOK, CallsOK, CountsOK, CheckReplacement, CallerInv, StageInv, Applying
  <1>2. /\ UNCHANGED <<files, temps, inputs, staged, replaced, calls, history>>
        /\ \/ pc'[p] = "finished" /\ checked' = checked
           \/ /\ pc'[p] \in {"checking", "staging"}
              /\ pc'[p] = "staging" <=> checked[p] + 1 = Len(artifact[p])
              /\ checked'[p] = checked[p] + 1
              /\ Valid(p, checked[p] + 1)
    BY DEF IInv, TypeOK, FilesOK, CallsOK, CountsOK, CheckReplacement, Ends, Goto
  <1>3. FilesOK'
    BY <1>2 DEF IInv, TypeOK, FilesOK, history
  <1>4. CallsOK'
    BY DEF IInv, TypeOK, CallsOK, CheckReplacement, Ends, Goto, Stages, inputs
  <1>5. CountsOK'
    <2>1. /\ UNCHANGED <<artifact, staged, replaced, calls>>
          /\ checked' = checked \/ checked' = [checked EXCEPT ![p] = checked[p] + 1]
      BY DEF CheckReplacement, inputs
    <2>2. ASSUME NEW q \in Procs
          PROVE  staged[q] <= checked'[q] /\ checked'[q] <= Len(artifact[q])
      <3>1. CASE q = p
        BY <1>1, <2>1, <3>1 DEF IInv, TypeOK, CountsOK
      <3>2. CASE q # p
        BY <2>1, <3>2 DEF IInv, TypeOK, CountsOK
      <3> QED
        BY <3>1, <3>2
    <2>3. checked' \in [Procs -> Nat]
      <3>1. checked \in [Procs -> Nat] /\ checked[p] + 1 \in Nat
        BY <1>1 DEF IInv, TypeOK, CountsOK
      <3> QED
        BY <2>1, <3>1
    <2> QED
      BY <2>1, <2>2, <2>3 DEF IInv, TypeOK, CountsOK
  <1>6. StageInv(p)'
    BY <1>1, <1>2 DEF StageInv, Parses, Applying, inputs
  <1>7. CheckInv(p)'
    <2>1. \/ checked'[p] = checked[p]
          \/ /\ checked'[p] = checked[p] + 1 /\ Valid(p, checked[p] + 1)
             /\ \A i \in 1 .. checked'[p] : i \in 1 .. checked[p] \/ i = checked[p] + 1
      BY <1>1, <1>2
    <2>2. checked[p] + 1 \in 1 .. Len(artifact[p])
      BY <1>1
    <2>3. Target(p, checked[p] + 1) \in Paths
      BY <2>2, ReplacementTypes DEF IInv
    <2>4. \A f \in Paths \ touched[p] : files[f] = before[p][f]
      BY <1>1 DEF IInv, CallerInv, PrefixInv
    <2>5. LET i == checked[p] + 1 IN
          Valid(p, i) => /\ Target(p, i) \in Allowed
                         /\ NewContent(p, i) # Expected(p, i)
                         /\ Expected(p, i) = request[p].seen[Target(p, i)]
                         /\ Target(p, i) \notin touched[p] =>
                               /\ before[p][Target(p, i)] # Missing
                               /\ before[p][Target(p, i)].content = Expected(p, i)
      BY <2>3, <2>4 DEF Valid, Target, NewContent, Expected
    <2> QED
      BY <1>1, <1>2, <2>1, <2>5
         DEF IInv, CallerInv, CheckInv, Applying, Target, NewContent, Expected, View,
             inputs, history
  <1>8. TempInv(p)'
    BY <1>1, <1>2 DEF TempInv
  <1>9. PrefixInv(p)'
    BY <1>2 DEF IInv, CallerInv, PrefixInv, Replaces, inputs, history
  <1>10. ASSUME NEW q \in Procs, q # p PROVE CallerInv(q)'
    BY <1>10, Frame DEF IInv, TypeOK, FilesOK, CallsOK, CountsOK, CheckReplacement, Ends, Goto, inputs, history
  <1> QED
    BY <1>3, <1>4, <1>5, <1>6, <1>7, <1>8, <1>9, <1>10 DEF IInv, TypeOK, CallerInv

\* The temporary file a call works on next, apart from all others.
LEMMA NextTemp ==
    ASSUME IInv, NEW p \in Procs, pc[p] \in {"staging", "writing", "moding"}
    PROVE  /\ staged[p] + 1 \in 1 .. Len(artifact[p])
           /\ staged[p] \in Nat /\ replaced[p] = 0 /\ checked[p] = Len(artifact[p])
           /\ Parses(artifact[p]) /\ artifact[p] # <<>>
           /\ TempOf(p, staged[p] + 1) \in TempIds
           /\ TempOf(p, staged[p] + 1)[2] = p
           /\ Target(p, staged[p] + 1) \in Paths
           /\ NewContent(p, staged[p] + 1) \in Contents
           /\ \A i \in 1 .. staged[p] : /\ TempOf(p, i) \in TempIds
                                       /\ TempOf(p, i) # TempOf(p, staged[p] + 1)
  <1>1. /\ staged[p] + 1 \in 1 .. Len(artifact[p])
        /\ staged[p] \in Nat /\ replaced[p] = 0 /\ checked[p] = Len(artifact[p])
        /\ Parses(artifact[p]) /\ artifact[p] # <<>>
    BY DEF IInv, TypeOK, FilesOK, CallsOK, CountsOK, CallerInv, StageInv, Applying
  <1>2. \A i \in 1 .. staged[p] : TempOf(p, i) # TempOf(p, staged[p] + 1)
    BY <1>1 DEF TempOf
  <1>3. \A i \in 1 .. staged[p] : i \in 1 .. Len(artifact[p])
    BY <1>1
  <1> QED
    BY <1>1, <1>2, <1>3, ReplacementTypes DEF IInv

LEMMA OpenTempStep ==
    ASSUME IInv, NEW p \in Procs, OpenTemp(p) PROVE IInv'
  <1> DEFINE t == TempOf(p, staged[p] + 1)
  <1>1. pc[p] = "staging"
    BY DEF OpenTemp
  <1>2. /\ UNCHANGED <<files, inputs, progress, calls, history>>
        /\ \/ /\ temps' = [temps EXCEPT ![t] = [content |-> Partial, mode |-> Private]]
              /\ pc' = [pc EXCEPT ![p] = "writing"]
           \/ temps' = temps /\ pc' = [pc EXCEPT ![p] = "cleanup"]
    BY DEF OpenTemp, Fails, Goto
  <1>3. [content |-> Partial, mode |-> Private] \in File
    BY PatchConstants DEF File
  <1>4. FilesOK'
    BY <1>2, <1>3 DEF IInv, TypeOK, FilesOK, history
  <1>5. CallsOK'
    BY DEF IInv, TypeOK, CallsOK, OpenTemp, Fails, Goto, Stages, inputs
  <1>6. CountsOK'
    BY <1>2 DEF IInv, TypeOK, CountsOK, inputs, progress
  <1>7. pc'[p] \in {"writing", "cleanup"}
    BY <1>2 DEF IInv, TypeOK, CallsOK
  <1>8. StageInv(p)'
    BY <1>1, <1>2, <1>7 DEF IInv, CallerInv, StageInv, Applying, Parses, inputs, progress
  <1>9. CheckInv(p)'
    BY <1>1, <1>2, <1>7
       DEF IInv, CallerInv, CheckInv, Applying, Target, NewContent, Expected, View,
           inputs, progress, history
  <1>10. TempInv(p)'
    <2>1. TempOf(p, staged[p] + 1)' = t /\ \A i : TempOf(p, i)' = TempOf(p, i)
      BY <1>2 DEF TempOf, inputs, progress
    <2>2. pc'[p] = "writing" => temps'[t] \in File
      BY <1>1, <1>2, <1>3, NextTemp DEF IInv, TypeOK, FilesOK, CallsOK, CountsOK
    <2>3. \A i \in 1 .. staged[p] : temps'[TempOf(p, i)] = temps[TempOf(p, i)]
      BY <1>1, <1>2, NextTemp DEF IInv, TypeOK, FilesOK
    <2>4. replaced[p] = 0 /\ staged[p] \in Nat
      BY <1>1, NextTemp
    <2> QED
      BY <1>1, <1>2, <1>7, <2>1, <2>2, <2>3, <2>4
         DEF IInv, CallerInv, TempInv, Target, NewContent, inputs, progress, history
  <1>11. PrefixInv(p)'
    BY <1>2 DEF IInv, CallerInv, PrefixInv, Replaces, inputs, progress, history
  <1>12. ASSUME NEW q \in Procs, q # p PROVE CallerInv(q)'
    <2>1. \A u \in TempIds : u[2] = q => temps'[u] = temps[u]
      BY <1>1, <1>2, <1>12, NextTemp DEF IInv, TypeOK, FilesOK
    <2> QED
      BY <1>2, <1>12, <2>1, Frame DEF IInv, TypeOK, CallsOK, inputs, progress, history
  <1> QED
    BY <1>4, <1>5, <1>6, <1>8, <1>9, <1>10, <1>11, <1>12 DEF IInv, TypeOK, CallerInv

LEMMA WriteTempStep ==
    ASSUME IInv, NEW p \in Procs, WriteTemp(p) PROVE IInv'
  <1> DEFINE t == TempOf(p, staged[p] + 1)
             new == [content |-> NewContent(p, staged[p] + 1), mode |-> temps[t].mode]
  <1>1. pc[p] = "writing"
    BY DEF WriteTemp
  <1>2. /\ UNCHANGED <<files, inputs, progress, calls, history>>
        /\ \/ /\ temps' = [temps EXCEPT ![t] = new]
              /\ pc' = [pc EXCEPT ![p] = "moding"]
           \/ temps' = temps /\ pc' = [pc EXCEPT ![p] = "cleanup"]
    BY DEF WriteTemp, Fails, Goto, NewContent
  <1>3. new \in File
    BY <1>1, NextTemp DEF IInv, CallerInv, TempInv, File
  <1>4. FilesOK'
    BY <1>2, <1>3 DEF IInv, TypeOK, FilesOK, history
  <1>5. CallsOK'
    BY DEF IInv, TypeOK, CallsOK, WriteTemp, Fails, Goto, Stages, inputs
  <1>6. CountsOK'
    BY <1>2 DEF IInv, TypeOK, CountsOK, inputs, progress
  <1>7. pc'[p] \in {"moding", "cleanup"}
    BY <1>2 DEF IInv, TypeOK, CallsOK
  <1>8. StageInv(p)'
    BY <1>1, <1>2, <1>7 DEF IInv, CallerInv, StageInv, Applying, Parses, inputs, progress
  <1>9. CheckInv(p)'
    BY <1>1, <1>2, <1>7
       DEF IInv, CallerInv, CheckInv, Applying, Target, NewContent, Expected, View,
           inputs, progress, history
  <1>10. TempInv(p)'
    <2>1. TempOf(p, staged[p] + 1)' = t /\ \A i : TempOf(p, i)' = TempOf(p, i)
      BY <1>2 DEF TempOf, inputs, progress
    <2>2. pc'[p] = "moding" => temps'[t] = new
      BY <1>1, <1>2, NextTemp DEF IInv, TypeOK, FilesOK, CallsOK, CountsOK
    <2>3. \A i \in 1 .. staged[p] : temps'[TempOf(p, i)] = temps[TempOf(p, i)]
      BY <1>1, <1>2, NextTemp DEF IInv, TypeOK, FilesOK
    <2>4. replaced[p] = 0 /\ staged[p] \in Nat
      BY <1>1, NextTemp
    <2> QED
      BY <1>1, <1>2, <1>3, <1>7, <2>1, <2>2, <2>3, <2>4
         DEF IInv, CallerInv, TempInv, Target, NewContent, inputs, progress, history
  <1>11. PrefixInv(p)'
    BY <1>2 DEF IInv, CallerInv, PrefixInv, Replaces, inputs, progress, history
  <1>12. ASSUME NEW q \in Procs, q # p PROVE CallerInv(q)'
    <2>1. \A u \in TempIds : u[2] = q => temps'[u] = temps[u]
      BY <1>1, <1>2, <1>12, NextTemp DEF IInv, TypeOK, FilesOK
    <2> QED
      BY <1>2, <1>12, <2>1, Frame DEF IInv, TypeOK, CallsOK, inputs, progress, history
  <1> QED
    BY <1>4, <1>5, <1>6, <1>8, <1>9, <1>10, <1>11, <1>12 DEF IInv, TypeOK, CallerInv

LEMMA ChmodTempStep ==
    ASSUME IInv, NEW p \in Procs, ChmodTemp(p) PROVE IInv'
  <1> DEFINE s == staged[p] + 1
             t == TempOf(p, s)
             f == Target(p, s)
  <1>1. pc[p] = "moding"
    BY DEF ChmodTemp
  <1>2. \/ /\ staged' = staged /\ temps' = temps
           /\ pc' = [pc EXCEPT ![p] = "cleanup"]
        \/ \E m \in TargetModes(files[f]) :
              /\ temps' = [temps EXCEPT ![t] = [content |-> temps[t].content, mode |-> m]]
              /\ staged' = [staged EXCEPT ![p] = s]
              /\ pc' = [pc EXCEPT ![p] = IF s = Len(artifact[p]) THEN "replacing"
                                                                 ELSE "staging"]
    BY DEF ChmodTemp, Fails, Goto, AfterStaging, Target
  <1>3. UNCHANGED <<files, inputs, checked, replaced, calls, history>>
    BY DEF ChmodTemp
  <1>4. temps[t].content = NewContent(p, s) /\ NewContent(p, s) \in Contents
    BY <1>1, NextTemp DEF IInv, CallerInv, TempInv
  <1>5. \A m \in TargetModes(files[f]) :
           /\ [content |-> temps[t].content, mode |-> m] \in RegularFile
           /\ [content |-> temps[t].content, mode |-> m] \in File
           /\ f \notin touched[p] => m = before[p][f].mode
    <2>1. f \in Paths /\ replaced[p] = 0
      BY <1>1, NextTemp
    <2>2. f \notin touched[p] => files[f] = before[p][f] /\ before[p][f] # Symlink
      BY <1>1, <2>1 DEF IInv, CallerInv, PrefixInv, CheckInv, Applying
    <2>3. files[f] \in RegularFile \cup {Missing, Symlink}
      BY <2>1 DEF IInv, TypeOK, FilesOK
    <2> QED
      BY <1>4, <2>2, <2>3 DEF TargetModes, RegularFile, File
  <1>6. FilesOK'
    BY <1>2, <1>3, <1>5 DEF IInv, TypeOK, FilesOK, history
  <1>7. CallsOK'
    BY DEF IInv, TypeOK, CallsOK, ChmodTemp, AfterStaging, Fails, Goto, Stages, inputs
  <1>8. s \in 1 .. Len(artifact[p]) /\ checked[p] = Len(artifact[p]) /\ replaced[p] = 0
    BY <1>1, NextTemp
  <1>9. CountsOK'
    <2>1. staged' = staged \/ staged' = [staged EXCEPT ![p] = s]
      BY <1>2
    <2>2. staged' \in [Procs -> Nat]
      BY <1>8, <2>1 DEF IInv, TypeOK, CountsOK
    <2>3. ASSUME NEW q \in Procs PROVE replaced[q] <= staged'[q] /\ staged'[q] <= checked[q]
      <3>1. CASE q = p
        BY <1>8, <2>1, <3>1 DEF IInv, TypeOK, CountsOK
      <3>2. CASE q # p
        BY <2>1, <3>2 DEF IInv, TypeOK, CountsOK
      <3> QED
        BY <3>1, <3>2
    <2> QED
      BY <1>3, <2>2, <2>3 DEF IInv, TypeOK, CountsOK, inputs
  <1>10. \/ pc'[p] = "cleanup" /\ staged'[p] = staged[p]
         \/ /\ staged'[p] = s
            /\ \/ pc'[p] = "replacing" /\ s = Len(artifact[p])
               \/ pc'[p] = "staging" /\ s # Len(artifact[p])
    BY <1>2 DEF IInv, TypeOK, CallsOK, CountsOK
  <1>11. StageInv(p)'
    BY <1>1, <1>3, <1>8, <1>10
       DEF IInv, CallerInv, StageInv, Applying, Parses, inputs
  <1>12. CheckInv(p)'
    BY <1>1, <1>3, <1>10
       DEF IInv, CallerInv, CheckInv, Applying, Target, NewContent, Expected, View,
           inputs, history
  <1>13. TempInv(p)'
    <2>1. \A i : TempOf(p, i)' = TempOf(p, i)
      BY <1>3 DEF TempOf, inputs
    <2>2. \A i \in 1 .. staged[p] : temps'[TempOf(p, i)] = temps[TempOf(p, i)]
      BY <1>1, <1>2, NextTemp DEF IInv, TypeOK, FilesOK
    <2>3. staged'[p] = s => /\ temps'[t] \in RegularFile
                            /\ temps'[t].content = NewContent(p, s)
                            /\ f \notin touched[p] => temps'[t].mode = before[p][f].mode
      <3>1. CASE staged' = staged
        BY <1>1, <3>1, NextTemp
      <3>2. CASE \E m \in TargetModes(files[f]) :
                    temps' = [temps EXCEPT ![t] = [content |-> temps[t].content, mode |-> m]]
        BY <1>1, <1>4, <1>5, <3>2, NextTemp DEF IInv, TypeOK, FilesOK
      <3> QED
        BY <1>2, <3>1, <3>2
    <2>4. staged[p] \in Nat
      BY <1>1, NextTemp
    <2>5. \A i \in 1 .. staged'[p] : i \in 1 .. staged[p] \/ (i = s /\ staged'[p] = s)
      BY <1>10, <2>4
    <2>6. \A i \in 1 .. staged[p] :
             /\ temps[TempOf(p, i)] \in RegularFile
             /\ temps[TempOf(p, i)].content = NewContent(p, i)
             /\ Target(p, i) \notin touched[p] =>
                   temps[TempOf(p, i)].mode = before[p][Target(p, i)].mode
      BY <1>1, <1>8, <2>4 DEF IInv, CallerInv, TempInv
    <2>7. \A i : Target(p, i)' = Target(p, i) /\ NewContent(p, i)' = NewContent(p, i)
      BY <1>3 DEF Target, NewContent, inputs
    <2>8. \A i \in 1 .. staged'[p] :
             /\ temps'[TempOf(p, i)] \in RegularFile
             /\ temps'[TempOf(p, i)].content = NewContent(p, i)
             /\ Target(p, i) \notin touched[p] =>
                   temps'[TempOf(p, i)].mode = before[p][Target(p, i)].mode
      BY <2>2, <2>3, <2>5, <2>6
    <2> QED
      BY <1>3, <1>8, <1>10, <2>1, <2>7, <2>8 DEF TempInv, history
  <1>14. PrefixInv(p)'
    BY <1>3 DEF IInv, CallerInv, PrefixInv, Replaces, inputs, history
  <1>15. ASSUME NEW q \in Procs, q # p PROVE CallerInv(q)'
    <2>1. \A u \in TempIds : u[2] = q => temps'[u] = temps[u]
      BY <1>1, <1>2, <1>15, NextTemp DEF IInv, TypeOK, FilesOK
    <2> QED
      BY <1>2, <1>3, <1>15, <2>1, Frame DEF IInv, TypeOK, FilesOK, CallsOK, CountsOK, inputs, history
  <1> QED
    BY <1>6, <1>7, <1>9, <1>11, <1>12, <1>13, <1>14, <1>15 DEF IInv, TypeOK, CallerInv

LEMMA ReplaceTargetStep ==
    ASSUME IInv, NEW p \in Procs, ReplaceTarget(p) PROVE IInv'
  <1> DEFINE r == replaced[p] + 1
             t == TempOf(p, r)
             f == Target(p, r)
             moved == /\ files' = [files EXCEPT ![f] = temps[t]]
                      /\ temps' = [temps EXCEPT ![t] = Missing]
                      /\ replaced' = [replaced EXCEPT ![p] = r]
                      /\ TouchedBy(p, f)
                      /\ \/ pc' = pc /\ r # Len(artifact[p])
                         \/ pc' = [pc EXCEPT ![p] = "cleanup"]
             failed == UNCHANGED <<files, temps, replaced, touched>>
                       /\ pc' = [pc EXCEPT ![p] = "cleanup"]
  <1>1. /\ pc[p] = "replacing"
        /\ UNCHANGED <<inputs, checked, staged, calls, edits, before>>
    BY DEF ReplaceTarget
  <1>2. moved \/ failed
    BY DEF ReplaceTarget, Fails, Goto, Target
  <1>3. /\ r \in 1 .. Len(artifact[p]) /\ replaced[p] \in Nat
        /\ staged[p] = Len(artifact[p]) /\ checked[p] = Len(artifact[p])
        /\ Parses(artifact[p])
    BY <1>1 DEF IInv, TypeOK, FilesOK, CallsOK, CountsOK, CallerInv, StageInv, Applying, Parses
  <1>4. \A i \in 1 .. Len(artifact[p]) : /\ TempOf(p, i) \in TempIds
                                         /\ TempOf(p, i)[2] = p
                                         /\ Target(p, i) \in Paths
    BY ReplacementTypes DEF IInv
  <1>5. \A i \in r .. staged[p] :
           /\ temps[TempOf(p, i)] \in RegularFile
           /\ temps[TempOf(p, i)].content = NewContent(p, i)
           /\ Target(p, i) \notin touched[p] =>
                 temps[TempOf(p, i)].mode = before[p][Target(p, i)].mode
    BY <1>1 DEF IInv, CallerInv, TempInv
  <1>6. /\ temps[t] \in RegularFile
        /\ temps[t].content = NewContent(p, r)
        /\ f \notin touched[p] => temps[t].mode = before[p][f].mode
    BY <1>3, <1>5
  <1>7. FilesOK'
    <2>1. CASE failed
      BY <1>1, <2>1 DEF IInv, TypeOK, FilesOK
    <2>2. CASE moved
      BY <1>1, <1>3, <1>4, <1>6, <2>2 DEF IInv, TypeOK, FilesOK, TouchedBy
    <2> QED
      BY <1>2, <2>1, <2>2
  <1>8. CallsOK'
    BY DEF IInv, TypeOK, CallsOK, ReplaceTarget, Fails, Goto, Stages, inputs
  <1>9. CountsOK'
    <2>1. replaced' = replaced \/ replaced' = [replaced EXCEPT ![p] = r]
      BY <1>2
    <2>2. replaced' \in [Procs -> Nat]
      <3>1. replaced \in [Procs -> Nat] /\ r \in Nat
        BY <1>3 DEF IInv, TypeOK, CountsOK
      <3> QED
        BY <2>1, <3>1
    <2>3. ASSUME NEW q \in Procs PROVE replaced'[q] <= staged[q]
      <3>1. CASE q = p
        BY <1>3, <2>1, <3>1 DEF IInv, TypeOK, CountsOK
      <3>2. CASE q # p
        BY <2>1, <3>2 DEF IInv, TypeOK, CountsOK
      <3> QED
        BY <3>1, <3>2
    <2> QED
      BY <1>1, <2>2, <2>3 DEF IInv, TypeOK, CountsOK, inputs
  <1>10. /\ touched'[p] = touched[p]
         /\ \/ pc'[p] = "cleanup"
            \/ /\ pc'[p] = "replacing" /\ r < Len(artifact[p])
               /\ replaced'[p] = r /\ moved
    <2>1. touched'[p] = touched[p]
      BY <1>2 DEF IInv, TypeOK, FilesOK, TouchedBy
    <2>2. failed => pc'[p] = "cleanup"
      BY DEF IInv, TypeOK, CallsOK
    <2>3. moved => /\ replaced'[p] = r
                   /\ \/ pc'[p] = "cleanup"
                      \/ pc'[p] = "replacing" /\ r # Len(artifact[p])
      BY <1>1 DEF IInv, TypeOK, CallsOK, CountsOK
    <2> QED
      BY <1>2, <1>3, <2>1, <2>2, <2>3
  <1>11. StageInv(p)'
    BY <1>1, <1>3, <1>10 DEF IInv, CallerInv, StageInv, Applying, Parses, inputs
  <1>12. CheckInv(p)'
    BY <1>1, <1>10
       DEF IInv, CallerInv, CheckInv, Applying, Target, NewContent, Expected, View, inputs
  <1>13. TempInv(p)'
    <2>1. SUFFICES ASSUME pc'[p] = "replacing" PROVE TempInv(p)'
      BY <1>10 DEF TempInv
    <2>2. \A i : /\ TempOf(p, i)' = TempOf(p, i) /\ Target(p, i)' = Target(p, i)
                 /\ NewContent(p, i)' = NewContent(p, i)
      BY <1>1 DEF TempOf, Target, NewContent, inputs
    <2>3. ASSUME NEW i \in r + 1 .. staged[p]
          PROVE  temps'[TempOf(p, i)] = temps[TempOf(p, i)] /\ i \in r .. staged[p]
      <3>1. i \in 1 .. Len(artifact[p]) /\ i # r /\ i \in r .. staged[p]
        BY <1>3
      <3>2. TempOf(p, i) # t
        BY <3>1 DEF TempOf
      <3> QED
        BY <1>4, <1>10, <2>1, <3>1, <3>2 DEF IInv, TypeOK, FilesOK
    <2> QED
      BY <1>1, <1>5, <1>10, <2>1, <2>2, <2>3 DEF TempInv
  <1>14. PrefixInv(p)'
    <2>1. CASE failed
      BY ZenonT(40), <1>1, <1>10, <2>1 DEF IInv, CallerInv, PrefixInv, Replaces, inputs
    <2>2. CASE moved
      <3>1. /\ replaced'[p] = r
            /\ \A g \in Paths \ {f} : files'[g] = files[g]
            /\ files'[f] = temps[t]
        BY <1>3, <1>4, <2>2 DEF IInv, TypeOK, FilesOK, CallsOK, CountsOK
      <3>2. f \notin touched[p] =>
               files'[f] = [content |-> NewContent(p, r), mode |-> before[p][f].mode]
        BY <1>6, <3>1 DEF RegularFile
      <3>3. \A i \in 1 .. r : Replaces(p, i, f) => i = r
        BY <1>3 DEF Replaces, Target, Parses
      <3>4. Replaces(p, r, f) /\ \A g \in Paths \ {f} : ~Replaces(p, r, g)
        BY DEF Replaces, Target
      <3>5. \A i \in 1 .. r : i \in 1 .. replaced[p] \/ i = r
        BY <1>3
      <3>6. \A i \in 1 .. replaced[p] : i \in 1 .. r
        BY <1>3
      <3>7. \A g \in Paths \ touched[p] :
               /\ \A i \in 1 .. r : Replaces(p, i, g) =>
                     files'[g] = [content |-> NewContent(p, i), mode |-> before[p][g].mode]
               /\ (\A i \in 1 .. r : ~Replaces(p, i, g)) => files'[g] = before[p][g]
        <4>1. ASSUME NEW g \in Paths \ touched[p], g # f
              PROVE  /\ \A i \in 1 .. r : Replaces(p, i, g) =>
                           files'[g] = [content |-> NewContent(p, i),
                                        mode |-> before[p][g].mode]
                     /\ (\A i \in 1 .. r : ~Replaces(p, i, g)) => files'[g] = before[p][g]
          BY <3>1, <3>4, <3>5, <3>6, <4>1 DEF IInv, CallerInv, PrefixInv, NewContent
        <4>2. r \in 1 .. r
          BY <1>3
        <4> QED
          BY <3>2, <3>3, <3>4, <4>1, <4>2
      <3> QED
        BY <1>1, <1>10, <3>1, <3>7 DEF PrefixInv, Replaces, NewContent, inputs
    <2> QED
      BY <1>2, <2>1, <2>2
  <1>15. ASSUME NEW q \in Procs, q # p PROVE CallerInv(q)'
    <2>1. \A u \in TempIds : u[2] = q => temps'[u] = temps[u]
      BY <1>2, <1>3, <1>4, <1>15 DEF IInv, TypeOK, FilesOK
    <2>2. /\ touched[q] \subseteq touched'[q]
          /\ \A g \in Paths \ touched'[q] : files'[g] = files[g]
      BY <1>2, <1>15 DEF IInv, TypeOK, FilesOK, TouchedBy
    <2>3. pc'[q] = pc[q] /\ replaced'[q] = replaced[q]
      BY <1>2, <1>15 DEF IInv, TypeOK, CallsOK, CountsOK
    <2> QED
      BY <1>1, <2>1, <2>2, <2>3, Frame DEF IInv, inputs
  <1> QED
    BY <1>7, <1>8, <1>9, <1>11, <1>12, <1>13, <1>14, <1>15 DEF IInv, TypeOK, CallerInv

LEMMA CleanupStep ==
    ASSUME IInv, NEW p \in Procs, Cleanup(p) PROVE IInv'
  <1>1. /\ UNCHANGED <<files, inputs, progress, calls, history>>
        /\ pc[p] = "cleanup" /\ pc' = [pc EXCEPT ![p] = "finished"]
    BY DEF Cleanup, Goto
  <1>2. PICK k \in replaced[p] .. staged[p] :
           temps' = [t \in TempIds |->
              IF \E i \in 1 .. k : t = TempOf(p, i) THEN Missing ELSE temps[t]]
    BY DEF Cleanup
  <1>3. FilesOK'
    BY <1>1, <1>2 DEF IInv, TypeOK, FilesOK, history
  <1>4. CallsOK'
    BY DEF IInv, TypeOK, CallsOK, Cleanup, Goto, Stages, inputs
  <1>5. CountsOK'
    BY <1>1 DEF IInv, TypeOK, CountsOK, inputs, progress
  <1>6. pc'[p] = "finished"
    BY <1>1 DEF IInv, TypeOK, CallsOK
  <1>7. CallerInv(p)'
    <2>1. StageInv(p)'
      BY <1>1, <1>6 DEF IInv, CallerInv, StageInv, Applying, Parses, inputs, progress
    <2>2. CheckInv(p)'
      BY <1>1, <1>6
         DEF IInv, CallerInv, CheckInv, Applying, Target, NewContent, Expected, View,
             inputs, progress, history
    <2>3. TempInv(p)'
      BY <1>6 DEF TempInv
    <2>4. PrefixInv(p)'
      BY <1>1 DEF IInv, CallerInv, PrefixInv, Replaces, inputs, progress, history
    <2> QED
      BY <2>1, <2>2, <2>3, <2>4 DEF CallerInv
  <1>8. ASSUME NEW q \in Procs, q # p PROVE CallerInv(q)'
    <2>1. \A i : TempOf(p, i)[2] = p
      BY DEF TempOf
    <2>2. \A t \in TempIds : t[2] = q => temps'[t] = temps[t]
      BY <1>2, <1>8, <2>1
    <2> QED
      BY <1>1, <1>8, <2>2, Frame DEF IInv, TypeOK, CallsOK, inputs, progress, history
  <1> QED
    BY <1>3, <1>4, <1>5, <1>7, <1>8 DEF IInv, TypeOK, CallerInv

\* A step that only moves pc[p] to or from a state between two calls.
LEMMA PcStep ==
    ASSUME IInv, NEW p \in Procs, CallAgain(p) \/ Crash(p) PROVE IInv'
  <1>1. /\ UNCHANGED <<files, temps, inputs, progress, outcome, calls, history>>
        /\ \/ pc' = [pc EXCEPT ![p] = "idle"]
           \/ pc' = [pc EXCEPT ![p] = "answered"] /\ artifact[p] # <<>>
           \/ pc' = [pc EXCEPT ![p] = "crashed"]
    BY DEF CallAgain, Crash, Goto
  <1>2. FilesOK' /\ CountsOK'
    BY <1>1 DEF IInv, TypeOK, FilesOK, CountsOK, inputs, progress, history
  <1>3. CallsOK'
    BY <1>1 DEF IInv, TypeOK, CallsOK, Stages, inputs
  <1>4. \/ pc'[p] \in {"idle", "crashed"}
        \/ pc'[p] = "answered" /\ artifact[p] # <<>>
    BY <1>1 DEF IInv, TypeOK, CallsOK
  <1>5. StageInv(p)' /\ CheckInv(p)' /\ TempInv(p)' /\ PrefixInv(p)'
    BY <1>1, <1>4
       DEF IInv, CallerInv, StageInv, CheckInv, TempInv, PrefixInv, Applying, Parses,
           Target, NewContent, Expected, View, Replaces, inputs, progress, history
  <1>6. ASSUME NEW q \in Procs, q # p PROVE CallerInv(q)'
    BY <1>1, <1>6, Frame DEF IInv, TypeOK, CallsOK, inputs, progress, history
  <1> QED
    BY <1>2, <1>3, <1>5, <1>6 DEF IInv, TypeOK, CallerInv

LEMMA EditStep ==
    ASSUME IInv, NEW f \in Paths, Edit(f) PROVE IInv'
  <1>1. /\ UNCHANGED <<temps, pc, inputs, progress, outcome, calls, before>>
        /\ \E node \in RegularFile \cup {Missing, Symlink} :
              files' = [files EXCEPT ![f] = node]
        /\ edits' = edits + 1
        /\ touched' = [p \in Procs |-> touched[p] \cup {f}]
    BY DEF Edit
  <1>2. FilesOK'
    BY <1>1 DEF IInv, TypeOK, FilesOK
  <1>3. CallsOK' /\ CountsOK'
    BY <1>1 DEF IInv, TypeOK, CallsOK, CountsOK, inputs, progress
  <1>4. ASSUME NEW q \in Procs PROVE CallerInv(q)'
    <2>1. /\ touched[q] \subseteq touched'[q]
          /\ \A g \in Paths \ touched'[q] : files'[g] = files[g]
      BY <1>1 DEF IInv, TypeOK, FilesOK
    <2> QED
      BY <1>1, <2>1, Frame DEF IInv, inputs, progress
  <1> QED
    BY <1>2, <1>3, <1>4 DEF IInv, TypeOK

LEMMA StutterStep ==
    ASSUME IInv, UNCHANGED vars PROVE IInv'
  <1>1. TypeOK'
    BY DEF IInv, TypeOK, FilesOK, CallsOK, CountsOK, vars, inputs, progress, history
  <1>2. ASSUME NEW q \in Procs PROVE CallerInv(q)'
    BY Frame DEF IInv, vars, inputs, progress, history
  <1> QED
    BY <1>1, <1>2 DEF IInv

LEMMA NextIInv == IInv /\ [Next]_vars => IInv'
  <1> SUFFICES ASSUME IInv, [Next]_vars PROVE IInv'
    OBVIOUS
  <1>1. ASSUME NEW p \in Procs, CallStep(p) PROVE IInv'
    BY <1>1, CaptureTreeStep, ReadSourcesStep, RunAdapterStep, CheckTreeStep,
       CheckReplacementStep, OpenTempStep, WriteTempStep, ChmodTempStep,
       ReplaceTargetStep, CleanupStep DEF CallStep
  <1>2. ASSUME NEW p \in Procs, CallAgain(p) \/ Crash(p) PROVE IInv'
    BY <1>2, PcStep
  <1>3. ASSUME NEW f \in Paths, Edit(f) PROVE IInv'
    BY <1>3, EditStep
  <1>4. CASE UNCHANGED vars
    BY <1>4, StutterStep
  <1> QED
    BY <1>1, <1>2, <1>3, <1>4 DEF Next

\* Every reachable state of the patch boundary satisfies the invariant.
THEOREM InductiveInvariant == Spec => []IInv
  BY InitIInv, NextIInv, PTL DEF Spec

(***************************************************************************)
(* The properties                                                          *)
(***************************************************************************)
\* Every variable keeps its type; no file of the workspace ever holds the
\* unfinished bytes of a temporary one, however calls fail or interleave.
THEOREM TypeCorrect == Spec => []TypeOK
  <1>1. IInv => TypeOK
    BY DEF IInv
  <1> QED
    BY <1>1, InductiveInvariant, PTL

\* The effect of apply_patch_artifact is a prefix of its artifact at every
\* moment, on every file no other actor writes to.
THEOREM PrefixTheorem == Spec => []PrefixApplied
  <1>1. IInv => PrefixApplied
    BY DEF IInv, CallerInv, PrefixInv, PrefixApplied
  <1> QED
    BY <1>1, InductiveInvariant, PTL

\* Nothing is staged before all of the artifact is validated.
THEOREM ValidatedTheorem == Spec => []ValidatedFirst
  <1>1. ASSUME IInv, NEW p \in Procs,
               pc[p] \in {"staging", "writing", "moding", "replacing"},
               NEW i \in 1 .. Len(artifact[p])
        PROVE  /\ Target(p, i) \in Allowed
               /\ NewContent(p, i) # Expected(p, i)
               /\ Expected(p, i) = request[p].seen[Target(p, i)]
               /\ Target(p, i) \notin touched[p] =>
                     /\ before[p][Target(p, i)] \notin {Missing, Symlink}
                     /\ before[p][Target(p, i)].content = Expected(p, i)
    <2>1. i \in 1 .. checked[p]
      BY <1>1 DEF IInv, CallerInv, StageInv
    <2>2. Target(p, i) \in Paths /\ before[p][Target(p, i)] # Symlink
      BY <1>1, ReplacementTypes DEF IInv, CallerInv, CheckInv, Applying
    <2> QED
      BY <1>1, <2>1, <2>2 DEF IInv, CallerInv, CheckInv
  <1>2. IInv => ValidatedFirst
    BY <1>1 DEF ValidatedFirst, Target, NewContent, Expected
  <1> QED
    BY <1>2, InductiveInvariant, PTL

\* Apart from edits, a file changes only by os.replace of a validated call,
\* and only if the allowlist names it.
THEOREM ApprovedTheorem == Spec => OnlyApprovedFilesChange
  <1> DEFINE Approved == \A f \in Paths : files'[f] # files[f] /\ edits' = edits =>
          /\ f \in Allowed
          /\ \A g \in Paths \ {f} : files'[g] = files[g]
          /\ \E p \in Procs : /\ pc[p] = "replacing"
                              /\ staged[p] = Len(artifact[p])
                              /\ replaced'[p] = replaced[p] + 1
                              /\ artifact[p][replaced'[p]].path = f
  <1>1. ASSUME IInv, NEW p \in Procs, ReplaceTarget(p) PROVE Approved
    <2> DEFINE r == replaced[p] + 1
    <2>1. /\ pc[p] = "replacing" /\ staged[p] = Len(artifact[p])
          /\ r \in 1 .. checked[p]
      BY <1>1 DEF ReplaceTarget, IInv, TypeOK, FilesOK, CallsOK, CountsOK, CallerInv, StageInv
    <2>2. Target(p, r) \in Allowed
      BY <1>1, <2>1 DEF IInv, CallerInv, CheckInv
    <2>3. \/ files' = files
          \/ /\ \A g \in Paths \ {Target(p, r)} : files'[g] = files[g]
             /\ replaced'[p] = r
      BY <1>1 DEF ReplaceTarget, IInv, TypeOK, FilesOK, CallsOK, CountsOK, Target
    <2> QED
      BY <2>1, <2>2, <2>3 DEF Target
  <1>2. ASSUME IInv, Next PROVE Approved
    <2>1. ASSUME NEW p \in Procs, CallStep(p), ~ReplaceTarget(p) PROVE files' = files
      BY <2>1 DEF CallStep, CaptureTree, ReadSources, RunAdapter, CheckTree,
                  CheckReplacement, OpenTemp, WriteTemp, ChmodTemp, Cleanup
    <2>2. ASSUME NEW p \in Procs, CallAgain(p) \/ Crash(p) PROVE files' = files
      BY <2>2 DEF CallAgain, Crash
    <2>3. ASSUME NEW f \in Paths, Edit(f) PROVE edits' # edits
      BY <1>2, <2>3 DEF Edit, IInv, TypeOK, FilesOK
    <2> QED
      BY <1>1, <1>2, <2>1, <2>2, <2>3 DEF Next
  <1>3. IInv /\ [Next]_vars => [Approved]_vars
    BY <1>2
  <1> QED
    BY <1>3, InductiveInvariant, PTL DEF Spec, OnlyApprovedFilesChange

\* An artifact that was installed, even in part, is not accepted again unless
\* another actor wrote to a file it installed.
THEOREM AppliedOnceTheorem == Spec => AppliedOnce
  <1> DEFINE Once == \A p \in Procs : pc[p] = "answered" /\ pc'[p] = "checking" =>
          \A i \in 1 .. replaced[p] : artifact[p][i].path \in touched[p]
  <1>1. ASSUME IInv, Next, NEW p \in Procs, pc[p] = "answered", pc'[p] = "checking"
        PROVE  CheckTree(p)
    <2>1. ASSUME NEW q \in Procs, q # p, CallStep(q) \/ CallAgain(q) \/ Crash(q)
          PROVE  pc'[p] = pc[p]
      BY <1>1, <2>1
         DEF IInv, TypeOK, CallsOK, CallStep, CaptureTree, ReadSources, RunAdapter,
             CheckTree, CheckReplacement, OpenTemp, WriteTemp, ChmodTemp, ReplaceTarget,
             Cleanup, CallAgain, Crash, Ends, Fails, Goto
    <2>2. ASSUME NEW f \in Paths, Edit(f) PROVE pc' = pc
      BY <2>2 DEF Edit
    <2>3. CallStep(p) \/ CallAgain(p) \/ Crash(p)
      BY <1>1, <2>1, <2>2 DEF Next
    <2> QED
      BY <1>1, <2>3
         DEF CallStep, CaptureTree, ReadSources, RunAdapter, CheckReplacement, OpenTemp,
             WriteTemp, ChmodTemp, ReplaceTarget, Cleanup, CallAgain, Crash, Applying
  <1>2. ASSUME IInv, NEW p \in Procs, CheckTree(p), pc'[p] = "checking",
               NEW i \in 1 .. replaced[p], Target(p, i) \notin touched[p]
        PROVE  FALSE
    <2> DEFINE f == Target(p, i)
    <2>1. i \in 1 .. checked[p] /\ i \in 1 .. Len(artifact[p]) /\ checked[p] > 0
      BY <1>2 DEF IInv, TypeOK, FilesOK, CallsOK, CountsOK
    <2>2. f \in Paths
      BY <1>2, <2>1, ReplacementTypes DEF IInv
    <2>3. files[f] = [content |-> NewContent(p, i), mode |-> before[p][f].mode]
      BY <1>2, <2>2 DEF IInv, CallerInv, PrefixInv, Replaces, Target, NewContent
    <2>4. /\ before[p][f] # Missing /\ before[p][f].content = Expected(p, i)
          /\ NewContent(p, i) # Expected(p, i)
      BY <1>2, <2>1 DEF IInv, CallerInv, CheckInv
    <2>5. /\ before[p][f] # Symlink
          /\ request[p].tree[1][f] = View(before[p][f])
      BY <1>2, <2>1, <2>2 DEF IInv, CallerInv, CheckInv
    <2>6. TreeDigest = request[p].tree
      BY <1>2 DEF CheckTree, IInv, TypeOK, CallsOK, Ends, Goto
    <2>7. request[p].tree[1][f] = View(files[f])
      BY <2>2, <2>6 DEF TreeDigest
    <2>8. files[f] # Missing /\ files[f].content = NewContent(p, i)
      <3>1. NewContent(p, i) \in Contents
        BY <1>2, <2>1, ReplacementTypes DEF IInv
      <3>2. before[p][f] \in RegularFile
        BY <1>2, <2>2, <2>4, <2>5 DEF IInv, TypeOK, FilesOK
      <3>3. [content |-> NewContent(p, i), mode |-> before[p][f].mode] \in File
        BY <3>1, <3>2 DEF RegularFile, File
      <3> QED
        BY <2>3, <3>3, PatchConstants
    <2> QED
      BY <2>3, <2>4, <2>5, <2>7, <2>8 DEF View
  <1>3. IInv /\ [Next]_vars => [Once]_vars
    BY <1>1, <1>2 DEF Target
  <1> QED
    BY <1>3, InductiveInvariant, PTL DEF Spec, AppliedOnce

(***************************************************************************)
(* No call goes on for ever                                                *)
(***************************************************************************)
LEMMA StepsSum ==
    ASSUME NEW n \in Nat, NEW c \in 0 .. n, NEW s \in 0 .. n, NEW r \in 0 .. n,
           NEW w \in 0 .. 5
    PROVE  (n - c) + 4 * (n - s) + (n - r) + w \in Nat
  OBVIOUS

\* The four numbers StepsLeft is made of.
LEMMA StepsLeftType ==
    ASSUME TypeOK, NEW p \in Procs
    PROVE  /\ Len(artifact[p]) \in Nat
           /\ checked[p] \in 0 .. Len(artifact[p])
           /\ staged[p] \in 0 .. Len(artifact[p])
           /\ replaced[p] \in 0 .. Len(artifact[p])
           /\ StageLeft(pc[p]) \in 0 .. 5
           /\ StepsLeft(p) \in Nat
  <1>1. /\ Len(artifact[p]) \in Nat
        /\ checked[p] \in 0 .. Len(artifact[p])
        /\ staged[p] \in 0 .. Len(artifact[p])
        /\ replaced[p] \in 0 .. Len(artifact[p])
    BY DEF TypeOK, CallsOK, CountsOK
  <1>2. StageLeft(pc[p]) \in 0 .. 5
    BY DEF StageLeft
  <1>3. StepsLeft(p) = (Len(artifact[p]) - checked[p]) + 4 * (Len(artifact[p]) - staged[p])
                       + (Len(artifact[p]) - replaced[p]) + StageLeft(pc[p])
    BY DEF StepsLeft
  <1>4. StepsLeft(p) \in Nat
    BY ONLY <1>1, <1>2, <1>3, StepsSum
  <1> QED
    BY <1>1, <1>2, <1>4

LEMMA StepsLeftNext ==
    ASSUME TypeOK', NEW p \in Procs PROVE StepsLeft(p)' \in Nat
  <1>1. /\ Len(artifact'[p]) \in Nat
        /\ checked'[p] \in 0 .. Len(artifact'[p])
        /\ staged'[p] \in 0 .. Len(artifact'[p])
        /\ replaced'[p] \in 0 .. Len(artifact'[p])
    BY DEF TypeOK, CallsOK, CountsOK
  <1>2. StageLeft(pc'[p]) \in 0 .. 5
    BY DEF StageLeft
  <1>3. StepsLeft(p)' = (Len(artifact'[p]) - checked'[p]) + 4 * (Len(artifact'[p]) - staged'[p])
                        + (Len(artifact'[p]) - replaced'[p]) + StageLeft(pc'[p])
    BY DEF StepsLeft
  <1> QED
    BY ONLY <1>1, <1>2, <1>3, StepsSum

\* More done, or a stage nearer to the end, is less left.
LEMMA StagesLeft ==
    /\ StageLeft("checking") = 5 /\ StageLeft("staging") = 4 /\ StageLeft("writing") = 3
    /\ StageLeft("moding") = 2 /\ StageLeft("replacing") = 2 /\ StageLeft("cleanup") = 1
    /\ StageLeft("finished") = 0 /\ StageLeft("crashed") = 0
  BY DEF StageLeft

LEMMA StepsLess ==
    ASSUME TypeOK, TypeOK', NEW p \in Procs, artifact'[p] = artifact[p]
    PROVE  /\ StepsLeft(p)' < StepsLeft(p) <=>
              checked[p] + 4 * staged[p] + replaced[p] + StageLeft(pc'[p]) <
              checked'[p] + 4 * staged'[p] + replaced'[p] + StageLeft(pc[p])
           /\ StepsLeft(p)' <= StepsLeft(p) <=>
              checked[p] + 4 * staged[p] + replaced[p] + StageLeft(pc'[p]) <=
              checked'[p] + 4 * staged'[p] + replaced'[p] + StageLeft(pc[p])
  <1> DEFINE n == Len(artifact[p])
             c == checked[p]
             s == staged[p]
             r == replaced[p]
             w == StageLeft(pc[p])
             cc == checked'[p]
             ss == staged'[p]
             rr == replaced'[p]
             ww == StageLeft(pc'[p])
  <1>1. /\ n \in Nat /\ c \in Nat /\ s \in Nat /\ r \in Nat
        /\ cc \in Nat /\ ss \in Nat /\ rr \in Nat
    BY DEF TypeOK, CallsOK, CountsOK
  <1>2. w \in Nat /\ ww \in Nat
    BY DEF StageLeft
  <1>3. /\ StepsLeft(p) = (n - c) + 4 * (n - s) + (n - r) + w
        /\ StepsLeft(p)' = (n - cc) + 4 * (n - ss) + (n - rr) + ww
    BY DEF StepsLeft
  <1> HIDE DEF n, c, s, r, w, cc, ss, rr, ww
  <1>4. /\ StepsLeft(p)' < StepsLeft(p) <=> c + 4 * s + r + ww < cc + 4 * ss + rr + w
        /\ StepsLeft(p)' <= StepsLeft(p) <=> c + 4 * s + r + ww <= cc + 4 * ss + rr + w
    BY ONLY <1>1, <1>2, <1>3
  <1> QED
    BY <1>4 DEF c, s, r, w, cc, ss, rr, ww

\* A step of a call in apply_patch_artifact completes something, or fails and
\* gives up the rest.
LEMMA OwnStepsLeft ==
    ASSUME IInv, TypeOK', NEW p \in Procs, CallStep(p), pc[p] \in Applying
    PROVE  StepsLeft(p)' < StepsLeft(p)
  <1>0. TypeOK /\ StageInv(p) /\ pc \in [Procs -> Stages]
    BY DEF IInv, CallerInv, TypeOK, CallsOK
  <1>1. ~(CaptureTree(p) \/ ReadSources(p) \/ RunAdapter(p) \/ CheckTree(p))
    BY DEF Applying, CaptureTree, ReadSources, RunAdapter, CheckTree
  <1>2. artifact'[p] = artifact[p]
    BY <1>1 DEF CallStep, CheckReplacement, OpenTemp, WriteTemp, ChmodTemp, ReplaceTarget,
                Cleanup, inputs
  <1>3. /\ checked \in [Procs -> Nat] /\ staged \in [Procs -> Nat]
        /\ replaced \in [Procs -> Nat]
    BY <1>0 DEF TypeOK, CountsOK
  <1>4. checked[p] \in Nat /\ staged[p] \in Nat /\ replaced[p] \in Nat
    BY <1>0, StepsLeftType
  <1>5. CASE CheckReplacement(p)
    <2>1. /\ pc[p] = "checking" /\ staged'[p] = staged[p] /\ replaced'[p] = replaced[p]
          /\ \/ /\ pc'[p] \in {"checking", "staging"}
                /\ checked'[p] = checked[p] + 1
             \/ pc'[p] = "finished" /\ checked'[p] = checked[p]
      BY <1>0, <1>3, <1>5 DEF CheckReplacement, Ends, Goto
    <2> QED
      BY <1>0, <1>2, <1>4, <2>1, StepsLess, StagesLeft
  <1>6. CASE OpenTemp(p)
    <2>1. /\ pc[p] = "staging" /\ pc'[p] \in {"writing", "cleanup"} /\ UNCHANGED progress
      BY <1>0, <1>6 DEF OpenTemp, Fails, Goto
    <2> QED
      BY <1>0, <1>2, <1>4, <2>1, StepsLess, StagesLeft DEF progress
  <1>7. CASE WriteTemp(p)
    <2>1. /\ pc[p] = "writing" /\ pc'[p] \in {"moding", "cleanup"} /\ UNCHANGED progress
      BY <1>0, <1>7 DEF WriteTemp, Fails, Goto
    <2> QED
      BY <1>0, <1>2, <1>4, <2>1, StepsLess, StagesLeft DEF progress
  <1>8. CASE ChmodTemp(p)
    <2>1. /\ pc[p] = "moding" /\ checked'[p] = checked[p] /\ replaced'[p] = replaced[p]
          /\ \/ /\ pc'[p] \in {"staging", "replacing"}
                /\ staged'[p] = staged[p] + 1
             \/ pc'[p] = "cleanup" /\ staged'[p] = staged[p]
      BY <1>0, <1>3, <1>8 DEF ChmodTemp, AfterStaging, Fails, Goto
    <2> QED
      BY <1>0, <1>2, <1>4, <2>1, StepsLess, StagesLeft
  <1>9. CASE ReplaceTarget(p)
    <2>1. /\ pc[p] = "replacing" /\ checked'[p] = checked[p] /\ staged'[p] = staged[p]
          /\ \/ /\ pc'[p] \in {"replacing", "cleanup"}
                /\ replaced'[p] = replaced[p] + 1
             \/ pc'[p] = "cleanup" /\ replaced'[p] = replaced[p]
      BY <1>0, <1>3, <1>9 DEF ReplaceTarget, Fails, Goto
    <2> QED
      BY <1>0, <1>2, <1>4, <2>1, StepsLess, StagesLeft
  <1>10. CASE Cleanup(p)
    <2>1. /\ pc[p] = "cleanup" /\ pc'[p] = "finished" /\ UNCHANGED progress
      BY <1>0, <1>10 DEF Cleanup, Goto
    <2> QED
      BY <1>0, <1>2, <1>4, <2>1, StepsLess, StagesLeft DEF progress
  <1> QED
    BY <1>1, <1>5, <1>6, <1>7, <1>8, <1>9, <1>10 DEF CallStep

\* What other callers and the editor do leaves it as it is; a kill ends it.
LEMMA OthersStepsLeft ==
    ASSUME IInv, TypeOK', NEW p \in Procs, Next, ~CallStep(p), pc[p] \in Applying
    PROVE  StepsLeft(p)' <= StepsLeft(p)
  <1>0. TypeOK
    BY DEF IInv
  <1>1. ASSUME NEW q \in Procs, q # p, CallStep(q) \/ CallAgain(q) \/ Crash(q)
        PROVE  /\ pc'[p] = pc[p] /\ artifact'[p] = artifact[p]
               /\ checked'[p] = checked[p] /\ staged'[p] = staged[p]
               /\ replaced'[p] = replaced[p]
    <2>0. /\ pc \in [Procs -> Stages] /\ artifact \in [Procs -> Seq(Replacement)]
          /\ checked \in [Procs -> Nat] /\ staged \in [Procs -> Nat] /\ replaced \in [Procs -> Nat]
          /\ p \in Procs /\ q \in Procs /\ q # p
      BY <1>0, <1>1 DEF TypeOK, CallsOK, CountsOK
    <2> USE DEF Ends, Fails, Goto, inputs, progress
    <2>1. CASE CaptureTree(q) \/ ReadSources(q)
      BY ONLY <2>0, <2>1 DEF CaptureTree, ReadSources, Restart, Ends, Goto, inputs, progress
    <2>2. CASE RunAdapter(q) \/ CheckTree(q)
      BY ONLY <2>0, <2>2 DEF RunAdapter, CheckTree, Restart, Ends, Goto, inputs, progress
    <2>3. CASE CheckReplacement(q)
      BY <2>0, <2>3 DEF CheckReplacement
    <2>4. CASE OpenTemp(q) \/ WriteTemp(q)
      BY <2>0, <2>4 DEF OpenTemp, WriteTemp
    <2>5. CASE ChmodTemp(q) \/ ReplaceTarget(q)
      BY <2>0, <2>5 DEF ChmodTemp, ReplaceTarget
    <2>6. CASE Cleanup(q)
      BY <2>0, <2>6 DEF Cleanup
    <2>7. CASE CallAgain(q) \/ Crash(q)
      BY <2>0, <2>7 DEF CallAgain, Crash, Restart
    <2> QED
      BY ONLY <1>1, <2>1, <2>2, <2>3, <2>4, <2>5, <2>6, <2>7 DEF CallStep
  <1>2. ASSUME NEW f \in Paths, Edit(f) PROVE UNCHANGED <<pc, artifact, progress>>
    BY <1>2 DEF Edit, inputs
  <1>3. ASSUME Crash(p) PROVE pc'[p] = "crashed" /\ UNCHANGED <<artifact, progress>>
    BY <1>0, <1>3 DEF Crash, Goto, TypeOK, CallsOK, inputs
  <1>4. ~CallAgain(p)
    BY DEF CallAgain, Applying
  <1>5. /\ pc'[p] = pc[p] \/ pc'[p] = "crashed"
        /\ artifact'[p] = artifact[p] /\ checked'[p] = checked[p]
        /\ staged'[p] = staged[p] /\ replaced'[p] = replaced[p]
    BY <1>1, <1>2, <1>3, <1>4 DEF Next, progress
  <1>6. StageLeft("crashed") = 0
    BY StagesLeft
  <1>7. checked[p] \in Nat /\ staged[p] \in Nat /\ replaced[p] \in Nat
    BY <1>0, StepsLeftType
  <1>8. StageLeft(pc'[p]) <= StageLeft(pc[p])
    <2>1. StageLeft(pc[p]) \in 0 .. 5
      BY <1>0, StepsLeftType
    <2>2. StageLeft(pc'[p]) = StageLeft(pc[p]) \/ StageLeft(pc'[p]) = 0
      BY ONLY <1>5, <1>6
    <2> HIDE DEF StageLeft
    <2> QED
      BY ONLY <2>1, <2>2
  <1>9. /\ StageLeft(pc[p]) \in 0 .. 5 /\ StageLeft(pc'[p]) \in 0 .. 5
        /\ StepsLeft(p)' <= StepsLeft(p) <=>
              checked[p] + 4 * staged[p] + replaced[p] + StageLeft(pc'[p]) <=
              checked'[p] + 4 * staged'[p] + replaced'[p] + StageLeft(pc[p])
    BY <1>0, <1>5, <1>6, StepsLess, StepsLeftType
  <1> QED
    BY ONLY <1>5, <1>7, <1>8, <1>9

\* However calls fail and interleave, each of them makes a bounded number of
\* steps: what is left of it only ever gets less.
THEOREM AdvancesTheorem == Spec => CallAdvances
  <1> DEFINE Advances == \A p \in Procs : pc[p] \in Applying =>
          /\ StepsLeft(p)' \in 0 .. StepsLeft(p)
          /\ CallStep(p) => StepsLeft(p)' < StepsLeft(p)
  <1>1. ASSUME IInv, TypeOK', Next, NEW p \in Procs, pc[p] \in Applying
        PROVE  /\ StepsLeft(p)' \in 0 .. StepsLeft(p)
               /\ CallStep(p) => StepsLeft(p)' < StepsLeft(p)
    <2>1. TypeOK /\ StepsLeft(p) \in Nat
      BY <1>1, StepsLeftType DEF IInv
    <2>2. StepsLeft(p)' \in Nat
      BY <1>1, StepsLeftNext
    <2>3. CallStep(p) => StepsLeft(p)' < StepsLeft(p)
      BY <1>1, OwnStepsLeft
    <2>4. ~CallStep(p) => StepsLeft(p)' <= StepsLeft(p)
      BY <1>1, OthersStepsLeft
    <2> QED
      BY <2>1, <2>2, <2>3, <2>4
  <1>2. IInv /\ IInv' /\ [Next]_vars => [Advances]_vars
    BY <1>1 DEF IInv
  <1> QED
    BY <1>2, InductiveInvariant, PTL DEF Spec, CallAdvances

(***************************************************************************)
(* The refinement, under the mapping of PatchRefinement, for every caller  *)
(* and any number of others: each step of the processes and of the editor  *)
(* is a step of the contract or leaves what the contract sees as it was.   *)
(***************************************************************************)
contractVars == <<files, TodoOf(caller), CallOf(caller), OthersOf(caller)>>

(***************************************************************************)
(* What the mapping needs besides IInv: a call that reaches its "finally"  *)
(* block has validated its whole artifact, and has installed it if it has  *)
(* not failed.                                                             *)
(***************************************************************************)
CleanupInv(p) ==
    pc[p] = "cleanup" =>
        /\ checked[p] = Len(artifact[p])
        /\ outcome[p] \in {"ok", "failed"}
        /\ outcome[p] = "ok" => replaced[p] = Len(artifact[p])

RefInv == IInv /\ \A p \in Procs : CleanupInv(p)

LEMMA InitRefInv == Init => RefInv
  BY InitIInv DEF RefInv, CleanupInv, Init

\* Only the steps of p change what CleanupInv(p) is about.
LEMMA CleanupFrame ==
    ASSUME NEW q \in Procs, CleanupInv(q),
           pc'[q] = pc[q], artifact'[q] = artifact[q], checked'[q] = checked[q],
           outcome'[q] = outcome[q], replaced'[q] = replaced[q]
    PROVE  CleanupInv(q)'
  BY DEF CleanupInv

\* A step of another caller leaves the variables of q alone.
LEMMA OtherSteps ==
    ASSUME TypeOK, NEW p \in Procs, NEW q \in Procs, p # q,
           CallStep(p) \/ CallAgain(p) \/ Crash(p)
    PROVE  /\ pc'[q] = pc[q] /\ artifact'[q] = artifact[q] /\ checked'[q] = checked[q]
           /\ outcome'[q] = outcome[q] /\ replaced'[q] = replaced[q]
           /\ edits' = edits
  <1> USE DEF TypeOK, FilesOK, CallsOK, CountsOK, Goto, Ends, Fails, Restart,
              inputs, progress, history
  <1>1. CASE CaptureTree(p)
    BY <1>1 DEF CaptureTree
  <1>2. CASE ReadSources(p)
    BY <1>2 DEF ReadSources
  <1>3. CASE RunAdapter(p)
    BY <1>3 DEF RunAdapter
  <1>4. CASE CheckTree(p)
    BY <1>4 DEF CheckTree
  <1>5. CASE CheckReplacement(p)
    BY <1>5 DEF CheckReplacement
  <1>6. CASE OpenTemp(p)
    BY <1>6 DEF OpenTemp
  <1>7. CASE WriteTemp(p)
    BY <1>7 DEF WriteTemp
  <1>8. CASE ChmodTemp(p)
    BY <1>8 DEF ChmodTemp
  <1>9. CASE ReplaceTarget(p)
    BY <1>9 DEF ReplaceTarget
  <1>10. CASE Cleanup(p)
    BY <1>10 DEF Cleanup
  <1>11. CASE CallAgain(p) \/ Crash(p)
    BY <1>11 DEF CallAgain, Crash
  <1> QED
    BY <1>1, <1>2, <1>3, <1>4, <1>5, <1>6, <1>7, <1>8, <1>9, <1>10, <1>11 DEF CallStep

\* Where p is after a step of its own that may lead to its "finally" block.
LEMMA OwnCleanup ==
    ASSUME IInv, NEW p \in Procs, CallStep(p) \/ CallAgain(p) \/ Crash(p)
    PROVE  CleanupInv(p)'
  <1> USE DEF IInv, TypeOK, FilesOK, CallsOK, CountsOK, CallerInv, StageInv,
              CleanupInv, Goto, Ends, Fails, inputs, progress
  <1>1. CASE CaptureTree(p)
    BY <1>1 DEF CaptureTree, Restart
  <1>2. CASE ReadSources(p)
    BY <1>2 DEF ReadSources
  <1>3. CASE RunAdapter(p)
    BY <1>3 DEF RunAdapter
  <1>4. CASE CheckTree(p)
    BY <1>4 DEF CheckTree
  <1>5. CASE CheckReplacement(p)
    BY <1>5 DEF CheckReplacement
  <1>6. CASE OpenTemp(p)
    BY <1>6 DEF OpenTemp
  <1>7. CASE WriteTemp(p)
    BY <1>7 DEF WriteTemp
  <1>8. CASE ChmodTemp(p)
    BY <1>8 DEF ChmodTemp, AfterStaging
  <1>9. CASE ReplaceTarget(p)
    BY <1>9 DEF ReplaceTarget
  <1>10. CASE Cleanup(p)
    BY <1>10 DEF Cleanup
  <1>11. CASE CallAgain(p) \/ Crash(p)
    BY <1>11 DEF CallAgain, Crash
  <1> QED
    BY <1>1, <1>2, <1>3, <1>4, <1>5, <1>6, <1>7, <1>8, <1>9, <1>10, <1>11 DEF CallStep

LEMMA NextRefInv == RefInv /\ [Next]_vars => RefInv'
  <1> SUFFICES ASSUME RefInv, [Next]_vars PROVE RefInv'
    OBVIOUS
  <1>1. IInv'
    BY NextIInv DEF RefInv
  <1>2. ASSUME NEW p \in Procs, CallStep(p) \/ CallAgain(p) \/ Crash(p), NEW q \in Procs
        PROVE  CleanupInv(q)'
    <2>1. CASE q = p
      BY <1>2, <2>1, OwnCleanup DEF RefInv
    <2>2. CASE q # p
      BY <1>2, <2>2, OtherSteps, CleanupFrame DEF RefInv, IInv
    <2> QED
      BY <2>1, <2>2
  <1>3. ASSUME NEW f \in Paths, Edit(f), NEW q \in Procs PROVE CleanupInv(q)'
    BY <1>3, CleanupFrame DEF RefInv, Edit, inputs, progress
  <1>4. ASSUME UNCHANGED vars, NEW q \in Procs PROVE CleanupInv(q)'
    BY <1>4, CleanupFrame DEF RefInv, vars, inputs, progress
  <1> QED
    BY <1>1, <1>2, <1>3, <1>4 DEF RefInv, Next

\* Every reachable state satisfies the invariant of the mapping.
THEOREM RefInvariant == Spec => []RefInv
  BY InitRefInv, NextRefInv, PTL DEF Spec

(***************************************************************************)
(* The mapping on sequences                                                *)
(***************************************************************************)
\* What is left of an artifact after n replacements.
LEMMA LeftOver ==
    ASSUME NEW s \in Seq(Replacement), NEW n \in Nat, n <= Len(s)
    PROVE  LET rest == SubSeq(s, n + 1, Len(s)) IN
           /\ n = 0 => rest = s
           /\ n = Len(s) <=> rest = <<>>
           /\ n < Len(s) => /\ rest[1] = s[n + 1] /\ Head(rest) = s[n + 1]
                            /\ Tail(rest) = SubSeq(s, n + 2, Len(s))
  <1> DEFINE rest == SubSeq(s, n + 1, Len(s))
  <1>1. n = 0 => rest = s
    BY SubSeqFull
  <1>2. n = Len(s) => rest = <<>>
    BY SubSeqEmpty
  <1>3. /\ rest \in Seq(Replacement)
        /\ Len(rest) = Len(s) - n
    BY SubSeqProperties
  <1>4. n # Len(s) => rest # <<>>
    <2>1. n # Len(s) => Len(rest) # 0
      BY <1>3
    <2> QED
      BY <2>1, EmptySeq
  <1>5. ASSUME n < Len(s)
        PROVE  /\ rest[1] = s[n + 1] /\ Head(rest) = s[n + 1]
               /\ Tail(rest) = SubSeq(s, n + 2, Len(s))
    <2>1. n + 1 \in 1 .. Len(s) /\ Len(s) \in n + 1 .. Len(s)
      BY <1>5
    <2>2. Head(rest) = s[n + 1] /\ Tail(rest) = SubSeq(s, (n + 1) + 1, Len(s))
      BY <2>1, HeadTailOfSubSeq
    <2>3. (n + 1) + 1 = n + 2
      OBVIOUS
    <2>4. rest[1] = s[n + 1]
      BY <1>3, <1>5, SubSeqProperties
    <2> QED
      BY <2>2, <2>3, <2>4, Zenon
  <1> QED
    BY <1>1, <1>2, <1>4, <1>5

(***************************************************************************)
(* Steps of other callers and of the editor                                *)
(***************************************************************************)
LEMMA MappingFrame ==
    ASSUME pc'[caller] = pc[caller], artifact'[caller] = artifact[caller],
           checked'[caller] = checked[caller], outcome'[caller] = outcome[caller],
           replaced'[caller] = replaced[caller]
    PROVE  CallOf(caller)' = CallOf(caller) /\ TodoOf(caller)' = TodoOf(caller)
  BY DEF CallOf, TodoOf, Accepted

\* Another caller that changes a file has replaced one more target, so the
\* contract sees that somebody else has done something.
LEMMA OtherCaller ==
    ASSUME RefInv, NEW p \in Procs, p # caller, CallStep(p) \/ CallAgain(p) \/ Crash(p)
    PROVE  [Contract!Next]_contractVars
  <1>1. /\ CallOf(caller)' = CallOf(caller) /\ TodoOf(caller)' = TodoOf(caller)
        /\ edits' = edits
    BY CallerIsProc, OtherSteps, MappingFrame DEF RefInv, IInv
  <1>2. ASSUME files' # files PROVE OthersOf(caller)' # OthersOf(caller)
    <2>1. ReplaceTarget(p)
      BY <1>2 DEF CallStep, CaptureTree, ReadSources, RunAdapter, CheckTree, CheckReplacement,
                  OpenTemp, WriteTemp, ChmodTemp, Cleanup, CallAgain, Crash
    <2>2. replaced'[p] # replaced[p]
      BY <1>2, <2>1 DEF ReplaceTarget, RefInv, IInv, TypeOK, CountsOK
    <2>3. /\ OthersOf(caller)[2][p] = <<calls[p], replaced[p]>>
          /\ OthersOf(caller)'[2][p] = <<calls'[p], replaced'[p]>>
      BY DEF OthersOf
    <2> QED
      BY <2>2, <2>3
  <1>3. CASE OthersOf(caller)' # OthersOf(caller)
    BY <1>1, <1>3 DEF Contract!Next, Contract!Elsewhere
  <1>4. CASE OthersOf(caller)' = OthersOf(caller)
    BY <1>1, <1>2, <1>4 DEF contractVars
  <1> QED
    BY <1>3, <1>4

LEMMA EditorStep ==
    ASSUME RefInv, NEW f \in Paths, Edit(f) PROVE [Contract!Next]_contractVars
  <1>1. CallOf(caller)' = CallOf(caller) /\ TodoOf(caller)' = TodoOf(caller)
    BY MappingFrame DEF Edit, inputs, progress
  <1>2. OthersOf(caller)' # OthersOf(caller)
    BY DEF Edit, OthersOf, RefInv, IInv, TypeOK, FilesOK
  <1> QED
    BY <1>1, <1>2 DEF Contract!Next, Contract!Elsewhere

(***************************************************************************)
(* The caller's own steps                                                  *)
(***************************************************************************)
\* Before the validation ends, and when a call is made again, nothing of the
\* workspace changes and the call is not open.
LEMMA QuietStep ==
    ASSUME RefInv, CaptureTree(caller) \/ ReadSources(caller) \/ RunAdapter(caller)
                   \/ CheckTree(caller)
    PROVE  CallOf(caller) = "idle" /\ UNCHANGED contractVars
  <1> USE CallerIsProc DEF RefInv, IInv, TypeOK, CallsOK, Goto, Ends
  <1>1. CallOf(caller) = "idle"
    BY DEF CaptureTree, ReadSources, RunAdapter, CheckTree, CallOf, Open
  <1>2. CallOf(caller)' = "idle"
    BY DEF CaptureTree, ReadSources, RunAdapter, CheckTree, CallOf, Open
  <1>3. UNCHANGED files
    BY DEF CaptureTree, ReadSources, RunAdapter, CheckTree
  <1>4. UNCHANGED OthersOf(caller)
    BY DEF CaptureTree, ReadSources, RunAdapter, CheckTree, OthersOf, Restart, CountsOK,
           progress, history
  <1> QED
    BY <1>1, <1>2, <1>3, <1>4 DEF contractVars, TodoOf

\* The last replacement that is validated opens the call, with the whole
\* artifact to be installed.
LEMMA ValidationStep ==
    ASSUME RefInv, RefInv', CheckReplacement(caller) PROVE [Contract!Next]_contractVars
  <1> USE CallerIsProc DEF Goto, Ends
  <1>1. /\ CallOf(caller) = "idle" /\ TodoOf(caller) = <<>>
        /\ replaced[caller] = 0 /\ artifact[caller] \in Seq(Replacement)
        /\ pc \in [Procs -> Stages]
    BY DEF CheckReplacement, CallOf, TodoOf, Open, RefInv, IInv, TypeOK, CallsOK, CountsOK,
           CallerInv, StageInv
  <1>2. UNCHANGED <<files, artifact, replaced>> /\ UNCHANGED OthersOf(caller)
    BY DEF CheckReplacement, OthersOf, inputs, history
  <1>3. CASE pc'[caller] = "staging"
    <2>1. CallOf(caller)' = "open"
      BY <1>3 DEF CallOf, Open
    <2>2. TodoOf(caller)' = artifact[caller]
      BY <1>1, <1>2, <2>1, LeftOver DEF TodoOf
    <2>3. /\ checked'[caller] = Len(artifact[caller])
          /\ \A i \in DOMAIN artifact[caller] :
                i \in 1 .. Len(artifact[caller]) /\ artifact[caller][i].path \in Allowed
      BY <1>1, <1>2, <1>3 DEF RefInv, IInv, CallerInv, StageInv, CheckInv, Target
    <2>4. Parses(artifact[caller]) /\ artifact[caller] # <<>>
      BY DEF CheckReplacement, RefInv, IInv, CallerInv, StageInv, Applying
    <2>5. Contract!Acceptable(artifact[caller])
      BY <2>3, <2>4 DEF Contract!Acceptable, Parses
    <2> QED
      BY <1>1, <1>2, <2>1, <2>2, <2>5 DEF Contract!Next, Contract!Accept
  <1>4. CASE pc'[caller] # "staging"
    <2>1. /\ pc'[caller] \in {"checking", "finished"}
          /\ pc'[caller] = "finished" => outcome'[caller] = "rejected"
      BY <1>1, <1>4 DEF CheckReplacement, RefInv, IInv, TypeOK, CallsOK
    <2>2. CallOf(caller)' = "idle"
      BY <2>1 DEF CallOf, Open
    <2> QED
      BY <1>1, <1>2, <2>2 DEF contractVars, TodoOf
  <1> QED
    BY <1>3, <1>4

\* Staging is invisible to the contract.
LEMMA StagingStep ==
    ASSUME RefInv, OpenTemp(caller) \/ WriteTemp(caller) \/ ChmodTemp(caller)
    PROVE  UNCHANGED contractVars
  <1> USE CallerIsProc DEF Goto, Fails
  <1>1. UNCHANGED <<files, artifact, replaced, calls, edits>>
    BY DEF OpenTemp, WriteTemp, ChmodTemp, inputs, progress, history
  <1>2. CallOf(caller) = "open" /\ CallOf(caller)' = "open"
    BY DEF OpenTemp, WriteTemp, ChmodTemp, AfterStaging, CallOf, Open, RefInv, IInv, TypeOK,
           CallsOK
  <1> QED
    BY <1>1, <1>2 DEF contractVars, TodoOf, OthersOf

\* os.replace is the installation of the next replacement.
LEMMA InstallStep ==
    ASSUME RefInv, ReplaceTarget(caller) PROVE [Contract!Next]_contractVars
  <1> USE CallerIsProc DEF Goto, Fails
  <1> DEFINE r == replaced[caller] + 1
             t == TempOf(caller, r)
             f == artifact[caller][r].path
  <1>1. /\ CallOf(caller) = "open" /\ CallOf(caller)' = "open"
        /\ artifact' = artifact /\ artifact[caller] \in Seq(Replacement)
        /\ replaced[caller] \in Nat /\ replaced[caller] < Len(artifact[caller])
        /\ staged[caller] = Len(artifact[caller])
    BY DEF ReplaceTarget, CallOf, Open, RefInv, IInv, TypeOK, CallsOK, CountsOK, CallerInv,
           StageInv, inputs
  <1>2. OthersOf(caller)' = OthersOf(caller)
    BY DEF ReplaceTarget, OthersOf, RefInv, IInv, TypeOK, CountsOK
  <1>3. CASE files' = [files EXCEPT ![f] = temps[t]] /\ replaced' = [replaced EXCEPT ![caller] = r]
    <2>1. /\ TodoOf(caller) # <<>> /\ Head(TodoOf(caller)) = artifact[caller][r]
          /\ Tail(TodoOf(caller)) = SubSeq(artifact[caller], r + 1, Len(artifact[caller]))
      <3>1. TodoOf(caller)
              = SubSeq(artifact[caller], replaced[caller] + 1, Len(artifact[caller]))
        BY <1>1 DEF TodoOf
      <3>2. r + 1 = replaced[caller] + 2
        BY <1>1
      <3>3. /\ TodoOf(caller) # <<>>
            /\ Head(TodoOf(caller)) = artifact[caller][replaced[caller] + 1]
            /\ Tail(TodoOf(caller))
                 = SubSeq(artifact[caller], replaced[caller] + 2, Len(artifact[caller]))
        <4> DEFINE s == artifact[caller]
                   n == replaced[caller]
        <4>1. s \in Seq(Replacement) /\ n \in Nat /\ n < Len(s) /\ n <= Len(s) /\ n # Len(s)
          BY <1>1
        <4>2. TodoOf(caller) = SubSeq(s, n + 1, Len(s))
          BY <3>1
        <4> HIDE DEF s, n, r
        <4>3. /\ TodoOf(caller) # <<>> /\ Head(TodoOf(caller)) = s[n + 1]
              /\ Tail(TodoOf(caller)) = SubSeq(s, n + 2, Len(s))
          <5>1. /\ n = Len(s) <=> SubSeq(s, n + 1, Len(s)) = <<>>
                /\ n < Len(s) => /\ Head(SubSeq(s, n + 1, Len(s))) = s[n + 1]
                                 /\ Tail(SubSeq(s, n + 1, Len(s))) = SubSeq(s, n + 2, Len(s))
            BY <4>1, LeftOver, Zenon
          <5> QED
            BY <4>1, <4>2, <5>1, Zenon
        <4> QED
          BY <4>3 DEF s, n
      <3> QED
        BY <3>2, <3>3
    <2>2. TodoOf(caller)' = Tail(TodoOf(caller))
      BY <1>1, <1>3, <2>1 DEF TodoOf, RefInv, IInv, TypeOK, CountsOK
    <2>3. temps[t] \in RegularFile /\ temps[t].content = artifact[caller][r].content
      BY <1>1 DEF ReplaceTarget, RefInv, IInv, CallerInv, TempInv, NewContent
    <2>4. temps[t] = [content |-> artifact[caller][r].content, mode |-> temps[t].mode]
          /\ temps[t].mode \in Modes
      BY <2>3 DEF RegularFile
    <2> QED
      BY <1>1, <1>2, <1>3, <2>1, <2>2, <2>4 DEF Contract!Next, Contract!Install
  <1>4. CASE UNCHANGED <<files, replaced>>
    BY <1>1, <1>2, <1>4 DEF contractVars, TodoOf
  <1> QED
    BY <1>3, <1>4 DEF ReplaceTarget

\* The end of the "finally" block returns when all is installed, and raises
\* when something failed.
LEMMA EndStep ==
    ASSUME RefInv, Cleanup(caller) PROVE [Contract!Next]_contractVars
  <1> USE CallerIsProc DEF Goto
  <1>1. /\ CallOf(caller) = "open" /\ UNCHANGED <<files, artifact, replaced, calls, edits>>
        /\ pc'[caller] = "finished"
        /\ artifact[caller] \in Seq(Replacement) /\ replaced[caller] \in Nat
        /\ replaced[caller] <= Len(artifact[caller])
    BY DEF Cleanup, CallOf, Open, RefInv, IInv, TypeOK, CallsOK, CountsOK, inputs, progress,
           history
  <1>2. \/ outcome'[caller] = "failed"
        \/ outcome'[caller] = "ok" /\ replaced[caller] = Len(artifact[caller])
    BY DEF Cleanup, RefInv, CleanupInv, IInv, TypeOK, CallsOK
  <1>3. /\ TodoOf(caller)' = TodoOf(caller) /\ OthersOf(caller)' = OthersOf(caller)
        /\ CallOf(caller)' = IF outcome'[caller] = "ok" THEN "returned" ELSE "raised"
    BY <1>1, <1>2 DEF CallOf, TodoOf, OthersOf, Open
  <1>4. outcome'[caller] = "ok" => TodoOf(caller) = <<>>
    BY <1>1, <1>2, LeftOver DEF TodoOf
  <1> QED
    BY <1>1, <1>2, <1>3, <1>4 DEF Contract!Next, Contract!Return, Contract!Raise

LEMMA AgainStep ==
    ASSUME RefInv, CallAgain(caller) PROVE [Contract!Next]_contractVars
  <1> USE CallerIsProc DEF Goto
  <1>1. /\ UNCHANGED files /\ UNCHANGED OthersOf(caller)
        /\ CallOf(caller) \in {"idle", "returned", "raised"}
        /\ CallOf(caller)' = "idle"
    BY DEF CallAgain, CallOf, Open, OthersOf, RefInv, IInv, TypeOK, CallsOK, progress, history
  <1> QED
    BY <1>1 DEF Contract!Next, Contract!Again, contractVars, TodoOf

\* A kill ends an open call as an exception would, and is nothing to a call
\* that has not validated its artifact.
LEMMA CrashStep ==
    ASSUME RefInv, Crash(caller) PROVE [Contract!Next]_contractVars
  <1> USE CallerIsProc DEF Goto
  <1>1. /\ UNCHANGED <<files, artifact, checked, replaced>> /\ UNCHANGED OthersOf(caller)
        /\ pc[caller] \in Applying /\ pc'[caller] = "crashed"
    BY DEF Crash, OthersOf, RefInv, IInv, TypeOK, CallsOK, inputs, progress, history
  <1>2. CASE pc[caller] = "checking"
    <2>1. CallOf(caller) = "idle" /\ CallOf(caller)' = "idle"
      BY <1>1, <1>2 DEF CallOf, Open, Accepted, RefInv, IInv, CallerInv, StageInv, TypeOK,
                        CallsOK, CountsOK
    <2> QED
      BY <1>1, <2>1 DEF contractVars, TodoOf
  <1>3. CASE pc[caller] # "checking"
    <2>1. CallOf(caller) = "open"
      BY <1>1, <1>3 DEF CallOf, Open, Applying
    <2>2. Accepted(caller)
      BY <1>1, <1>3 DEF Accepted, Applying, RefInv, CleanupInv, IInv, CallerInv, StageInv
    <2>3. CallOf(caller)' = "raised"
      BY <1>1, <2>2 DEF CallOf, Open, Accepted
    <2> QED
      BY <1>1, <2>1, <2>3 DEF Contract!Next, Contract!Raise, TodoOf
  <1> QED
    BY <1>2, <1>3

(***************************************************************************)
(* The refinement                                                          *)
(***************************************************************************)
LEMMA InitMapped == Init => Contract!Init
  BY CallerIsProc DEF Init, Contract!Init, CallOf, TodoOf, Open

LEMMA NextMapped ==
    RefInv /\ RefInv' /\ [Next]_vars => [Contract!Next]_contractVars
  <1> SUFFICES ASSUME RefInv, RefInv', [Next]_vars PROVE [Contract!Next]_contractVars
    OBVIOUS
  <1>1. CASE CallStep(caller) \/ CallAgain(caller) \/ Crash(caller)
    BY <1>1, QuietStep, ValidationStep, StagingStep, InstallStep, EndStep, AgainStep,
       CrashStep DEF CallStep
  <1>2. ASSUME NEW p \in Procs, p # caller, CallStep(p) \/ CallAgain(p) \/ Crash(p)
        PROVE  [Contract!Next]_contractVars
    BY <1>2, OtherCaller
  <1>3. ASSUME NEW f \in Paths, Edit(f) PROVE [Contract!Next]_contractVars
    BY <1>3, EditorStep
  <1>4. CASE UNCHANGED vars
    BY <1>4 DEF vars, contractVars, CallOf, TodoOf, OthersOf, Accepted, inputs, progress,
                history
  <1> QED
    BY <1>1, <1>2, <1>3, <1>4 DEF Next

\* The caller of apply_patch_artifact is offered what PatchContract promises,
\* but for the promise that the call ends: only a wholly validated artifact of
\* allowed files is installed, in its order, one file at a time, it returns
\* only when all of it is, and others never act on its behalf.
THEOREM ContractSafety == Spec => Contract!Init /\ [][Contract!Next]_contractVars
  BY RefInvariant, InitMapped, NextMapped, PTL DEF Spec
=============================================================================
