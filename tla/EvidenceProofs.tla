--------------------------- MODULE EvidenceProofs ---------------------------
(***************************************************************************)
(* Proofs about EvidenceValidation, for any number of processes, files and *)
(* replacements of files, and whatever the files may hold.                 *)
(***************************************************************************)
EXTENDS EvidenceValidation, FiniteSetTheorems, FunctionTheorems, TLAPS

(***************************************************************************)
(* The inductive invariant                                                 *)
(***************************************************************************)
Readable == Contents \cup {Empty, Filled}
Present == Entries \cup [content : {Empty, Filled}, by : Drafters]

\* What the processes share.
SharedInv ==
    /\ dir \in [Names -> Present]
    /\ out \in {Missing, Symlink} \cup Outputs
    /\ bound \in Bounds /\ edits \in 0 .. bound.edits

\* What each process keeps.
LocalInv ==
    /\ pc \in [Procs -> Stages] /\ code \in [Procs -> {0, 1, 2, None}]
    /\ kind \in [Validators -> {"task", "task_set"}] /\ saves \in [Validators -> BOOLEAN]
    /\ listed \in [Validators -> Seq(Names)] /\ reports \in [Validators -> Seq(Reports)]
    /\ target \in [Drafters -> Names \cup {None}]
    /\ was \in [Validators -> [Names -> SUBSET Readable]]

\* A process that drafts has a name to write to.
DraftInv(d) == pc[d] \in {"creating", "filling"} => target[d] \in Names

\* The loop of a validation over the files that were listed.
LoopInv(p) ==
    /\ pc[p] \notin {"creating", "filling"}
    /\ pc[p] = "idle" => reports[p] = <<>>
    /\ pc[p] # "ended" => code[p] = None
    /\ pc[p] \notin {"idle", "ended"} => Len(listed[p]) \in 1 .. MaxBatch
    /\ Len(reports[p]) <= Len(listed[p])
    /\ pc[p] \in {"inspecting", "reading"} => Len(reports[p]) < Len(listed[p])
    /\ pc[p] \in Deciding \/ code[p] = 0 => Len(reports[p]) = Len(listed[p])

\* While it reads, its history holds what every file holds.
TrueInv(p) ==
    /\ pc[p] \in {"inspecting", "reading"} => \A n \in Names : Named(dir[n]) \subseteq was[p][n]
    /\ \A i \in DOMAIN reports[p] : IsTrue(p, reports[p][i])

\* Reports that were decided about are in order.
OrderInv(p) ==
    pc[p] \in Deciding \ {"deciding"} \/ code[p] = 0 =>
        ~Duplicates(reports[p]) /\ reports[p] = Ordered(reports[p])

\* The receipt of p when it is whole or not.
Receipt(p, whole) == [by |-> p, whole |-> whole, kind |-> kind[p], reports |-> reports[p]]

OutputInv(p) ==
    /\ out \in Outputs /\ out.by = p =>
          /\ pc[p] \notin {"idle", "inspecting", "reading", "deciding"}
          /\ Len(reports[p]) = Len(listed[p])
    /\ pc[p] = "writing" => out = Receipt(p, FALSE)
    /\ (pc[p] = "reporting" \/ code[p] = 0) /\ saves[p] = TRUE => out = Receipt(p, TRUE)
    /\ code[p] = 0 => Eligible(reports[p])

IInv == /\ SharedInv /\ LocalInv
        /\ \A d \in Drafters : DraftInv(d)
        /\ \A p \in Validators : LoopInv(p) /\ TrueInv(p) /\ OrderInv(p) /\ OutputInv(p)

(***************************************************************************)
(* Lemmas about the operators                                              *)
(***************************************************************************)
LEMMA SubsetCardinality ==
  ASSUME NEW T, NEW S \in SUBSET T, IsFiniteSet(T)
  PROVE  /\ IsFiniteSet(S) /\ Cardinality(S) \in Nat /\ Cardinality(T) \in Nat
         /\ Cardinality(S) <= Cardinality(T)
         /\ Cardinality(S) = Cardinality(T) => S = T
  BY FS_Subset, FS_CardinalityType

\* A finite set whose elements have different keys can be put in order: each
\* element goes where the number of elements not after it says.
LEMMA OrderExists ==
  ASSUME NEW S, IsFiniteSet(S), NEW key \in [S -> Nat],
         \A a, b \in S : key[a] = key[b] => a = b
  PROVE  \E s \in SetToSeqs(S) : \A i, j \in DOMAIN s : i < j => key[s[i]] < key[s[j]]
  <1> DEFINE N == Cardinality(S)
             UpTo(a) == {b \in S : key[b] <= key[a]}
             place == [a \in S |-> Cardinality(UpTo(a))]
  <1>1. N \in Nat /\ IsFiniteSet(1 .. N) /\ Cardinality(1 .. N) = N
    BY FS_CardinalityType, FS_Interval
  <1>2. ASSUME NEW a \in S
        PROVE  /\ UpTo(a) \in SUBSET S /\ IsFiniteSet(UpTo(a))
               /\ Cardinality(UpTo(a)) \in 1 .. N
    <2>1. UpTo(a) \in SUBSET S /\ a \in UpTo(a)
      OBVIOUS
    <2>2. IsFiniteSet(UpTo(a)) /\ Cardinality(UpTo(a)) \in Nat /\ Cardinality(UpTo(a)) <= N
      BY <2>1, SubsetCardinality
    <2>3. Cardinality(UpTo(a)) # 0
      BY <2>1, <2>2, FS_EmptySet
    <2> HIDE DEF UpTo
    <2> QED
      BY <1>1, <2>1, <2>2, <2>3
  <1>3. ASSUME NEW a \in S, NEW b \in S, key[a] < key[b]
        PROVE  Cardinality(UpTo(a)) < Cardinality(UpTo(b))
    <2>1. UpTo(a) \in SUBSET UpTo(b) /\ b \in UpTo(b) /\ b \notin UpTo(a)
      BY <1>3
    <2>2. IsFiniteSet(UpTo(b))
      BY <1>2
    <2> HIDE DEF UpTo
    <2>3. /\ Cardinality(UpTo(a)) \in Nat /\ Cardinality(UpTo(b)) \in Nat
          /\ Cardinality(UpTo(a)) <= Cardinality(UpTo(b))
          /\ Cardinality(UpTo(a)) # Cardinality(UpTo(b))
      BY <2>1, <2>2, SubsetCardinality
    <2> QED
      BY <2>3
  <1>4. place \in [S -> 1 .. N]
    <2> HIDE DEF UpTo, N
    <2> QED
      BY <1>2
  <1>5. \A a, b \in S : place[a] = place[b] => a = b
    <2> SUFFICES ASSUME NEW a \in S, NEW b \in S, place[a] = place[b] PROVE a = b
      OBVIOUS
    <2>1. Cardinality(UpTo(a)) = Cardinality(UpTo(b))
      OBVIOUS
    <2>2. ~(key[a] < key[b]) /\ ~(key[b] < key[a])
      <3> HIDE DEF UpTo
      <3>1. Cardinality(UpTo(a)) \in Nat /\ Cardinality(UpTo(b)) \in Nat
        BY <1>2
      <3> QED
        BY <1>3, <2>1, <3>1
    <2>3. key[a] = key[b]
      BY <2>2
    <2> QED
      BY <2>3
  <1> HIDE DEF place
  <1>6. place \in Injection(S, 1 .. N)
    BY <1>4, <1>5, Fun_IsInj
  <1>7. place \in Surjection(S, 1 .. N)
    <2> HIDE DEF N
    <2>1. Cardinality(S) = Cardinality(1 .. N)
      BY <1>1 DEF N
    <2> QED
      BY <1>1, <1>6, <2>1, FS_Injection
  <1>8. \A i \in 1 .. N : \E a \in S : place[a] = i
    BY <1>7, Fun_SurjectionProperties
  <1> DEFINE s == [i \in 1 .. N |-> CHOOSE a \in S : place[a] = i]
  <1>9. ASSUME NEW i \in 1 .. N PROVE s[i] \in S /\ place[s[i]] = i
    BY <1>8
  <1>10. s \in [1 .. N -> S]
    BY <1>9
  <1> HIDE DEF s
  <1>11. s \in SetToSeqs(S)
    <2>1. \A i, j \in 1 .. N : i # j => s[i] # s[j]
      BY <1>9
    <2> QED
      BY <1>10, <2>1 DEF SetToSeqs
  <1>12. ASSUME NEW i \in DOMAIN s, NEW j \in DOMAIN s, i < j
         PROVE  key[s[i]] < key[s[j]]
    <2>1. i \in 1 .. N /\ j \in 1 .. N
      BY <1>10
    <2>2. s[i] \in S /\ s[j] \in S /\ place[s[i]] = i /\ place[s[j]] = j
      BY <1>9, <2>1
    <2>3. key[s[i]] \in Nat /\ key[s[j]] \in Nat
      BY <2>2
    <2>4. CASE key[s[j]] < key[s[i]]
      <3>1. Cardinality(UpTo(s[j])) < Cardinality(UpTo(s[i]))
        BY <1>3, <2>2, <2>4
      <3>2. place[s[j]] < place[s[i]]
        BY <2>2, <3>1 DEF place
      <3> HIDE DEF N
      <3> QED
        BY <1>1, <1>12, <2>1, <2>2, <3>2
    <2>5. CASE key[s[j]] = key[s[i]]
      <3>1. s[i] = s[j]
        BY <2>2, <2>5
      <3> HIDE DEF N
      <3> QED
        BY <1>1, <1>12, <2>1, <2>2, <3>1
    <2> QED
      BY <2>3, <2>4, <2>5
  <1> QED
    BY <1>11, <1>12

\* Sorted lists every element of the set once.
LEMMA SortedSeq ==
  ASSUME NEW S, IsFiniteSet(S), NEW key \in [S -> Nat],
         \A a, b \in S : key[a] = key[b] => a = b
  PROVE  /\ Cardinality(S) \in Nat
         /\ Sorted(S, key) \in [1 .. Cardinality(S) -> S]
         /\ \A i, j \in 1 .. Cardinality(S) : i # j => Sorted(S, key)[i] # Sorted(S, key)[j]
         /\ \A a \in S : \E i \in 1 .. Cardinality(S) : Sorted(S, key)[i] = a
  <1> DEFINE N == Cardinality(S)
             s == Sorted(S, key)
  <1>1. N \in Nat /\ IsFiniteSet(1 .. N) /\ Cardinality(1 .. N) = N
    BY FS_CardinalityType, FS_Interval
  <1>2. s \in SetToSeqs(S)
    BY OrderExists DEF Sorted
  <1> HIDE DEF s
  <1>3. s \in [1 .. N -> S] /\ \A i, j \in 1 .. N : i # j => s[i] # s[j]
    BY <1>2 DEF SetToSeqs
  <1>4. s \in Injection(1 .. N, S)
    BY <1>3, Fun_IsInj
  <1>5. s \in Surjection(1 .. N, S)
    <2>1. Cardinality(1 .. N) = Cardinality(S)
      BY <1>1
    <2> HIDE DEF N
    <2> QED
      BY <1>4, <2>1, FS_Injection
  <1>6. \A a \in S : \E i \in 1 .. N : s[i] = a
    BY <1>5 DEF Surjection
  <1> QED
    BY <1>1, <1>3, <1>6 DEF s

\* A report is about one content, which may be judged.
LEMMA ReportTyped ==
  ASSUME NEW r \in Reports
  PROVE  /\ r.task \in Nat /\ r.digest \in Contents /\ Judged(r.digest)
         /\ r = ReportOn(r.digest)
  <1>1. PICK c \in Contents : Judged(c) /\ r = ReportOn(c)
    BY DEF Reports
  <1>2. r.task = c.doc.task_id /\ r.digest = c
    BY <1>1 DEF ReportOn
  <1>3. c.doc.task_id \in Nat
    BY <1>1, TasksAreNumbers
  <1> QED
    BY <1>1, <1>2, <1>3

\* Putting reports without duplicates in order loses and adds nothing, and
\* what is in order stays as it is.
LEMMA OrderedSeq ==
  ASSUME NEW rs \in Seq(Reports), ~Duplicates(rs)
  PROVE  /\ Ordered(rs) \in Seq(Reports) /\ Len(Ordered(rs)) = Len(rs)
         /\ ToSet(Ordered(rs)) = ToSet(rs)
         /\ \A i \in DOMAIN Ordered(rs) : \E j \in DOMAIN rs : Ordered(rs)[i] = rs[j]
         /\ ~Duplicates(Ordered(rs)) /\ Ordered(Ordered(rs)) = Ordered(rs)
  <1> DEFINE S == ToSet(rs)
             n == Len(rs)
             key == [r \in S |-> r.task]
             s == Ordered(rs)
  <1>1. n \in Nat /\ DOMAIN rs = 1 .. n /\ \A i \in 1 .. n : rs[i] \in Reports
    OBVIOUS
  <1>2. S = {rs[i] : i \in 1 .. n} /\ S \subseteq Reports
    BY <1>1 DEF ToSet
  <1>3. \A i, j \in 1 .. n : i # j => rs[i].task # rs[j].task
    BY <1>1 DEF Duplicates
  <1> HIDE DEF S, n
  <1>4. rs \in [1 .. n -> S]
    <2>1. rs = [i \in 1 .. n |-> rs[i]]
      BY <1>1
    <2> QED
      BY <1>2, <2>1
  <1>5. rs \in Bijection(1 .. n, S)
    <2>1. \A i, j \in 1 .. n : rs[i] = rs[j] => i = j
      BY <1>3
    <2>2. \A r \in S : \E i \in 1 .. n : rs[i] = r
      BY <1>2
    <2> QED
      BY <1>4, <2>1, <2>2, Fun_IsBij
  <1>6. IsFiniteSet(S) /\ Cardinality(S) = n
    <2>1. ExistsBijection(1 .. n, S)
      BY <1>5 DEF ExistsBijection
    <2> QED
      BY <1>1, <2>1, FS_NatBijection, FS_CountingElements
  <1>7. key \in [S -> Nat]
    BY <1>2, ReportTyped
  <1>8. \A a, b \in S : key[a] = key[b] => a = b
    <2> SUFFICES ASSUME NEW a \in S, NEW b \in S, key[a] = key[b] PROVE a = b
      OBVIOUS
    <2>1. PICK i \in 1 .. n : a = rs[i]
      BY <1>2
    <2>2. PICK j \in 1 .. n : b = rs[j]
      BY <1>2
    <2>3. rs[i].task = rs[j].task
      BY <2>1, <2>2
    <2> QED
      BY <1>3, <2>1, <2>2, <2>3
  <1>9. s = Sorted(S, key)
    BY DEF Ordered, S
  <1> HIDE DEF key, s
  <1>10. /\ s \in [1 .. n -> S]
         /\ \A i, j \in 1 .. n : i # j => s[i] # s[j]
         /\ \A a \in S : \E i \in 1 .. n : s[i] = a
    <2>1. /\ Sorted(S, key) \in [1 .. Cardinality(S) -> S]
          /\ \A i, j \in 1 .. Cardinality(S) : i # j => Sorted(S, key)[i] # Sorted(S, key)[j]
          /\ \A a \in S : \E i \in 1 .. Cardinality(S) : Sorted(S, key)[i] = a
      BY ONLY <1>6, <1>7, <1>8, SortedSeq
    <2> QED
      BY <1>6, <1>9, <2>1
  <1>11. s \in Seq(Reports) /\ Len(s) = n /\ DOMAIN s = 1 .. n
    <2>1. s \in [1 .. n -> Reports]
      BY <1>2, <1>10
    <2> QED
      BY <1>1, <2>1
  <1>12. ToSet(s) = S
    BY <1>10, <1>11 DEF ToSet
  <1>13. ~Duplicates(s)
    <2> SUFFICES ASSUME NEW i \in 1 .. n, NEW j \in 1 .. n, i # j, s[i].task = s[j].task
                 PROVE  FALSE
      BY <1>11 DEF Duplicates
    <2>1. s[i] \in S /\ s[j] \in S
      BY <1>10
    <2>2. key[s[i]] = key[s[j]]
      BY <2>1 DEF key
    <2> QED
      BY <1>8, <1>10, <2>1, <2>2
  <1>14. Ordered(s) = s
    BY <1>9, <1>12 DEF Ordered, key
  <1>15. \A i \in DOMAIN s : \E j \in DOMAIN rs : s[i] = rs[j]
    <2> SUFFICES ASSUME NEW i \in 1 .. n PROVE \E j \in DOMAIN rs : s[i] = rs[j]
      BY <1>11
    <2>1. s[i] \in S
      BY <1>10
    <2> QED
      BY <1>1, <1>2, <2>1
  <1> QED
    BY <1>11, <1>12, <1>13, <1>14, <1>15 DEF s, S, n

\* What a validation that names a directory lists.
LEMMA SortedNames ==
  ASSUME NEW P \in SUBSET Names
  PROVE  /\ Sorted(P, [n \in P |-> n]) \in Seq(Names)
         /\ Len(Sorted(P, [n \in P |-> n])) = Cardinality(P) /\ Cardinality(P) \in Nat
  <1> DEFINE key == [n \in P |-> n]
             s == Sorted(P, key)
  <1>1. Names \subseteq Nat /\ IsFiniteSet(P) /\ Cardinality(P) \in Nat
    BY EvidenceConstants, SubsetCardinality
  <1>2. key \in [P -> Nat] /\ \A a, b \in P : key[a] = key[b] => a = b
    BY <1>1
  <1> HIDE DEF key
  <1>3. s \in [1 .. Cardinality(P) -> P]
    BY ONLY <1>1, <1>2, SortedSeq
  <1> HIDE DEF s
  <1>4. s \in [1 .. Cardinality(P) -> Names]
    BY <1>3
  <1>5. s \in Seq(Names) /\ Len(s) = Cardinality(P)
    BY <1>1, <1>4
  <1> QED
    BY <1>1, <1>5 DEF s, key

\* A draft is no evidence.
LEMMA DraftsRejected == ~Judged(Empty) /\ ~Judged(Filled)
  <1>1. ~Judged(Empty)
    BY DEF Judged, Empty
  <1>2. ~Judged(Filled)
    <2>1. Filled.doc = Draft(1)
      BY DEF Filled
    <2>2. Draft(1).base_fails = Null /\ "base_fails" \in Observations
      BY DEF Draft, Fields, Observations, Booleans
    <2>3. ~Acceptable(Draft(1))
      BY <2>2 DEF Acceptable
    <2>4. ~Overflows(Draft(1))
      BY <2>2 DEF Overflows
    <2>5. Verdict(Draft(1)) = "invalid"
      BY <2>3, <2>4 DEF Verdict
    <2> QED
      BY <2>1, <2>5 DEF Judged
  <1> QED
    BY <1>1, <1>2

LEMMA NamedTyped ==
  ASSUME NEW entry \in Present
  PROVE  Named(entry) \subseteq Readable
  BY EvidenceConstants DEF Present, Entries, Files, Named, Readable

\* What is read of a file that is not too large is what it holds.
LEMMA ReadWhole ==
  ASSUME NEW x \in Readable, SmallEnough(Read(x))
  PROVE  Read(x) = x /\ x.size <= MaxBytes
  <1>1. x = [doc |-> x.doc, size |-> x.size] /\ x.size \in Nat /\ MaxBytes \in Nat
    BY EvidenceConstants DEF Readable, Empty, Filled
  <1>2. Read(x) = [doc |-> x.doc, size |-> IF x.size > MaxBytes THEN MaxBytes + 1 ELSE x.size]
    BY <1>1 DEF Read
  <1>3. Read(x).size = IF x.size > MaxBytes THEN MaxBytes + 1 ELSE x.size
    BY <1>2
  <1>4. ~(x.size > MaxBytes)
    BY <1>1, <1>3 DEF SmallEnough
  <1> QED
    BY <1>1, <1>2, <1>4

LEMMA Appending ==
  ASSUME NEW S, NEW s \in Seq(S), NEW e \in S
  PROVE  /\ Append(s, e) \in Seq(S)
         /\ Len(s) \in Nat /\ Len(Append(s, e)) = Len(s) + 1
         /\ DOMAIN s = 1 .. Len(s) /\ DOMAIN Append(s, e) = 1 .. Len(s) + 1
         /\ \A k \in DOMAIN s : Append(s, e)[k] = s[k]
         /\ Append(s, e)[Len(s) + 1] = e
  OBVIOUS

(***************************************************************************)
(* What a process keeps                                                    *)
(***************************************************************************)
Moves(p) == \/ \E s \in Stages : Goto(p, s)
            \/ \E c \in 0 .. 2 : Exit(p, c)

LEMMA MovesTyped ==
  ASSUME LocalInv, NEW p \in Procs, Moves(p)
  PROVE  /\ pc' \in [Procs -> Stages] /\ code' \in [Procs -> {0, 1, 2, None}]
         /\ \A q \in Procs \ {p} : pc'[q] = pc[q] /\ code'[q] = code[q]
  <1> USE DEF LocalInv
  <1>1. CASE \E s \in Stages : Goto(p, s)
    BY <1>1 DEF Goto
  <1>2. CASE \E c \in 0 .. 2 : Exit(p, c)
    <2>1. "ended" \in Stages
      BY DEF Stages
    <2> HIDE DEF Stages
    <2> QED
      BY <1>2, <2>1 DEF Exit
  <1> QED
    BY <1>1, <1>2 DEF Moves

\* Stages p may go to.
LEMMA StageNames ==
  /\ Deciding = {"deciding", "opening", "writing", "reporting"}
  /\ Stages = {"deciding", "opening", "writing", "reporting", "idle", "inspecting",
               "reading", "creating", "filling", "ended", "killed"}
  BY DEF Deciding, Stages

\* p's validation step leaves these as they are.
Same(q) == /\ pc'[q] = pc[q] /\ code'[q] = code[q] /\ kind'[q] = kind[q]
           /\ saves'[q] = saves[q] /\ listed'[q] = listed[q] /\ reports'[q] = reports[q]

LEMMA BeginStep ==
  ASSUME LocalInv, SharedInv, NEW p \in Validators, NEW names \in Seq(Names), Begins(p, names)
  PROVE  /\ listed' \in [Validators -> Seq(Names)] /\ listed'[p] = names
         /\ saves' \in [Validators -> BOOLEAN]
         /\ was' \in [Validators -> [Names -> SUBSET Readable]]
         /\ \A n \in Names : was'[p][n] = Named(dir[n])
         /\ \A q \in Validators \ {p} : /\ listed'[q] = listed[q] /\ saves'[q] = saves[q]
                                        /\ was'[q] = was[q]
         /\ UNCHANGED <<dir, out, reports, target, edits, bound>>
  <1>1. \A n \in Names : Named(dir[n]) \subseteq Readable
    BY NamedTyped DEF SharedInv
  <1>2. [n \in Names |-> Named(dir[n])] \in [Names -> SUBSET Readable]
    BY <1>1
  <1>3. /\ was' \in [Validators -> [Names -> SUBSET Readable]]
        /\ was'[p] = [n \in Names |-> Named(dir[n])]
        /\ \A q \in Validators \ {p} : was'[q] = was[q]
    <2> HIDE DEF Readable, Named
    <2> QED
      BY <1>2 DEF Begins, LocalInv
  <1>4. /\ saves' \in [Validators -> BOOLEAN]
        /\ \A q \in Validators \ {p} : saves'[q] = saves[q]
    BY DEF Begins, LocalInv
  <1>5. /\ listed' \in [Validators -> Seq(Names)] /\ listed'[p] = names
        /\ \A q \in Validators \ {p} : listed'[q] = listed[q]
    BY DEF Begins, LocalInv
  <1>6. UNCHANGED <<dir, out, reports, target, edits, bound>>
    BY DEF Begins, outside
  <1> QED
    BY <1>3, <1>4, <1>5, <1>6

\* What the other processes and the directory see of a step of a validation.
Frame(p) ==
    /\ LocalInv' /\ SharedInv'
    /\ UNCHANGED <<dir, target, edits, bound>>
    /\ \A q \in Validators \ {p} : Same(q) /\ was'[q] = was[q]
    /\ \A d \in Drafters : pc'[d] = pc[d]

Apart == Validators \subseteq Procs /\ Drafters \subseteq Procs /\ Validators \cap Drafters = {}

LEMMA ProcsApart == Apart
  BY EvidenceConstants DEF Apart, Procs

LEMMA FileStep ==
  ASSUME LocalInv, SharedInv, NEW p \in Validators, NEW n \in Names, ValidateFile(p, n)
  PROVE  /\ Frame(p) /\ UNCHANGED <<out, reports, code>>
         /\ pc[p] = "idle" /\ pc'[p] = "inspecting" /\ listed'[p] = <<n>>
         /\ \A m \in Names : was'[p][m] = Named(dir[m])
  <1>1. Goto(p, "inspecting") /\ UNCHANGED kind /\ Begins(p, <<n>>) /\ pc[p] = "idle"
    BY DEF ValidateFile
  <1>2. <<n>> \in Seq(Names) /\ p \in Procs /\ Moves(p)
    BY <1>1, ProcsApart DEF Apart, Moves, Stages
  <1>3. pc' \in [Procs -> Stages] /\ code' \in [Procs -> {0, 1, 2, None}]
        /\ \A q \in Procs \ {p} : pc'[q] = pc[q] /\ code'[q] = code[q]
    BY <1>2, MovesTyped
  <1>4. pc'[p] = "inspecting" /\ code' = code
    BY <1>1, <1>2 DEF Goto, LocalInv
  <1>5. /\ listed' \in [Validators -> Seq(Names)] /\ listed'[p] = <<n>>
        /\ saves' \in [Validators -> BOOLEAN]
        /\ was' \in [Validators -> [Names -> SUBSET Readable]]
        /\ \A m \in Names : was'[p][m] = Named(dir[m])
        /\ \A q \in Validators \ {p} : /\ listed'[q] = listed[q] /\ saves'[q] = saves[q]
                                       /\ was'[q] = was[q]
        /\ UNCHANGED <<dir, out, reports, target, edits, bound>>
    BY <1>1, <1>2, BeginStep
  <1>6. LocalInv'
    BY <1>1, <1>3, <1>5 DEF LocalInv
  <1>7. SharedInv'
    BY <1>5 DEF SharedInv
  <1>8. \A q \in Validators \ {p} : Same(q) /\ was'[q] = was[q]
    BY <1>1, <1>3, <1>5, ProcsApart DEF Same, Apart
  <1>9. \A d \in Drafters : pc'[d] = pc[d]
    BY <1>3, ProcsApart DEF Apart
  <1> QED
    BY <1>1, <1>4, <1>5, <1>6, <1>7, <1>8, <1>9 DEF Frame

LEMMA DirectoryStep ==
  ASSUME LocalInv, SharedInv, NEW p \in Validators, ValidateDirectory(p)
  PROVE  /\ Frame(p) /\ UNCHANGED <<out, reports>>
         /\ pc[p] = "idle"
         /\ \/ pc'[p] = "inspecting" /\ code' = code /\ Len(listed'[p]) \in 1 .. MaxBatch
            \/ pc'[p] = "ended" /\ code'[p] = 2
         /\ \A m \in Names : was'[p][m] = Named(dir[m])
  <1> DEFINE P == {n \in Names : dir[n] # Missing}
             names == Sorted(P, [n \in P |-> n])
  <1>1. names \in Seq(Names) /\ Len(names) = Cardinality(P)
    BY SortedNames
  <1>2. /\ pc[p] = "idle" /\ Begins(p, names) /\ kind' = [kind EXCEPT ![p] = "task_set"]
        /\ IF BatchSize(Cardinality(P)) THEN Goto(p, "inspecting") ELSE Exit(p, 2)
    BY DEF ValidateDirectory
  <1> HIDE DEF names, P
  <1>3. p \in Procs /\ Moves(p)
    BY <1>2, ProcsApart DEF Apart, Moves, Stages
  <1>4. pc' \in [Procs -> Stages] /\ code' \in [Procs -> {0, 1, 2, None}]
        /\ \A q \in Procs \ {p} : pc'[q] = pc[q] /\ code'[q] = code[q]
    BY <1>3, MovesTyped
  <1>5. /\ listed' \in [Validators -> Seq(Names)] /\ listed'[p] = names
        /\ saves' \in [Validators -> BOOLEAN]
        /\ was' \in [Validators -> [Names -> SUBSET Readable]]
        /\ \A m \in Names : was'[p][m] = Named(dir[m])
        /\ \A q \in Validators \ {p} : /\ listed'[q] = listed[q] /\ saves'[q] = saves[q]
                                       /\ was'[q] = was[q]
        /\ UNCHANGED <<dir, out, reports, target, edits, bound>>
    BY <1>1, <1>2, BeginStep
  <1>6. \/ pc'[p] = "inspecting" /\ code' = code /\ Len(listed'[p]) \in 1 .. MaxBatch
        \/ pc'[p] = "ended" /\ code'[p] = 2
    <2>1. CASE BatchSize(Cardinality(P))
      BY <1>1, <1>2, <1>3, <1>5, <2>1 DEF Goto, BatchSize, LocalInv
    <2>2. CASE ~BatchSize(Cardinality(P))
      BY <1>2, <1>3, <2>2 DEF Exit, LocalInv
    <2> QED
      BY <2>1, <2>2
  <1>7. /\ kind' \in [Validators -> {"task", "task_set"}]
        /\ \A q \in Validators \ {p} : kind'[q] = kind[q]
    BY <1>2 DEF LocalInv
  <1>8. LocalInv'
    BY <1>4, <1>5, <1>7 DEF LocalInv
  <1>9. SharedInv'
    BY <1>5 DEF SharedInv
  <1>10. \A q \in Validators \ {p} : Same(q) /\ was'[q] = was[q]
    BY <1>4, <1>5, <1>7, ProcsApart DEF Same, Apart
  <1>11. \A d \in Drafters : pc'[d] = pc[d]
    BY <1>4, ProcsApart DEF Apart
  <1> QED
    BY <1>2, <1>5, <1>6, <1>8, <1>9, <1>10, <1>11 DEF Frame

\* The other steps change reports and receipt at most.
LEMMA OtherStep ==
  ASSUME LocalInv, SharedInv, NEW p \in Validators, Moves(p),
         UNCHANGED <<dir, kind, saves, listed, target, outside, was>>,
         out' \in {Missing, Symlink} \cup Outputs,
         reports' \in [Validators -> Seq(Reports)],
         \A q \in Validators \ {p} : reports'[q] = reports[q]
  PROVE  Frame(p)
  <1>1. UNCHANGED <<dir, kind, saves, listed, target, edits, bound, was>>
    BY DEF outside
  <1>2. pc' \in [Procs -> Stages] /\ code' \in [Procs -> {0, 1, 2, None}]
        /\ \A q \in Procs \ {p} : pc'[q] = pc[q] /\ code'[q] = code[q]
    BY MovesTyped, ProcsApart DEF Apart
  <1>3. LocalInv'
    BY <1>1, <1>2 DEF LocalInv
  <1>4. SharedInv'
    BY <1>1 DEF SharedInv
  <1>5. \A q \in Validators \ {p} : Same(q) /\ was'[q] = was[q]
    BY <1>1, <1>2, ProcsApart DEF Same, Apart
  <1>6. \A d \in Drafters : pc'[d] = pc[d]
    BY <1>2, ProcsApart DEF Apart
  <1> QED
    BY <1>1, <1>3, <1>4, <1>5, <1>6 DEF Frame

\* p ends or goes on, nothing else happens.
Still(p) == UNCHANGED <<dir, out, reports, kind, saves, listed, target, outside, was>>

LEMMA StillStep ==
  ASSUME LocalInv, SharedInv, NEW p \in Validators, Moves(p), Still(p)
  PROVE  Frame(p)
  <1>1. out' \in {Missing, Symlink} \cup Outputs
    BY DEF Still, SharedInv
  <1>2. reports' \in [Validators -> Seq(Reports)] /\ reports' = reports
    BY DEF Still, LocalInv
  <1> QED
    BY <1>1, <1>2, OtherStep DEF Still

(***************************************************************************)
(* The steps of a validation                                               *)
(***************************************************************************)
Begun(p) ==
    /\ pc[p] = "idle" /\ UNCHANGED <<out, reports>>
    /\ \/ pc'[p] = "inspecting" /\ code'[p] = code[p] /\ Len(listed'[p]) \in 1 .. MaxBatch
       \/ pc'[p] = "ended" /\ code'[p] = 2
    /\ \A n \in Names : was'[p][n] = Named(dir[n])
Ends(p) == Still(p) /\ pc'[p] = "ended" /\ code'[p] \in {1, 2}
Killed(p) == /\ Still(p) /\ pc[p] \notin {"idle", "ended"}
             /\ pc'[p] = "killed" /\ code'[p] = code[p]
Looked(p) == /\ Still(p) /\ pc[p] = "inspecting"
             /\ pc'[p] = "reading" /\ code'[p] = code[p]
Added(p) ==
    /\ UNCHANGED <<out, kind, saves, listed, was>> /\ pc[p] = "reading" /\ code'[p] = code[p]
    /\ \E c \in was[p][Current(p)] :
          /\ c \in Contents /\ Judged(c) /\ c.size <= MaxBytes
          /\ reports'[p] = Append(reports[p], ReportOn(c))
    /\ pc'[p] = IF Len(reports'[p]) = Len(listed[p]) THEN "deciding" ELSE "inspecting"
Decided(p) ==
    /\ UNCHANGED <<out, kind, saves, listed, was>> /\ pc[p] = "deciding" /\ code'[p] = code[p]
    /\ ~Duplicates(reports[p]) /\ reports'[p] = Ordered(reports[p])
    /\ pc'[p] = IF saves[p] = TRUE THEN "opening" ELSE "reporting"
Opened(p) ==
    /\ UNCHANGED <<reports, kind, saves, listed, was>> /\ pc[p] = "opening"
    /\ out = Missing /\ out' = Receipt(p, FALSE)
    /\ pc'[p] = "writing" /\ code'[p] = code[p]
Wrote(p) ==
    /\ UNCHANGED <<reports, kind, saves, listed, was>> /\ pc[p] = "writing"
    /\ out' = Receipt(p, TRUE)
    /\ pc'[p] = "reporting" /\ code'[p] = code[p]
Reported(p) ==
    /\ Still(p) /\ pc[p] = "reporting" /\ pc'[p] = "ended"
    /\ code'[p] \in {0, 1} /\ code'[p] = 0 => Eligible(reports[p])

Flow(p) == \/ Begun(p) \/ Ends(p) \/ Killed(p) \/ Looked(p) \/ Added(p)
           \/ Decided(p) \/ Opened(p) \/ Wrote(p) \/ Reported(p)

\* Where p goes.
LEMMA GotoValue ==
  ASSUME LocalInv, NEW p \in Procs, NEW s \in Stages, Goto(p, s)
  PROVE  pc'[p] = s /\ code' = code /\ Moves(p)
  BY DEF Goto, LocalInv, Moves

LEMMA ExitValue ==
  ASSUME LocalInv, NEW p \in Procs, NEW c \in 0 .. 2, Exit(p, c)
  PROVE  pc'[p] = "ended" /\ code'[p] = c /\ Moves(p)
  BY DEF Exit, LocalInv, Moves

LEMMA CurrentNamed ==
  ASSUME LocalInv, NEW p \in Validators, Len(reports[p]) < Len(listed[p])
  PROVE  Current(p) \in Names /\ Len(reports[p]) + 1 \in DOMAIN listed[p]
         /\ Current(p) = listed[p][Len(reports[p]) + 1]
  <1>1. reports[p] \in Seq(Reports) /\ listed[p] \in Seq(Names)
    BY DEF LocalInv
  <1>2. Len(reports[p]) + 1 \in 1 .. Len(listed[p]) /\ DOMAIN listed[p] = 1 .. Len(listed[p])
    BY <1>1
  <1> QED
    BY <1>1, <1>2 DEF Current

LEMMA ReadStep ==
  ASSUME LocalInv, SharedInv, NEW p \in Validators, LoopInv(p), TrueInv(p), ReadFile(p)
  PROVE  Frame(p) /\ (Ends(p) \/ Added(p))
  <1>1. /\ pc[p] = "reading" /\ p \in Procs
        /\ UNCHANGED <<dir, out, kind, saves, listed, target, outside, was>>
    BY ProcsApart DEF ReadFile, Apart
  <1>2. /\ Current(p) \in Names /\ dir[Current(p)] \in Present
        /\ Named(dir[Current(p)]) \subseteq was[p][Current(p)]
    <2>1. Len(reports[p]) < Len(listed[p])
      BY <1>1 DEF LoopInv
    <2>2. Current(p) \in Names
      BY <2>1, CurrentNamed
    <2> QED
      BY <1>1, <2>2 DEF TrueInv, SharedInv
  <1>3. ASSUME NEW n \in {1, 2}, Exit(p, n), reports' = reports
        PROVE  Frame(p) /\ Ends(p)
    <2>1. Still(p)
      BY <1>1, <1>3 DEF Still
    <2>2. n \in 0 .. 2
      OBVIOUS
    <2>3. pc'[p] = "ended" /\ code'[p] = n /\ Moves(p)
      BY <1>1, <1>3, <2>2, ExitValue
    <2> QED
      BY <2>1, <2>3, StillStep DEF Ends
  <1>4. ASSUME NEW c \in {Read(x) : x \in Named(dir[Current(p)])}, SmallEnough(c), Judged(c),
               reports' = [reports EXCEPT ![p] = Append(@, ReportOn(c))],
               Goto(p, IF Len(reports'[p]) = Len(listed[p]) THEN "deciding" ELSE "inspecting")
        PROVE  Frame(p) /\ Added(p)
    <2>1. PICK x \in Named(dir[Current(p)]) : c = Read(x)
      BY <1>4
    <2>2. x \in Readable
      BY <1>2, <2>1, NamedTyped
    <2>3. c = x /\ c.size <= MaxBytes
      BY <1>4, <2>1, <2>2, ReadWhole
    <2>4. c \in Contents /\ c \in was[p][Current(p)]
      BY <1>2, <1>4, <2>1, <2>2, <2>3, DraftsRejected DEF Readable
    <2>5. ReportOn(c) \in Reports
      BY <1>4, <2>4 DEF Reports
    <2>6. /\ reports' \in [Validators -> Seq(Reports)]
          /\ reports'[p] = Append(reports[p], ReportOn(c))
          /\ \A q \in Validators \ {p} : reports'[q] = reports[q]
      <3> HIDE DEF Reports
      <3>1. reports[p] \in Seq(Reports) /\ reports \in [Validators -> Seq(Reports)]
        BY DEF LocalInv
      <3>2. Append(reports[p], ReportOn(c)) \in Seq(Reports)
        BY <2>5, <3>1
      <3> QED
        BY <1>4, <3>1, <3>2
    <2>7. (IF Len(reports'[p]) = Len(listed[p]) THEN "deciding" ELSE "inspecting") \in Stages
      BY DEF Stages, Deciding
    <2>8. /\ pc'[p] = IF Len(reports'[p]) = Len(listed[p]) THEN "deciding" ELSE "inspecting"
          /\ code' = code /\ Moves(p)
      BY <1>1, <1>4, <2>7, GotoValue
    <2>9. Frame(p)
      BY <1>1, <2>6, <2>8, OtherStep DEF SharedInv
    <2>10. Added(p)
      BY <1>1, <2>3, <2>4, <2>6, <2>8, <1>4 DEF Added
    <2> QED
      BY <2>9, <2>10
  <1>5. CASE dir[Current(p)] = Missing
    BY <1>3, <1>5 DEF ReadFile
  <1>6. CASE dir[Current(p)] # Missing
    <2>1. PICK c \in {Read(x) : x \in Named(dir[Current(p)])} :
              IF ~SmallEnough(c) THEN Exit(p, 2) /\ UNCHANGED reports
              ELSE IF Uncaught(c) THEN Exit(p, 1) /\ UNCHANGED reports
              ELSE IF ~Judged(c) THEN Exit(p, 2) /\ UNCHANGED reports
              ELSE /\ reports' = [reports EXCEPT ![p] = Append(@, ReportOn(c))]
                   /\ Goto(p, IF Len(reports'[p]) = Len(listed[p]) THEN "deciding"
                                                                   ELSE "inspecting")
      BY <1>6 DEF ReadFile
    <2>2. \/ Exit(p, 2) /\ UNCHANGED reports
          \/ Exit(p, 1) /\ UNCHANGED reports
          \/ /\ SmallEnough(c) /\ Judged(c)
             /\ reports' = [reports EXCEPT ![p] = Append(@, ReportOn(c))]
             /\ Goto(p, IF Len(reports'[p]) = Len(listed[p]) THEN "deciding" ELSE "inspecting")
      BY <2>1
    <2> QED
      BY <1>3, <1>4, <2>2
  <1> QED
    BY <1>5, <1>6

LEMMA DecideStep ==
  ASSUME LocalInv, SharedInv, NEW p \in Validators, Decide(p)
  PROVE  Frame(p) /\ (Ends(p) \/ Decided(p))
  <1>1. /\ pc[p] = "deciding" /\ p \in Procs /\ reports[p] \in Seq(Reports)
        /\ UNCHANGED <<dir, out, kind, saves, listed, target, outside, was>>
    BY ProcsApart DEF Decide, Apart, LocalInv
  <1>2. CASE Duplicates(reports[p])
    <2>1. Exit(p, 2) /\ UNCHANGED reports
      BY <1>2 DEF Decide
    <2>2. pc'[p] = "ended" /\ code'[p] = 2 /\ Moves(p)
      BY <1>1, <2>1, ExitValue
    <2>3. Still(p)
      BY <1>1, <2>1 DEF Still
    <2> QED
      BY <2>2, <2>3, StillStep DEF Ends
  <1>3. CASE ~Duplicates(reports[p])
    <2>1. /\ reports' = [reports EXCEPT ![p] = Ordered(reports[p])]
          /\ Goto(p, IF saves[p] THEN "opening" ELSE "reporting")
      BY <1>3 DEF Decide
    <2>2. Ordered(reports[p]) \in Seq(Reports)
      BY <1>1, <1>3, OrderedSeq
    <2>3. /\ reports' \in [Validators -> Seq(Reports)] /\ reports'[p] = Ordered(reports[p])
          /\ \A q \in Validators \ {p} : reports'[q] = reports[q]
      <3> HIDE DEF Ordered
      <3> QED
        BY <2>1, <2>2 DEF LocalInv
    <2>4. /\ (IF saves[p] THEN "opening" ELSE "reporting") \in Stages
          /\ (IF saves[p] THEN "opening" ELSE "reporting")
                = IF saves[p] = TRUE THEN "opening" ELSE "reporting"
      <3>1. saves[p] \in BOOLEAN
        BY DEF LocalInv
      <3> QED
        BY <3>1 DEF Stages, Deciding
    <2>5. /\ pc'[p] = IF saves[p] = TRUE THEN "opening" ELSE "reporting"
          /\ code' = code /\ Moves(p)
      BY <1>1, <2>1, <2>4, GotoValue
    <2>6. Frame(p)
      BY <1>1, <2>3, <2>5, OtherStep DEF SharedInv
    <2>7. Decided(p)
      BY <1>1, <1>3, <2>3, <2>5 DEF Decided
    <2> QED
      BY <2>6, <2>7
  <1> QED
    BY <1>2, <1>3

LEMMA EndStep ==
  ASSUME LocalInv, SharedInv, NEW p \in Validators, NEW c \in {1, 2}, Exit(p, c), Still(p)
  PROVE  Frame(p) /\ Ends(p)
  <1>1. p \in Procs /\ c \in 0 .. 2
    BY ProcsApart DEF Apart
  <1>2. pc'[p] = "ended" /\ code'[p] = c /\ Moves(p)
    BY <1>1, ExitValue
  <1> QED
    BY <1>2, StillStep DEF Ends

LEMMA InspectStep ==
  ASSUME LocalInv, SharedInv, NEW p \in Validators, Inspect(p)
  PROVE  Frame(p) /\ (Ends(p) \/ Looked(p))
  <1>1. Still(p) /\ pc[p] = "inspecting" /\ (Goto(p, "reading") \/ Exit(p, 2)) /\ p \in Procs
    BY ProcsApart DEF Inspect, Still, validation, Apart
  <1>2. CASE Goto(p, "reading")
    <2>1. pc'[p] = "reading" /\ code' = code /\ Moves(p)
      BY <1>1, <1>2, GotoValue DEF Stages
    <2> QED
      BY <1>1, <2>1, StillStep DEF Looked
  <1>3. CASE Exit(p, 2)
    BY <1>1, <1>3, EndStep
  <1> QED
    BY <1>1, <1>2, <1>3

LEMMA ReceiptTyped ==
  ASSUME LocalInv, NEW p \in Validators, NEW w \in BOOLEAN
  PROVE  Receipt(p, w) \in Outputs /\ Receipt(p, w).by = p
  <1>1. kind[p] \in {"task", "task_set"} /\ reports[p] \in Seq(Reports)
    BY DEF LocalInv
  <1> QED
    BY <1>1 DEF Receipt, Outputs

LEMMA OpenStep ==
  ASSUME LocalInv, SharedInv, NEW p \in Validators, OpenOutput(p)
  PROVE  Frame(p) /\ (Ends(p) \/ Opened(p))
  <1>1. /\ pc[p] = "opening" /\ p \in Procs
        /\ UNCHANGED <<dir, reports, kind, saves, listed, target, outside, was>>
    BY ProcsApart DEF OpenOutput, Apart, validation
  <1>2. CASE MayCreate(out)
    <2>1. out = Missing /\ out' = Receipt(p, FALSE) /\ Goto(p, "writing")
      BY <1>2 DEF OpenOutput, MayCreate, Receipt
    <2>2. pc'[p] = "writing" /\ code' = code /\ Moves(p)
      BY <1>1, <2>1, GotoValue DEF Stages, Deciding
    <2>3. out' \in Outputs
      BY <2>1, ReceiptTyped
    <2>4. Frame(p)
      BY <1>1, <2>2, <2>3, OtherStep DEF LocalInv
    <2> QED
      BY <1>1, <2>1, <2>2, <2>4 DEF Opened
  <1>3. CASE ~MayCreate(out)
    <2>1. Exit(p, 2) /\ Still(p)
      BY <1>1, <1>3 DEF OpenOutput, Still
    <2> QED
      BY <2>1, EndStep
  <1> QED
    BY <1>2, <1>3

LEMMA WriteStep ==
  ASSUME LocalInv, SharedInv, NEW p \in Validators, OutputInv(p), WriteOutput(p)
  PROVE  Frame(p) /\ (Ends(p) \/ Wrote(p))
  <1>1. /\ pc[p] = "writing" /\ p \in Procs /\ out = Receipt(p, FALSE)
        /\ UNCHANGED <<dir, reports, kind, saves, listed, target, outside, was>>
    BY ProcsApart DEF WriteOutput, Apart, validation, OutputInv
  <1>2. CASE Goto(p, "reporting") /\ out' = IF out.by = p THEN [out EXCEPT !.whole = TRUE] ELSE out
    <2>1. pc'[p] = "reporting" /\ code' = code /\ Moves(p)
      BY <1>1, <1>2, GotoValue DEF Stages, Deciding
    <2>2. out' = Receipt(p, TRUE)
      BY <1>1, <1>2 DEF Receipt
    <2>3. out' \in Outputs
      BY <2>2, ReceiptTyped
    <2>4. Frame(p)
      BY <1>1, <2>1, <2>3, OtherStep DEF LocalInv
    <2> QED
      BY <1>1, <2>1, <2>2, <2>4 DEF Wrote
  <1>3. CASE Exit(p, 2) /\ UNCHANGED out
    <2>1. Still(p)
      BY <1>1, <1>3 DEF Still
    <2> QED
      BY <1>3, <2>1, EndStep
  <1> QED
    BY <1>2, <1>3 DEF WriteOutput

LEMMA ReportStep ==
  ASSUME LocalInv, SharedInv, NEW p \in Validators, ReportDecision(p)
  PROVE  Frame(p) /\ Reported(p)
  <1>1. Still(p) /\ pc[p] = "reporting" /\ p \in Procs
        /\ Exit(p, IF Eligible(reports[p]) THEN 0 ELSE 1)
    BY ProcsApart DEF ReportDecision, Still, validation, Apart
  <1>2. CASE Eligible(reports[p])
    <2>1. pc'[p] = "ended" /\ code'[p] = 0 /\ Moves(p)
      BY <1>1, <1>2, ExitValue
    <2> QED
      BY <1>1, <1>2, <2>1, StillStep DEF Reported
  <1>3. CASE ~Eligible(reports[p])
    <2>1. pc'[p] = "ended" /\ code'[p] = 1 /\ Moves(p)
      BY <1>1, <1>3, ExitValue
    <2> QED
      BY <1>1, <2>1, StillStep DEF Reported
  <1> QED
    BY <1>2, <1>3

LEMMA KillStep ==
  ASSUME LocalInv, SharedInv, NEW p \in Validators, Kill(p)
  PROVE  Frame(p) /\ Killed(p)
  <1>1. Still(p) /\ pc[p] \notin {"idle", "ended"} /\ Goto(p, "killed") /\ p \in Procs
    BY ProcsApart DEF Kill, Still, validation, Apart
  <1>2. pc'[p] = "killed" /\ code' = code /\ Moves(p)
    BY <1>1, GotoValue DEF Stages
  <1> QED
    BY <1>1, <1>2, StillStep DEF Killed

\* All a validation does.
LEMMA ValidationFlow ==
  ASSUME LocalInv, SharedInv, NEW p \in Validators, LoopInv(p), TrueInv(p), OutputInv(p),
         ValidateStep(p) \/ Kill(p)
  PROVE  Frame(p) /\ Flow(p)
  <1>1. ASSUME NEW n \in Names, ValidateFile(p, n) PROVE Frame(p) /\ Begun(p)
    <2>1. /\ Frame(p) /\ UNCHANGED <<out, reports, code>>
          /\ pc[p] = "idle" /\ pc'[p] = "inspecting" /\ listed'[p] = <<n>>
          /\ \A m \in Names : was'[p][m] = Named(dir[m])
      BY <1>1, FileStep
    <2>2. Len(listed'[p]) = 1 /\ 1 \in 1 .. MaxBatch
      BY <2>1, EvidenceConstants
    <2> QED
      BY <2>1, <2>2 DEF Begun
  <1>2. CASE ValidateDirectory(p)
    <2>1. /\ Frame(p) /\ UNCHANGED <<out, reports>> /\ pc[p] = "idle"
          /\ \/ pc'[p] = "inspecting" /\ code' = code /\ Len(listed'[p]) \in 1 .. MaxBatch
             \/ pc'[p] = "ended" /\ code'[p] = 2
          /\ \A m \in Names : was'[p][m] = Named(dir[m])
      BY <1>2, DirectoryStep
    <2>2. Begun(p)
      BY <2>1 DEF Begun
    <2> QED
      BY <2>1, <2>2 DEF Flow
  <1>3. CASE Fail(p)
    <2>1. Exit(p, 2) /\ Still(p)
      BY <1>3 DEF Fail, Still, validation
    <2>2. Frame(p) /\ Ends(p)
      BY <2>1, EndStep
    <2> QED
      BY <2>2 DEF Flow
  <1> QED
    BY <1>1, <1>2, <1>3, InspectStep, ReadStep, DecideStep, OpenStep, WriteStep, ReportStep,
       KillStep DEF ValidateStep, Flow

(***************************************************************************)
(* The invariant of the process that takes a step                          *)
(***************************************************************************)
LEMMA NoneIsNoStatus == None # 0 /\ None # 1 /\ None # 2
  <1>1. 0 \in 0 .. 2 /\ 1 \in 0 .. 2 /\ 2 \in 0 .. 2
    OBVIOUS
  <1> QED
    BY <1>1, EvidenceConstants

LEMMA Lengths ==
  ASSUME LocalInv, NEW p \in Validators
  PROVE  /\ reports[p] \in Seq(Reports) /\ listed[p] \in Seq(Names)
         /\ Len(reports[p]) \in Nat /\ Len(listed[p]) \in Nat
         /\ DOMAIN reports[p] = 1 .. Len(reports[p])
         /\ DOMAIN listed[p] = 1 .. Len(listed[p])
  <1>1. reports[p] \in Seq(Reports) /\ listed[p] \in Seq(Names)
    BY DEF LocalInv
  <1> HIDE DEF Reports
  <1> QED
    BY <1>1

LEMMA LengthsAfter ==
  ASSUME LocalInv', NEW p \in Validators
  PROVE  /\ reports'[p] \in Seq(Reports) /\ listed'[p] \in Seq(Names)
         /\ Len(reports'[p]) \in Nat /\ Len(listed'[p]) \in Nat
  <1>1. reports'[p] \in Seq(Reports) /\ listed'[p] \in Seq(Names)
    BY DEF LocalInv
  <1> HIDE DEF Reports
  <1> QED
    BY <1>1

LEMMA ReportMade ==
  ASSUME LocalInv, NEW p \in Validators, Added(p)
  PROVE  \E c \in was[p][Current(p)] :
            /\ c \in Contents /\ Judged(c) /\ c.size <= MaxBytes
            /\ ReportOn(c) \in Reports
            /\ reports'[p] = Append(reports[p], ReportOn(c))
            /\ Len(reports'[p]) = Len(reports[p]) + 1
            /\ DOMAIN reports'[p] = 1 .. Len(reports[p]) + 1
            /\ \A i \in 1 .. Len(reports[p]) : reports'[p][i] = reports[p][i]
            /\ reports'[p][Len(reports[p]) + 1] = ReportOn(c)
  <1>1. PICK c \in was[p][Current(p)] :
            /\ c \in Contents /\ Judged(c) /\ c.size <= MaxBytes
            /\ reports'[p] = Append(reports[p], ReportOn(c))
    BY DEF Added
  <1>2. ReportOn(c) \in Reports
    BY <1>1 DEF Reports
  <1>3. reports[p] \in Seq(Reports)
    BY Lengths
  <1> HIDE DEF Reports, ReportOn
  <1>4. /\ Len(reports'[p]) = Len(reports[p]) + 1
        /\ DOMAIN reports[p] = 1 .. Len(reports[p])
        /\ DOMAIN reports'[p] = 1 .. Len(reports[p]) + 1
        /\ \A i \in DOMAIN reports[p] : reports'[p][i] = reports[p][i]
        /\ reports'[p][Len(reports[p]) + 1] = ReportOn(c)
    BY <1>1, <1>2, <1>3, Appending
  <1> QED
    BY <1>1, <1>2, <1>4

LEMMA LoopOwn ==
  ASSUME LocalInv, NEW p \in Validators, LoopInv(p), LocalInv', Flow(p)
  PROVE  LoopInv(p)'
  <1> DEFINE Claim == /\ pc'[p] \notin {"creating", "filling"}
                      /\ pc'[p] = "idle" => reports'[p] = <<>>
                      /\ pc'[p] # "ended" => code'[p] = None
                      /\ pc'[p] \notin {"idle", "ended"} => Len(listed'[p]) \in 1 .. MaxBatch
                      /\ Len(reports'[p]) <= Len(listed'[p])
                      /\ pc'[p] \in {"inspecting", "reading"} =>
                            Len(reports'[p]) < Len(listed'[p])
                      /\ pc'[p] \in Deciding \/ code'[p] = 0 =>
                            Len(reports'[p]) = Len(listed'[p])
  <1>1. Len(reports[p]) \in Nat /\ Len(listed[p]) \in Nat /\ Len(listed'[p]) \in Nat
    BY Lengths, LengthsAfter
  <1> SUFFICES Claim
    BY DEF LoopInv
  <1>2. CASE Begun(p)
    <2>1. reports'[p] = <<>> /\ Len(reports'[p]) = 0
      BY <1>2 DEF Begun, LoopInv
    <2> QED
      BY <1>1, <1>2, <2>1, NoneIsNoStatus, StageNames DEF Begun, LoopInv
  <1>3. CASE Ends(p)
    BY <1>3, StageNames DEF Ends, Still, LoopInv
  <1>4. CASE Killed(p)
    BY <1>4, NoneIsNoStatus, StageNames DEF Killed, Still, LoopInv
  <1>5. CASE Looked(p)
    BY <1>5, NoneIsNoStatus, StageNames DEF Looked, Still, LoopInv
  <1>6. CASE Added(p)
    <2>1. Len(reports'[p]) = Len(reports[p]) + 1
      BY <1>6, ReportMade
    <2> QED
      BY <1>1, <1>6, <2>1, NoneIsNoStatus, StageNames DEF Added, LoopInv
  <1>7. CASE Decided(p)
    <2>1. Len(reports'[p]) = Len(reports[p])
      BY <1>7, Lengths, OrderedSeq DEF Decided
    <2> QED
      BY <1>1, <1>7, <2>1, NoneIsNoStatus, StageNames DEF Decided, LoopInv
  <1>8. CASE Opened(p)
    BY <1>8, NoneIsNoStatus, StageNames DEF Opened, LoopInv
  <1>9. CASE Wrote(p)
    BY <1>9, NoneIsNoStatus, StageNames DEF Wrote, LoopInv
  <1>10. CASE Reported(p)
    BY <1>10, StageNames DEF Reported, Still, LoopInv
  <1> QED
    BY <1>2, <1>3, <1>4, <1>5, <1>6, <1>7, <1>8, <1>9, <1>10 DEF Flow

\* IsTrue as a function of what was listed and of the history.
TrueOf(l, w, r) == /\ \E i \in DOMAIN l : r.digest \in w[l[i]]
                   /\ r.digest.size <= MaxBytes /\ Judged(r.digest) /\ r = ReportOn(r.digest)

LEMMA TrueInvOf ==
  ASSUME NEW p
  PROVE  /\ TrueInv(p) <=>
               /\ pc[p] \in {"inspecting", "reading"} =>
                     \A n \in Names : Named(dir[n]) \subseteq was[p][n]
               /\ \A i \in DOMAIN reports[p] : TrueOf(listed[p], was[p], reports[p][i])
         /\ TrueInv(p)' <=>
               /\ pc'[p] \in {"inspecting", "reading"} =>
                     \A n \in Names : Named(dir'[n]) \subseteq was'[p][n]
               /\ \A i \in DOMAIN reports'[p] : TrueOf(listed'[p], was'[p], reports'[p][i])
  BY DEF TrueInv, IsTrue, TrueOf, Named

LEMMA TrueOwn ==
  ASSUME LocalInv, NEW p \in Validators, LoopInv(p), TrueInv(p), dir' = dir, Flow(p)
  PROVE  TrueInv(p)'
  <1> DEFINE Claim == /\ pc'[p] \in {"inspecting", "reading"} =>
                            \A n \in Names : Named(dir'[n]) \subseteq was'[p][n]
                      /\ \A i \in DOMAIN reports'[p] :
                            TrueOf(listed'[p], was'[p], reports'[p][i])
  <1> SUFFICES Claim
    BY TrueInvOf
  <1>1. /\ pc[p] \in {"inspecting", "reading"} =>
              \A n \in Names : Named(dir[n]) \subseteq was[p][n]
        /\ \A i \in DOMAIN reports[p] : TrueOf(listed[p], was[p], reports[p][i])
    BY TrueInvOf
  <1> HIDE DEF TrueOf, Named
  <1>2. CASE Begun(p)
    <2>1. reports'[p] = <<>>
      BY <1>2 DEF Begun, LoopInv
    <2>2. DOMAIN reports'[p] = {}
      BY <2>1
    <2> QED
      BY <1>2, <2>2 DEF Begun
  <1>3. CASE Still(p) /\ pc'[p] \notin {"inspecting", "reading"}
    BY <1>1, <1>3 DEF Still
  <1>4. CASE Looked(p)
    BY <1>1, <1>4 DEF Looked, Still
  <1>5. CASE Added(p)
    <2>1. PICK c \in was[p][Current(p)] :
            /\ c \in Contents /\ Judged(c) /\ c.size <= MaxBytes
            /\ ReportOn(c) \in Reports
            /\ reports'[p] = Append(reports[p], ReportOn(c))
            /\ Len(reports'[p]) = Len(reports[p]) + 1
            /\ DOMAIN reports'[p] = 1 .. Len(reports[p]) + 1
            /\ \A i \in 1 .. Len(reports[p]) : reports'[p][i] = reports[p][i]
            /\ reports'[p][Len(reports[p]) + 1] = ReportOn(c)
      BY <1>5, ReportMade
    <2>2. TrueOf(listed[p], was[p], ReportOn(c))
      <3>1. ReportOn(c).digest = c
        BY DEF ReportOn
      <3>2. Len(reports[p]) + 1 \in DOMAIN listed[p]
            /\ Current(p) = listed[p][Len(reports[p]) + 1]
        BY <1>5, CurrentNamed DEF Added, LoopInv
      <3> QED
        BY <2>1, <3>1, <3>2 DEF TrueOf
    <2>3. listed'[p] = listed[p] /\ was'[p] = was[p] /\ pc[p] = "reading"
      BY <1>5 DEF Added
    <2>4. Len(reports[p]) \in Nat /\ DOMAIN reports[p] = 1 .. Len(reports[p])
      BY Lengths
    <2>5. ASSUME NEW i \in DOMAIN reports'[p]
          PROVE  TrueOf(listed'[p], was'[p], reports'[p][i])
      <3>1. CASE i \in 1 .. Len(reports[p])
        BY <1>1, <2>1, <2>3, <2>4, <3>1
      <3>2. CASE i = Len(reports[p]) + 1
        BY <2>1, <2>2, <2>3, <3>2
      <3> QED
        BY <2>1, <2>4, <2>5, <3>1, <3>2
    <2> QED
      BY <1>1, <2>3, <2>5
  <1>6. CASE Decided(p)
    <2>1. /\ listed'[p] = listed[p] /\ was'[p] = was[p]
          /\ reports'[p] = Ordered(reports[p]) /\ ~Duplicates(reports[p])
          /\ pc'[p] \notin {"inspecting", "reading"}
      BY <1>6 DEF Decided
    <2>2. \A i \in DOMAIN reports'[p] : \E j \in DOMAIN reports[p] : reports'[p][i] = reports[p][j]
      BY <2>1, Lengths, OrderedSeq
    <2> QED
      BY <1>1, <2>1, <2>2
  <1>7. CASE Opened(p) \/ Wrote(p)
    BY <1>1, <1>7 DEF Opened, Wrote
  <1> QED
    BY <1>2, <1>3, <1>4, <1>5, <1>6, <1>7 DEF Flow, Ends, Killed, Reported

LEMMA OrderOwn ==
  ASSUME LocalInv, NEW p \in Validators, LoopInv(p), OrderInv(p), Flow(p)
  PROVE  OrderInv(p)'
  <1> DEFINE Claim == pc'[p] \in Deciding \ {"deciding"} \/ code'[p] = 0 =>
                          ~Duplicates(reports'[p]) /\ reports'[p] = Ordered(reports'[p])
  <1> SUFFICES Claim
    BY DEF OrderInv, Duplicates, Ordered
  <1> HIDE DEF Duplicates, Ordered
  <1>1. CASE Begun(p) \/ Looked(p) \/ Added(p) \/ Killed(p)
    BY <1>1, NoneIsNoStatus, StageNames DEF Begun, Looked, Added, Killed, Still, LoopInv
  <1>2. CASE Ends(p)
    BY <1>2, StageNames DEF Ends, Still
  <1>3. CASE Decided(p)
    <2>1. reports[p] \in Seq(Reports)
      BY Lengths
    <2>2. ~Duplicates(Ordered(reports[p]))
          /\ Ordered(Ordered(reports[p])) = Ordered(reports[p])
      BY <1>3, <2>1, OrderedSeq DEF Decided
    <2> QED
      BY <1>3, <2>2 DEF Decided
  <1>4. CASE Opened(p)
    BY <1>4, StageNames DEF Opened, OrderInv
  <1>5. CASE Wrote(p)
    BY <1>5, StageNames DEF Wrote, OrderInv
  <1>6. CASE Reported(p)
    BY <1>6, StageNames DEF Reported, Still, OrderInv
  <1> QED
    BY <1>1, <1>2, <1>3, <1>4, <1>5, <1>6 DEF Flow

LEMMA OutputOwn ==
  ASSUME LocalInv, NEW p \in Validators, LoopInv(p), OutputInv(p), Flow(p)
  PROVE  OutputInv(p)'
  <1> DEFINE Made(w) == [by |-> p, whole |-> w, kind |-> kind'[p], reports |-> reports'[p]]
             Claim ==
                 /\ out' \in Outputs /\ out'.by = p =>
                       /\ pc'[p] \notin {"idle", "inspecting", "reading", "deciding"}
                       /\ Len(reports'[p]) = Len(listed'[p])
                 /\ pc'[p] = "writing" => out' = Made(FALSE)
                 /\ (pc'[p] = "reporting" \/ code'[p] = 0) /\ saves'[p] = TRUE =>
                       out' = Made(TRUE)
                 /\ code'[p] = 0 => Eligible(reports'[p])
  <1> SUFFICES Claim
    BY DEF OutputInv, Receipt, Eligible
  <1>1. Receipt(p, TRUE) = [by |-> p, whole |-> TRUE, kind |-> kind[p], reports |-> reports[p]]
        /\ Receipt(p, FALSE)
              = [by |-> p, whole |-> FALSE, kind |-> kind[p], reports |-> reports[p]]
    BY DEF Receipt
  <1> HIDE DEF Eligible, Outputs
  <1>2. CASE Begun(p)
    BY <1>2, NoneIsNoStatus DEF Begun, LoopInv, OutputInv
  <1>3. CASE Ends(p)
    BY <1>3 DEF Ends, Still, OutputInv
  <1>4. CASE Killed(p)
    BY <1>4, NoneIsNoStatus DEF Killed, Still, OutputInv, LoopInv
  <1>5. CASE Looked(p)
    BY <1>5, NoneIsNoStatus DEF Looked, Still, OutputInv, LoopInv
  <1>6. CASE Added(p)
    BY <1>6, NoneIsNoStatus DEF Added, OutputInv, LoopInv
  <1>7. CASE Decided(p)
    BY <1>7, NoneIsNoStatus DEF Decided, OutputInv, LoopInv
  <1>8. CASE Opened(p)
    BY <1>1, <1>8, NoneIsNoStatus, StageNames DEF Opened, OutputInv, LoopInv
  <1>9. CASE Wrote(p)
    BY <1>1, <1>9, NoneIsNoStatus, StageNames DEF Wrote, OutputInv, LoopInv
  <1>10. CASE Reported(p)
    BY <1>1, <1>10 DEF Reported, Still, OutputInv
  <1> QED
    BY <1>2, <1>3, <1>4, <1>5, <1>6, <1>7, <1>8, <1>9, <1>10 DEF Flow

(***************************************************************************)
(* The invariants of the others                                            *)
(***************************************************************************)
\* Nobody else's step makes or changes the receipt of q.
OutputKept(q) == \/ out' = out
                 \/ ~(out \in Outputs /\ out.by = q) /\ ~(out' \in Outputs /\ out'.by = q)

\* The history of q grows with what the directory holds.
HistoryKept(q) ==
    /\ \A n \in Names : was[q][n] \subseteq was'[q][n]
    /\ /\ pc[q] \in {"inspecting", "reading"}
          /\ \A n \in Names : Named(dir[n]) \subseteq was[q][n]
       => \A n \in Names : Named(dir'[n]) \subseteq was'[q][n]

LEMMA Others ==
  ASSUME LocalInv, NEW q \in Validators, Same(q), OutputKept(q), HistoryKept(q),
         LoopInv(q), TrueInv(q), OrderInv(q), OutputInv(q)
  PROVE  LoopInv(q)' /\ TrueInv(q)' /\ OrderInv(q)' /\ OutputInv(q)'
  <1>1. LoopInv(q)'
    BY DEF Same, LoopInv
  <1>2. TrueInv(q)'
    <2> DEFINE Claim == /\ pc'[q] \in {"inspecting", "reading"} =>
                              \A n \in Names : Named(dir'[n]) \subseteq was'[q][n]
                        /\ \A i \in DOMAIN reports'[q] :
                              TrueOf(listed'[q], was'[q], reports'[q][i])
    <2> SUFFICES Claim
      BY TrueInvOf
    <2>1. /\ pc[q] \in {"inspecting", "reading"} =>
                \A n \in Names : Named(dir[n]) \subseteq was[q][n]
          /\ \A i \in DOMAIN reports[q] : TrueOf(listed[q], was[q], reports[q][i])
      BY TrueInvOf
    <2>2. \A r : TrueOf(listed[q], was[q], r) => TrueOf(listed[q], was'[q], r)
      <3> SUFFICES ASSUME NEW r, TrueOf(listed[q], was[q], r)
                   PROVE  \E i \in DOMAIN listed[q] : r.digest \in was'[q][listed[q][i]]
        BY DEF TrueOf
      <3>1. PICK i \in DOMAIN listed[q] : r.digest \in was[q][listed[q][i]]
        BY DEF TrueOf
      <3>2. listed[q][i] \in Names
        BY Lengths
      <3> QED
        BY <3>1, <3>2 DEF HistoryKept
    <2> HIDE DEF TrueOf, Named
    <2>3. pc'[q] = pc[q] /\ listed'[q] = listed[q] /\ reports'[q] = reports[q]
      BY DEF Same
    <2> QED
      BY <2>1, <2>2, <2>3 DEF HistoryKept
  <1>3. OrderInv(q)'
    BY DEF Same, OrderInv, Duplicates, Ordered
  <1>4. OutputInv(q)'
    <2> DEFINE Made(w) == [by |-> q, whole |-> w, kind |-> kind[q], reports |-> reports[q]]
               Claim ==
                   /\ out' \in Outputs /\ out'.by = q =>
                         /\ pc[q] \notin {"idle", "inspecting", "reading", "deciding"}
                         /\ Len(reports[q]) = Len(listed[q])
                   /\ pc[q] = "writing" => out' = Made(FALSE)
                   /\ (pc[q] = "reporting" \/ code[q] = 0) /\ saves[q] = TRUE =>
                         out' = Made(TRUE)
                   /\ code[q] = 0 => Eligible(reports[q])
    <2> SUFFICES Claim
      BY DEF Same, OutputInv, Receipt, Eligible
    <2>1. /\ Receipt(q, TRUE) \in Outputs /\ Receipt(q, TRUE).by = q
          /\ Receipt(q, FALSE) \in Outputs /\ Receipt(q, FALSE).by = q
          /\ Receipt(q, TRUE) = Made(TRUE) /\ Receipt(q, FALSE) = Made(FALSE)
      BY ReceiptTyped DEF Receipt
    <2> HIDE DEF Made, Outputs, Receipt, Eligible
    <2> QED
      BY <2>1 DEF OutputInv, OutputKept
  <1> QED
    BY <1>1, <1>2, <1>3, <1>4

\* What a step of another validation does to the receipt of q.
LEMMA OutputOfOthers ==
  ASSUME LocalInv, NEW p \in Validators, NEW q \in Validators \ {p}, OutputInv(p), Flow(p)
  PROVE  OutputKept(q)
  <1>1. CASE Begun(p) \/ Ends(p) \/ Killed(p) \/ Looked(p) \/ Added(p) \/ Decided(p) \/ Reported(p)
    BY <1>1 DEF Begun, Ends, Killed, Looked, Added, Decided, Reported, Still, OutputKept
  <1>2. /\ Receipt(p, TRUE).by = p /\ Receipt(p, FALSE).by = p
    BY ReceiptTyped
  <1> HIDE DEF Receipt, Outputs
  <1>3. CASE Opened(p)
    BY <1>2, <1>3, MissingIsNoOutput DEF Opened, OutputKept
  <1>4. CASE Wrote(p)
    BY <1>2, <1>4 DEF Wrote, OutputKept, OutputInv
  <1> QED
    BY <1>1, <1>3, <1>4 DEF Flow

(***************************************************************************)
(* Drafts and other programs                                               *)
(***************************************************************************)
LEMMA BecomesStep ==
  ASSUME LocalInv, SharedInv, NEW n \in Names, NEW entry \in Present, Becomes(n, entry)
  PROVE  /\ dir' \in [Names -> Present] /\ dir' = [dir EXCEPT ![n] = entry]
         /\ was' \in [Validators -> [Names -> SUBSET Readable]]
         /\ \A q \in Validators : HistoryKept(q)
  <1>1. Named(entry) \subseteq Readable
    BY NamedTyped
  <1>2. dir' \in [Names -> Present] /\ dir' = [dir EXCEPT ![n] = entry]
    <2> HIDE DEF Present
    <2> QED
      BY DEF Becomes, SharedInv
  <1>3. ASSUME NEW q \in Validators
        PROVE  /\ was'[q] \in [Names -> SUBSET Readable]
               /\ \A m \in Names : was[q][m] \subseteq was'[q][m]
               /\ pc[q] \in {"inspecting", "reading"} => Named(entry) \subseteq was'[q][n]
    <2> HIDE DEF Readable, Named
    <2>1. was[q] \in [Names -> SUBSET Readable]
      BY DEF LocalInv
    <2>2. was'[q] = IF pc[q] \in {"inspecting", "reading"}
                      THEN [was[q] EXCEPT ![n] = @ \cup Named(entry)] ELSE was[q]
      BY DEF Becomes
    <2>3. CASE pc[q] \in {"inspecting", "reading"}
      <3>1. was'[q] = [was[q] EXCEPT ![n] = was[q][n] \cup Named(entry)]
        BY <2>2, <2>3
      <3>2. was[q][n] \cup Named(entry) \in SUBSET Readable
        BY <1>1, <2>1
      <3> QED
        BY <2>1, <3>1, <3>2
    <2>4. CASE pc[q] \notin {"inspecting", "reading"}
      BY <2>1, <2>2, <2>4
    <2> QED
      BY <2>3, <2>4
  <1>4. was' = [q \in Validators |-> was'[q]]
    BY DEF Becomes
  <1>5. was' \in [Validators -> [Names -> SUBSET Readable]]
    BY <1>3, <1>4
  <1>6. ASSUME NEW q \in Validators PROVE HistoryKept(q)
    <2> SUFFICES ASSUME pc[q] \in {"inspecting", "reading"},
                        \A m \in Names : Named(dir[m]) \subseteq was[q][m], NEW m \in Names
                 PROVE  Named(dir'[m]) \subseteq was'[q][m]
      BY <1>3 DEF HistoryKept
    <2> HIDE DEF Named, Present
    <2>1. CASE m = n
      <3>1. dir'[m] = entry
        BY <1>2, <2>1 DEF SharedInv
      <3> QED
        BY <1>3, <2>1, <3>1
    <2>2. CASE m # n
      <3>1. dir'[m] = dir[m]
        BY <1>2, <2>2 DEF SharedInv
      <3> QED
        BY <1>3, <3>1
    <2> QED
      BY <2>1, <2>2
  <1> QED
    BY <1>2, <1>5, <1>6

\* What a draft does to the directory.
Drafted(d) ==
    \/ UNCHANGED <<dir, was>>
    \/ \E n \in Names : /\ dir[n] = Missing
                        /\ Becomes(n, [content |-> Empty, by |-> d])
    \/ \E n \in Names : /\ dir[n] = [content |-> Empty, by |-> d]
                        /\ Becomes(n, [content |-> Filled, by |-> d])

LEMMA DraftFlow ==
  ASSUME LocalInv, SharedInv, NEW d \in Drafters, DraftInv(d), DraftStep(d) \/ Kill(d)
  PROVE  /\ Moves(d) /\ Drafted(d) /\ UNCHANGED <<out, kind, saves, listed, reports, edits, bound>>
         /\ target' \in [Drafters -> Names \cup {None}] /\ DraftInv(d)'
         /\ \A e \in Drafters \ {d} : target'[e] = target[e]
  <1>1. d \in Procs /\ target \in [Drafters -> Names \cup {None}]
    BY ProcsApart DEF Apart, LocalInv
  <1>2. ASSUME NEW c \in 0 .. 2, Exit(d, c) PROVE Moves(d) /\ DraftInv(d)'
    <2>1. pc'[d] = "ended" /\ Moves(d)
      BY <1>1, <1>2, ExitValue
    <2> QED
      BY <2>1 DEF DraftInv
  <1>3. ASSUME NEW n \in Names, StartDraft(d, n)
        PROVE  /\ Moves(d) /\ DraftInv(d)' /\ Drafted(d)
               /\ UNCHANGED <<out, kind, saves, listed, reports, edits, bound>>
               /\ target' \in [Drafters -> Names \cup {None}]
               /\ \A e \in Drafters \ {d} : target'[e] = target[e]
    <2>1. UNCHANGED <<dir, out, kind, saves, listed, reports, edits, bound, was>>
      BY <1>3 DEF StartDraft, validation, outside
    <2>2. CASE dir[n] = Missing
      <3>1. target' = [target EXCEPT ![d] = n] /\ Goto(d, "creating")
        BY <1>3, <2>2 DEF StartDraft
      <3>2. pc'[d] = "creating" /\ Moves(d)
        BY <1>1, <3>1, GotoValue DEF Stages
      <3>3. target'[d] = n
        BY <1>1, <3>1
      <3> QED
        BY <1>1, <2>1, <3>1, <3>2, <3>3 DEF Drafted, DraftInv
    <2>3. CASE dir[n] # Missing
      <3>1. target' = target /\ Exit(d, 2)
        BY <1>3, <2>3 DEF StartDraft
      <3> QED
        BY <1>1, <1>2, <2>1, <3>1 DEF Drafted
    <2> QED
      BY <2>2, <2>3
  <1>4. CASE CreateDraft(d)
    <2>1. /\ pc[d] = "creating" /\ UNCHANGED <<out, kind, saves, listed, reports, target, edits, bound>>
      BY <1>4 DEF CreateDraft, validation, outside
    <2>2. target[d] \in Names
      BY <2>1 DEF DraftInv
    <2>3. CASE MayCreate(dir[target[d]])
      <3>1. Becomes(target[d], [content |-> Empty, by |-> d]) /\ Goto(d, "filling")
            /\ dir[target[d]] = Missing
        BY <1>4, <2>3 DEF CreateDraft, MayCreate
      <3>2. pc'[d] = "filling" /\ Moves(d)
        BY <1>1, <3>1, GotoValue DEF Stages
      <3> QED
        BY <1>1, <2>1, <2>2, <3>1, <3>2 DEF Drafted, DraftInv
    <2>4. CASE ~MayCreate(dir[target[d]])
      <3>1. Exit(d, 2) /\ UNCHANGED <<dir, was>>
        BY <1>4, <2>4 DEF CreateDraft
      <3> QED
        BY <1>1, <1>2, <2>1, <3>1 DEF Drafted
    <2> QED
      BY <2>3, <2>4
  <1>5. CASE FillDraft(d)
    <2>1. /\ pc[d] = "filling" /\ UNCHANGED <<out, kind, saves, listed, reports, target, edits, bound>>
          /\ Exit(d, 0) \/ Exit(d, 2)
      BY <1>5 DEF FillDraft, validation, outside
    <2>2. target[d] \in Names
      BY <2>1 DEF DraftInv
    <2>3. Drafted(d)
      BY <1>5, <2>2 DEF FillDraft, Drafted
    <2>4. Moves(d) /\ DraftInv(d)'
      BY <1>2, <2>1
    <2> QED
      BY <1>1, <2>1, <2>3, <2>4
  <1>6. CASE FailDraft(d)
    <2>1. /\ UNCHANGED <<dir, out, kind, saves, listed, reports, target, edits, bound, was>>
          /\ Exit(d, 2)
      BY <1>6 DEF FailDraft, validation, outside
    <2> QED
      BY <1>1, <1>2, <2>1 DEF Drafted
  <1>7. CASE Kill(d)
    <2>1. /\ UNCHANGED <<dir, out, kind, saves, listed, reports, target, edits, bound, was>>
          /\ Goto(d, "killed")
      BY <1>7 DEF Kill, validation, outside
    <2>2. pc'[d] = "killed" /\ Moves(d)
      BY <1>1, <2>1, GotoValue DEF Stages
    <2> QED
      BY <1>1, <2>1, <2>2 DEF Drafted, DraftInv
  <1> QED
    BY <1>3, <1>4, <1>5, <1>6, <1>7 DEF DraftStep

LEMMA DraftedStep ==
  ASSUME LocalInv, SharedInv, NEW d \in Drafters, Drafted(d)
  PROVE  /\ dir' \in [Names -> Present]
         /\ was' \in [Validators -> [Names -> SUBSET Readable]]
         /\ \A q \in Validators : HistoryKept(q)
  <1>1. /\ [content |-> Empty, by |-> d] \in Present
        /\ [content |-> Filled, by |-> d] \in Present
    BY DEF Present
  <1>2. CASE UNCHANGED <<dir, was>>
    <2>1. \A q \in Validators : HistoryKept(q)
      BY <1>2 DEF HistoryKept, Named
    <2> QED
      BY <1>2, <2>1 DEF LocalInv, SharedInv
  <1> HIDE DEF Present
  <1> QED
    BY <1>1, <1>2, BecomesStep DEF Drafted

(***************************************************************************)
(* The theorems                                                            *)
(***************************************************************************)
ValidatorInv(p) == LoopInv(p) /\ TrueInv(p) /\ OrderInv(p) /\ OutputInv(p)

LEMMA InitInv == Init => IInv
  <1> SUFFICES ASSUME Init PROVE IInv
    OBVIOUS
  <1>1. dir \in Starts /\ Starts \subseteq [Names -> Entries]
    BY EvidenceConstants DEF Init
  <1>2. SharedInv
    <2>1. dir \in [Names -> Present]
      BY <1>1 DEF Present
    <2>2. bound \in Bounds /\ bound.edits \in Nat /\ edits = 0
      BY EvidenceConstants DEF Init
    <2>3. edits \in 0 .. bound.edits
      BY <2>2
    <2>4. out \in {Missing, Symlink} \cup Outputs
      BY DEF Init
    <2> QED
      BY <2>1, <2>2, <2>3, <2>4 DEF SharedInv
  <1>3. LocalInv
    <2>1. "idle" \in Stages /\ <<>> \in Seq(Names) /\ <<>> \in Seq(Reports)
      BY DEF Stages
    <2>2. [n \in Names |-> {}] \in [Names -> SUBSET Readable]
      OBVIOUS
    <2> HIDE DEF Readable, Reports, Stages
    <2> QED
      BY <2>1, <2>2 DEF Init, LocalInv
  <1>4. \A d \in Drafters : DraftInv(d)
    BY ProcsApart DEF Init, DraftInv, Apart
  <1>5. ASSUME NEW p \in Validators PROVE ValidatorInv(p)
    <2>1. /\ pc[p] = "idle" /\ code[p] = None /\ reports[p] = <<>> /\ listed[p] = <<>>
      BY ProcsApart DEF Init, Apart
    <2>2. Len(reports[p]) = 0 /\ Len(listed[p]) = 0 /\ DOMAIN reports[p] = {}
      BY <2>1
    <2>3. LoopInv(p)
      BY <2>1, <2>2, NoneIsNoStatus, StageNames DEF LoopInv
    <2>4. TrueInv(p)
      BY <2>1, <2>2 DEF TrueInv
    <2>5. OrderInv(p)
      BY <2>1, NoneIsNoStatus, StageNames DEF OrderInv
    <2>6. OutputInv(p)
      <3>1. out \notin Outputs
        BY MissingIsNoOutput DEF Init
      <3> HIDE DEF Outputs
      <3> QED
        BY <2>1, <3>1, NoneIsNoStatus DEF OutputInv
    <2> QED
      BY <2>3, <2>4, <2>5, <2>6 DEF ValidatorInv
  <1> QED
    BY <1>2, <1>3, <1>4, <1>5 DEF IInv, ValidatorInv

LEMMA StepInv == IInv /\ [Next]_vars => IInv'
  <1> SUFFICES ASSUME IInv, [Next]_vars PROVE IInv'
    OBVIOUS
  <1>1. /\ SharedInv /\ LocalInv /\ \A d \in Drafters : DraftInv(d)
        /\ \A p \in Validators : ValidatorInv(p)
    BY DEF IInv, ValidatorInv
  <1> DEFINE Goal == /\ SharedInv' /\ LocalInv' /\ \A d \in Drafters : DraftInv(d)'
                     /\ \A p \in Validators : ValidatorInv(p)'
  <1> SUFFICES Goal
    BY DEF IInv, ValidatorInv
  <1>2. ASSUME NEW p \in Validators, ValidateStep(p) \/ Kill(p) PROVE Goal
    <2>1. Frame(p) /\ Flow(p)
      BY <1>1, <1>2, ValidationFlow DEF ValidatorInv
    <2>2. /\ LocalInv' /\ SharedInv' /\ UNCHANGED <<dir, target, edits, bound>>
          /\ \A q \in Validators \ {p} : Same(q) /\ was'[q] = was[q]
          /\ \A d \in Drafters : pc'[d] = pc[d]
      BY <2>1 DEF Frame
    <2>3. \A d \in Drafters : DraftInv(d)'
      BY <1>1, <2>2 DEF DraftInv
    <2>4. LoopInv(p)' /\ TrueInv(p)' /\ OrderInv(p)' /\ OutputInv(p)'
      BY <1>1, <2>1, <2>2, LoopOwn, TrueOwn, OrderOwn, OutputOwn DEF ValidatorInv
    <2>5. ASSUME NEW q \in Validators \ {p} PROVE ValidatorInv(q)'
      <3>1. HistoryKept(q)
        BY <2>2 DEF HistoryKept, Named
      <3>2. OutputKept(q)
        BY <1>1, <2>1, OutputOfOthers DEF ValidatorInv
      <3>3. LoopInv(q)' /\ TrueInv(q)' /\ OrderInv(q)' /\ OutputInv(q)'
        BY <1>1, <2>2, <3>1, <3>2, Others DEF ValidatorInv
      <3> QED
        BY <3>3 DEF ValidatorInv
    <2>6. ASSUME NEW q \in Validators PROVE ValidatorInv(q)'
      BY <2>4, <2>5 DEF ValidatorInv
    <2> QED
      BY <2>2, <2>3, <2>6
  <1>3. ASSUME NEW d \in Drafters, DraftStep(d) \/ Kill(d) PROVE Goal
    <2>1. /\ Moves(d) /\ Drafted(d) /\ UNCHANGED <<out, kind, saves, listed, reports, edits, bound>>
          /\ target' \in [Drafters -> Names \cup {None}] /\ DraftInv(d)'
          /\ \A e \in Drafters \ {d} : target'[e] = target[e]
      BY <1>1, <1>3, DraftFlow
    <2>2. /\ dir' \in [Names -> Present]
          /\ was' \in [Validators -> [Names -> SUBSET Readable]]
          /\ \A q \in Validators : HistoryKept(q)
      BY <1>1, <2>1, DraftedStep
    <2>3. /\ pc' \in [Procs -> Stages] /\ code' \in [Procs -> {0, 1, 2, None}]
          /\ \A q \in Procs \ {d} : pc'[q] = pc[q] /\ code'[q] = code[q]
      BY <1>1, <2>1, MovesTyped, ProcsApart DEF Apart
    <2>4. LocalInv' /\ SharedInv'
      BY <1>1, <2>1, <2>2, <2>3 DEF LocalInv, SharedInv
    <2>5. \A e \in Drafters \ {d} : DraftInv(e)'
      BY <1>1, <2>1, <2>3, ProcsApart DEF DraftInv, Apart
    <2>6. \A e \in Drafters : DraftInv(e)'
      BY <2>1, <2>5 DEF DraftInv
    <2>7. ASSUME NEW q \in Validators PROVE ValidatorInv(q)'
      <3>1. Same(q) /\ OutputKept(q)
        BY <2>1, <2>3, ProcsApart DEF Same, OutputKept, Apart
      <3>2. LoopInv(q)' /\ TrueInv(q)' /\ OrderInv(q)' /\ OutputInv(q)'
        BY <1>1, <2>2, <3>1, Others DEF ValidatorInv
      <3> QED
        BY <3>2 DEF ValidatorInv
    <2> QED
      BY <2>4, <2>6, <2>7
  <1>4. ASSUME \A q \in Validators : Same(q) /\ OutputKept(q) /\ HistoryKept(q)
        PROVE  \A q \in Validators : ValidatorInv(q)'
    <2> SUFFICES ASSUME NEW q \in Validators PROVE ValidatorInv(q)'
      OBVIOUS
    <2>1. LoopInv(q)' /\ TrueInv(q)' /\ OrderInv(q)' /\ OutputInv(q)'
      BY <1>1, <1>4, Others DEF ValidatorInv
    <2> QED
      BY <2>1 DEF ValidatorInv
  <1>5. ASSUME NEW n \in Names, EditEntry(n) PROVE Goal
    <2>1. /\ edits < bound.edits /\ edits' = edits + 1
          /\ UNCHANGED <<out, pc, kind, saves, listed, reports, code, target, bound>>
      BY <1>5 DEF EditEntry, validation
    <2>2. PICK entry \in [content : bound.contents, by : {None}] \cup {Missing, Symlink} :
             Becomes(n, entry)
      BY <1>5 DEF EditEntry
    <2>3. bound \in Bounds /\ bound.contents \subseteq Contents /\ bound.edits \in Nat
      BY <1>1, EvidenceConstants DEF SharedInv
    <2>4. entry \in Present
      BY <2>2, <2>3 DEF Present, Entries, Files
    <2>5. /\ dir' \in [Names -> Present]
          /\ was' \in [Validators -> [Names -> SUBSET Readable]]
          /\ \A q \in Validators : HistoryKept(q)
      BY <1>1, <2>2, <2>4, BecomesStep
    <2>6. edits' \in 0 .. bound.edits
      BY <1>1, <2>1, <2>3 DEF SharedInv
    <2>7. SharedInv' /\ LocalInv'
      BY <1>1, <2>1, <2>5, <2>6 DEF SharedInv, LocalInv
    <2>8. \A d \in Drafters : DraftInv(d)'
      BY <1>1, <2>1 DEF DraftInv
    <2>9. \A q \in Validators : Same(q) /\ OutputKept(q)
      BY <2>1 DEF Same, OutputKept
    <2> QED
      BY <1>4, <2>5, <2>7, <2>8, <2>9
  <1>6. CASE UNCHANGED vars
    <2>1. UNCHANGED <<dir, out, pc, kind, saves, listed, reports, code, target, edits, bound, was>>
      BY <1>6 DEF vars, validation, outside
    <2>2. SharedInv' /\ LocalInv' /\ \A d \in Drafters : DraftInv(d)'
      BY <1>1, <2>1 DEF SharedInv, LocalInv, DraftInv
    <2>3. \A q \in Validators : Same(q) /\ OutputKept(q) /\ HistoryKept(q)
      BY <2>1 DEF Same, OutputKept, HistoryKept, Named
    <2> QED
      BY <1>4, <2>2, <2>3
  <1> QED
    BY <1>2, <1>3, <1>5, <1>6 DEF Next, Procs

\* The inductive invariant holds throughout "validate" and "new-evidence".
THEOREM EvidenceInvariant == Spec => []IInv
  BY InitInv, StepInv, PTL DEF Spec

\* Every variable has its type.
THEOREM TypeCorrect == Spec => []TypeOK
  <1>1. IInv => TypeOK
    <2> SUFFICES ASSUME IInv PROVE TypeOK
      OBVIOUS
    <2>1. SharedInv /\ LocalInv /\ \A p \in Validators : LoopInv(p)
      BY DEF IInv
    <2>2. ASSUME NEW p \in Validators
          PROVE  /\ ToSet(listed[p]) \subseteq Names /\ Len(reports[p]) <= Len(listed[p])
                 /\ pc[p] \notin {"idle", "ended"} => Len(listed[p]) \in 1 .. MaxBatch
      <3>1. listed[p] \in Seq(Names)
        BY <2>1 DEF LocalInv
      <3>2. ToSet(listed[p]) \subseteq Names
        BY <3>1 DEF ToSet
      <3> QED
        BY <2>1, <3>2 DEF LoopInv
    <2> QED
      BY <2>1, <2>2 DEF TypeOK, SharedInv, LocalInv, Present
  <1> QED
    BY <1>1, EvidenceInvariant, PTL

\* A decision rests on every file that was listed, each report true of a
\* content the file held meanwhile, and on no task twice.
THEOREM TrueDecision == Spec => []DecisionIsTrue
  <1>1. IInv => DecisionIsTrue
    <2> SUFFICES ASSUME IInv, NEW p \in Validators, pc[p] \in Deciding \/ code[p] = 0
                 PROVE  /\ Len(reports[p]) = Len(listed[p])
                        /\ \A i \in DOMAIN reports[p] : IsTrue(p, reports[p][i])
                        /\ pc[p] # "deciding" => ~Duplicates(reports[p])
      BY DEF DecisionIsTrue
    <2>1. LoopInv(p) /\ TrueInv(p) /\ OrderInv(p)
      BY DEF IInv
    <2> HIDE DEF IsTrue, Duplicates, Deciding
    <2> QED
      BY <2>1 DEF LoopInv, TrueInv, OrderInv
  <1> QED
    BY <1>1, EvidenceInvariant, PTL

\* No draft, whole or half written, is ever part of a decision.
THEOREM NoDraftJudged == Spec => []DraftsAreNotJudged
  <1>1. IInv => DraftsAreNotJudged
    <2> SUFFICES ASSUME IInv, NEW p \in Validators, NEW i \in DOMAIN reports[p]
                 PROVE  reports[p][i].digest \notin {Empty, Filled}
      BY DEF DraftsAreNotJudged
    <2>1. TrueInv(p)
      BY DEF IInv
    <2>2. Judged(reports[p][i].digest)
      BY <2>1 DEF TrueInv, IsTrue
    <2> QED
      BY <2>2, DraftsRejected
  <1> QED
    BY <1>1, EvidenceInvariant, PTL

\* Status 0 is never wrong, and a validation that ends before its decision
\* leaves no receipt.
THEOREM EligibleZero == Spec => []ZeroIsEligible
  <1>1. IInv => ZeroIsEligible
    <2> SUFFICES ASSUME IInv, NEW p \in Validators
                 PROVE  /\ code[p] = 0 =>
                              /\ \A i \in DOMAIN reports[p] : reports[p][i].findings = NoFindings
                              /\ saves[p] => out = [by |-> p, whole |-> TRUE, kind |-> kind[p],
                                                    reports |-> reports[p]]
                        /\ Len(reports[p]) < Len(listed[p]) /\ out \notin {Missing, Symlink} =>
                              out.by # p
      BY DEF ZeroIsEligible
    <2>1. OutputInv(p) /\ out \in {Missing, Symlink} \cup Outputs /\ saves[p] \in BOOLEAN
      BY DEF IInv, SharedInv, LocalInv
    <2>2. code[p] = 0 => \A i \in DOMAIN reports[p] : reports[p][i].findings = NoFindings
      BY <2>1 DEF OutputInv, Eligible
    <2>3. code[p] = 0 /\ saves[p] = TRUE => out = Receipt(p, TRUE)
      BY <2>1 DEF OutputInv
    <2>4. Len(reports[p]) \in Nat /\ Len(listed[p]) \in Nat
      BY Lengths DEF IInv
    <2>5. Len(reports[p]) < Len(listed[p]) /\ out \notin {Missing, Symlink} => out.by # p
      BY <2>1, <2>4 DEF OutputInv
    <2> QED
      BY <2>1, <2>2, <2>3, <2>5 DEF Receipt
  <1> QED
    BY <1>1, EvidenceInvariant, PTL

\* Two validations of the same evidence write the same receipt, whatever the
\* files are called.
THEOREM SameReceipt == Spec => []SameEvidenceSameReceipt
  <1>1. IInv => SameEvidenceSameReceipt
    <2> SUFFICES ASSUME IInv, NEW p \in Validators, NEW q \in Validators,
                        pc[p] \in Deciding \ {"deciding"}, pc[q] \in Deciding \ {"deciding"},
                        ToSet(reports[p]) = ToSet(reports[q])
                 PROVE  reports[p] = reports[q]
      BY DEF SameEvidenceSameReceipt
    <2>1. OrderInv(p) /\ OrderInv(q)
      BY DEF IInv
    <2>2. reports[p] = Ordered(reports[p]) /\ reports[q] = Ordered(reports[q])
      <3> HIDE DEF Ordered, Deciding
      <3> QED
        BY <2>1 DEF OrderInv
    <2>3. Ordered(reports[p]) = Ordered(reports[q])
      BY DEF Ordered
    <2> QED
      BY <2>2, <2>3
  <1> QED
    BY <1>1, EvidenceInvariant, PTL

\* Neither command ever writes over an entry it did not create: a receipt and
\* a draft change only from missing to empty to whole.
THEOREM NoOverwriting == Spec => NothingOverwritten
  <1> DEFINE Kept ==
         /\ out' # out => \/ out = Missing
                          \/ out # Symlink /\ out' = [out EXCEPT !.whole = TRUE]
         /\ edits' = edits => \A n \in Names : dir'[n] # dir[n] =>
                \/ dir[n] = Missing
                \/ \E d \in Drafters : /\ dir[n] = [content |-> Empty, by |-> d]
                                       /\ dir'[n] = [content |-> Filled, by |-> d]
  <1>1. IInv /\ [Next]_vars => [Kept]_vars
    <2> SUFFICES ASSUME IInv, Next PROVE Kept
      OBVIOUS
    <2>1. /\ SharedInv /\ LocalInv /\ \A d \in Drafters : DraftInv(d)
          /\ \A p \in Validators : LoopInv(p) /\ TrueInv(p) /\ OutputInv(p)
      BY DEF IInv
    <2>2. ASSUME NEW p \in Validators, ValidateStep(p) \/ Kill(p) PROVE Kept
      <3>1. Frame(p) /\ Flow(p)
        BY <2>1, <2>2, ValidationFlow
      <3>2. dir' = dir
        BY <3>1 DEF Frame
      <3>3. CASE Opened(p)
        BY <3>2, <3>3 DEF Opened
      <3>4. CASE Wrote(p)
        <4>1. out = Receipt(p, FALSE) /\ out' = Receipt(p, TRUE)
          BY <2>1, <3>4 DEF Wrote, OutputInv
        <4>2. out' = [out EXCEPT !.whole = TRUE]
          <5>1. PICK whole : whole = [out EXCEPT !.whole = TRUE]
            OBVIOUS
          <5>2. whole = Receipt(p, TRUE)
            BY <4>1, <5>1 DEF Receipt
          <5> QED
            BY <4>1, <5>1, <5>2
        <4>3. out # Symlink
          <5>1. Receipt(p, FALSE) \in Outputs
            BY <2>1, ReceiptTyped
          <5> QED
            BY <4>1, <5>1, MissingIsNoOutput
        <4> QED
          BY <3>2, <4>2, <4>3
      <3>5. CASE out' = out
        BY <3>2, <3>5
      <3> QED
        BY <3>1, <3>3, <3>4, <3>5 DEF Flow, Begun, Ends, Killed, Looked, Added, Decided,
                                      Reported, Still
    <2>3. ASSUME NEW d \in Drafters, DraftStep(d) \/ Kill(d) PROVE Kept
      <3>1. Drafted(d) /\ out' = out
        BY <2>1, <2>3, DraftFlow
      <3>2. \A n, m \in Names : \A e : Becomes(n, e) /\ dir'[m] # dir[m] => m = n /\ dir'[n] = e
        BY <2>1 DEF Becomes, SharedInv
      <3> HIDE DEF Becomes
      <3> QED
        BY <3>1, <3>2 DEF Drafted
    <2>4. ASSUME NEW n \in Names, EditEntry(n) PROVE Kept
      <3>1. edits' = edits + 1 /\ out' = out /\ edits \in Nat
        BY <2>1, <2>4 DEF EditEntry, SharedInv
      <3>2. edits' # edits
        BY <3>1
      <3> QED
        BY <3>1, <3>2
    <2> QED
      BY <2>2, <2>3, <2>4 DEF Next, Procs
  <1> QED
    BY <1>1, EvidenceInvariant, PTL DEF Spec, NothingOverwritten

=============================================================================
