------------------------ MODULE FalsificationProofs ------------------------
(***************************************************************************)
(* Proofs about the decision on an evidence document: what is reported of  *)
(* a document, and that no document is judged better for being worse.      *)
(***************************************************************************)
EXTENDS MCFalsification, TLAPS

(***************************************************************************)
(* What the order of two documents means for their findings.               *)
(***************************************************************************)
Larger == {"flake_rate", "rejected_valid_alternatives", "broken_patch_passes"}
Longer == Lists \ {"declared_requirements"}
Leaks == Booleans \ {"base_fails", "gold_passes"}

\* No observation of e that a check looks at is better than that of d.
NoBetter(d, e) ==
    /\ \A f \in {"base_fails", "gold_passes"} : e[f] = "true" => d[f] = "true"
    /\ \A f \in Leaks : d[f] = "true" => e[f] = "true"
    /\ \A f \in Longer : d[f] \subseteq e[f]
    /\ e.declared_requirements \subseteq d.declared_requirements
    /\ \A f \in Larger : d[f] \in Nat /\ e[f] \in Nat /\ d[f] <= e[f]

USE DEF CHECKS

\* The verdict on an acceptable document depends on its findings alone.
LEMMA AcceptableVerdict ==
    ASSUME NEW d, Acceptable(d)
    PROVE  Verdict(d) = IF Findings(d) = NoFindings THEN "ELIGIBLE" ELSE "HOLD"
  <1>1. d.flake_rate \notin {Null, Huge}
    BY DEF Acceptable, Observations
  <1>2. ~Overflows(d)
    BY <1>1 DEF Overflows
  <1> QED
    BY <1>2 DEF Verdict

LEMMA OnlyAcceptableIsJudged ==
    ASSUME NEW d, Verdict(d) \in {"ELIGIBLE", "HOLD"}
    PROVE  Acceptable(d)
  BY DEF Verdict

\* A document is held if and only if some check has a finding.
LEMMA NoCodes ==
    ASSUME NEW d
    PROVE  Findings(d) = NoFindings <=> Codes(d) = {}
  <1>1. /\ Findings(d) = [c \in CHECKS |-> Findings(d)[c]]
        /\ \A c \in CHECKS : Findings(d)[c] \in BOOLEAN
    BY DEF Findings
  <1> HIDE DEF CHECKS
  <1>2. ASSUME Codes(d) = {} PROVE Findings(d) = NoFindings
    <2>1. \A c \in CHECKS : Findings(d)[c] = FALSE
      BY <1>1, <1>2 DEF Codes
    <2> QED
      BY <1>1, <2>1 DEF NoFindings
  <1>3. ASSUME Findings(d) = NoFindings PROVE Codes(d) = {}
    BY <1>3 DEF NoFindings, Codes
  <1> QED
    BY <1>2, <1>3

LEMMA FindingsAre ==
    ASSUME NEW d
    PROVE  /\ Findings(d)["BASE_NOT_FAILING"] <=> d.base_fails # "true"
           /\ Findings(d)["GOLD_NOT_PASSING"] <=> d.gold_passes # "true"
           /\ Findings(d)["FLAKY_VERIFIER"] <=> d.flake_rate # 0
           /\ Findings(d)["ORACLE_EXPOSED"] <=> d.oracle_artifacts # {}
           /\ Findings(d)["HISTORY_LEAK"] <=> d.future_history_accessible = "true"
           /\ Findings(d)["VERIFIER_MUTABLE"] <=> d.verifier_writable = "true"
           /\ Findings(d)["NETWORK_POLICY_FAILURE"] <=> d.network_egress_observed = "true"
           /\ Findings(d)["GRADER_TAMPER_SURFACE"] <=> d.grader_tamper_vectors # {}
           /\ Findings(d)["SPEC_TEST_MISMATCH"] <=> HiddenRequirements(d) # {}
           /\ Findings(d)["OVERCONSTRAINED_TEST"] <=> d.rejected_valid_alternatives # 0
           /\ Findings(d)["UNDERPOWERED_TEST"] <=> d.broken_patch_passes # 0
           /\ Findings(d)["CACHE_LEAK"] <=> d.cache_leaks # {}
  BY DEF Findings

\* A check that has a finding for a document has one for every document that
\* is no better (falsify and the twelve checks, falsification.py:218).
THEOREM FindingsOnlyGrow ==
    ASSUME NEW d, NEW e, NoBetter(d, e)
    PROVE  Codes(d) \subseteq Codes(e)
  <1> SUFFICES ASSUME NEW c \in CHECKS, Findings(d)[c] PROVE Findings(e)[c]
    BY DEF Codes
  <1>1. CASE c \in {"BASE_NOT_FAILING", "GOLD_NOT_PASSING"}
    <2>1. /\ e.base_fails = "true" => d.base_fails = "true"
          /\ e.gold_passes = "true" => d.gold_passes = "true"
      BY DEF NoBetter
    <2> QED
      BY <1>1, <2>1, FindingsAre
  <1>2. CASE c \in {"HISTORY_LEAK", "VERIFIER_MUTABLE", "NETWORK_POLICY_FAILURE"}
    <2>1. {"future_history_accessible", "verifier_writable", "network_egress_observed"}
             \subseteq Leaks
      BY DEF Leaks, Booleans
    <2>2. /\ d.future_history_accessible = "true" => e.future_history_accessible = "true"
          /\ d.verifier_writable = "true" => e.verifier_writable = "true"
          /\ d.network_egress_observed = "true" => e.network_egress_observed = "true"
      BY <2>1 DEF NoBetter
    <2> QED
      BY <1>2, <2>2, FindingsAre
  <1>3. CASE c \in {"ORACLE_EXPOSED", "GRADER_TAMPER_SURFACE", "CACHE_LEAK"}
    <2>1. {"oracle_artifacts", "grader_tamper_vectors", "cache_leaks"} \subseteq Longer
      BY DEF Longer, Lists
    <2>2. /\ d.oracle_artifacts \subseteq e.oracle_artifacts
          /\ d.grader_tamper_vectors \subseteq e.grader_tamper_vectors
          /\ d.cache_leaks \subseteq e.cache_leaks
      BY <2>1 DEF NoBetter
    <2> QED
      BY <1>3, <2>2, FindingsAre
  <1>4. CASE c = "SPEC_TEST_MISMATCH"
    <2>1. HiddenRequirements(d) # {}
      BY <1>4, FindingsAre
    <2>2. d.verified_requirements \subseteq e.verified_requirements
      BY DEF NoBetter, Longer, Lists
    <2>3. HiddenRequirements(d) \subseteq HiddenRequirements(e)
      BY <2>2 DEF HiddenRequirements, NoBetter
    <2> QED
      BY <1>4, <2>1, <2>3, FindingsAre
  <1>5. CASE c = "FLAKY_VERIFIER"
    <2>1. d.flake_rate # 0 /\ d.flake_rate \in Nat
      BY <1>5, FindingsAre DEF NoBetter, Larger
    <2>2. e.flake_rate \in Nat /\ d.flake_rate <= e.flake_rate
      BY DEF NoBetter, Larger
    <2> QED
      BY <1>5, <2>1, <2>2, FindingsAre
  <1>6. CASE c = "OVERCONSTRAINED_TEST"
    <2>1. d.rejected_valid_alternatives # 0 /\ d.rejected_valid_alternatives \in Nat
      BY <1>6, FindingsAre DEF NoBetter, Larger
    <2>2. /\ e.rejected_valid_alternatives \in Nat
          /\ d.rejected_valid_alternatives <= e.rejected_valid_alternatives
      BY DEF NoBetter, Larger
    <2> QED
      BY <1>6, <2>1, <2>2, FindingsAre
  <1>7. CASE c = "UNDERPOWERED_TEST"
    <2>1. d.broken_patch_passes # 0 /\ d.broken_patch_passes \in Nat
      BY <1>7, FindingsAre DEF NoBetter, Larger
    <2>2. e.broken_patch_passes \in Nat /\ d.broken_patch_passes <= e.broken_patch_passes
      BY DEF NoBetter, Larger
    <2> QED
      BY <1>7, <2>1, <2>2, FindingsAre
  <1> QED
    BY <1>1, <1>2, <1>3, <1>4, <1>5, <1>6, <1>7

\* Of two acceptable documents the one that is no better is judged no better,
\* whatever they hold (validate_evidence_file, evidence.py:276).
THEOREM VerdictNeverBetter ==
    ASSUME NEW d, NEW e, NoBetter(d, e), Acceptable(d), Acceptable(e)
    PROVE  Rank(Verdict(e)) >= Rank(Verdict(d))
  <1>1. Codes(d) # {} => Codes(e) # {}
    BY FindingsOnlyGrow
  <1>2. /\ Verdict(d) = IF Codes(d) = {} THEN "ELIGIBLE" ELSE "HOLD"
        /\ Verdict(e) = IF Codes(e) = {} THEN "ELIGIBLE" ELSE "HOLD"
    BY AcceptableVerdict, NoCodes
  <1>3. CASE Codes(d) = {}
    <2>1. Rank(Verdict(d)) = 0
      BY <1>2, <1>3 DEF Rank
    <2>2. Rank(Verdict(e)) \in {0, 1}
      BY <1>2 DEF Rank
    <2> QED
      BY <2>1, <2>2
  <1>4. CASE Codes(d) # {}
    <2>1. Verdict(d) = "HOLD" /\ Verdict(e) = "HOLD"
      BY <1>1, <1>2, <1>4
    <2> QED
      BY <2>1 DEF Rank
  <1> QED
    BY <1>3, <1>4

(***************************************************************************)
(* The inductive invariant: an observation that is still acceptable by     *)
(* itself is as it was in the first document, or has been worsened.        *)
(***************************************************************************)
Known(f) == doc[f] \notin {Null, Huge}
Requirements == {"r", "s"}

BooleanInv(f) == doc[f] \in {"true", "false"} /\ (f \in worsened <=> doc[f] # Clean[f])
ListInv(f) == doc[f] \subseteq Requirements /\ (f \in worsened <=> doc[f] # {})
CountInv(f) == doc[f] \in {-1, 0, 1} /\ (f \in worsened <=> doc[f] # 0)

DocInv ==
    /\ doc = [f \in Fields |-> doc[f]]
    /\ \A f \in Booleans : Known(f) => BooleanInv(f)
    /\ \A f \in Longer : Known(f) => ListInv(f)
    /\ Known("declared_requirements") => doc.declared_requirements \subseteq Requirements
    /\ Known("flake_rate") =>
          doc.flake_rate \in 0 .. 101 /\ ("flake_rate" \in worsened <=> doc.flake_rate # 0)
    /\ \A f \in {"rejected_valid_alternatives", "broken_patch_passes"} :
          Known(f) => CountInv(f)
    /\ Known("broken_patch_trials") => doc.broken_patch_trials \in {-1, 0, 1}

LEMMA CleanValues ==
    /\ Clean = [f \in Fields |-> Clean[f]]
    /\ \A f \in {"base_fails", "gold_passes"} : Clean[f] = "true"
    /\ \A f \in Leaks : Clean[f] = "false"
    /\ \A f \in Longer : Clean[f] = {}
    /\ Clean.declared_requirements = Requirements
    /\ \A f \in Larger : Clean[f] = 0
    /\ Clean.broken_patch_trials = 1
  <1>0. Favourable(1) = [f \in Fields |-> Favourable(1)[f]]
    BY DEF Favourable
  <1>1. \A f \in Fields : f \notin {"declared_requirements", "broken_patch_trials"} =>
            Clean[f] = Favourable(1)[f]
    BY <1>0 DEF Clean
  <1>2. /\ Clean = [f \in Fields |-> Clean[f]]
        /\ Clean.declared_requirements = Requirements /\ Clean.broken_patch_trials = 1
    <2>1. {"declared_requirements", "broken_patch_trials"} \subseteq Fields
      BY DEF Fields, Observations, Lists, Counts
    <2> QED
      BY <1>0, <2>1 DEF Clean, Requirements
  <1>3. \A f \in {"base_fails", "gold_passes"} : Favourable(1)[f] = "true"
    <2> SUFFICES ASSUME NEW f \in {"base_fails", "gold_passes"} PROVE Favourable(1)[f] = "true"
      OBVIOUS
    <2>1. f \in Fields /\ f \notin Lists
      BY DEF Fields, Observations, Booleans, Lists
    <2>2. f \notin {"task_id", "schema_version", "unknown_fields"}
      OBVIOUS
    <2> HIDE DEF Fields, Lists, Booleans
    <2> QED
      BY <2>1, <2>2 DEF Favourable
  <1>4. \A f \in Leaks : Favourable(1)[f] = "false"
    <2> SUFFICES ASSUME NEW f \in Leaks PROVE Favourable(1)[f] = "false"
      OBVIOUS
    <2>1. /\ f \in Fields /\ f \notin Lists /\ f \in Booleans \ {"base_fails", "gold_passes"}
          /\ f \notin {"task_id", "schema_version", "unknown_fields", "base_fails", "gold_passes"}
      BY DEF Leaks, Fields, Observations, Booleans, Lists
    <2> QED
      BY <2>1 DEF Favourable
  <1>5. \A f \in Longer : Favourable(1)[f] = {}
    <2> SUFFICES ASSUME NEW f \in Longer PROVE Favourable(1)[f] = {}
      OBVIOUS
    <2>1. /\ f \in Fields /\ f \in Lists /\ f \notin Booleans
          /\ f \notin {"task_id", "schema_version", "unknown_fields", "base_fails", "gold_passes"}
      BY DEF Longer, Fields, Observations, Booleans, Lists
    <2> QED
      BY <2>1 DEF Favourable
  <1>6. \A f \in Larger : Favourable(1)[f] = 0
    <2> SUFFICES ASSUME NEW f \in Larger PROVE Favourable(1)[f] = 0
      OBVIOUS
    <2>1. /\ f \in Fields /\ f \notin Lists /\ f \notin Booleans
          /\ f \notin {"task_id", "schema_version", "unknown_fields", "base_fails", "gold_passes"}
      BY DEF Larger, Fields, Observations, Booleans, Lists, Counts
    <2> QED
      BY <2>1 DEF Favourable
  <1>7. /\ {"base_fails", "gold_passes"} \cup Leaks \cup Longer \cup Larger \subseteq Fields
        /\ \A f \in {"base_fails", "gold_passes"} \cup Leaks \cup Longer \cup Larger :
               f \notin {"declared_requirements", "broken_patch_trials"}
    BY DEF Leaks, Longer, Larger, Fields, Observations, Booleans, Lists, Counts
  <1> QED
    BY <1>1, <1>2, <1>3, <1>4, <1>5, <1>6, <1>7

\* The kinds of observations, and that they are kinds of fields.
LEMMA Kinds ==
    /\ Observations \subseteq Fields
    /\ Observations = Booleans \cup Longer \cup {"declared_requirements", "flake_rate",
          "rejected_valid_alternatives", "broken_patch_passes", "broken_patch_trials"}
    /\ Larger = {"flake_rate", "rejected_valid_alternatives", "broken_patch_passes"}
    /\ Booleans = {"base_fails", "gold_passes"} \cup Leaks
    /\ Booleans \cap (Lists \cup Counts \cup {"flake_rate"}) = {}
    /\ Lists \cap (Counts \cup {"flake_rate"}) = {}
    /\ "declared_requirements" \notin Longer /\ "declared_requirements" \in Lists
    /\ Longer \subseteq Lists
    /\ Counts = {"rejected_valid_alternatives", "broken_patch_passes", "broken_patch_trials"}
  BY DEF Observations, Fields, Booleans, Lists, Counts, Leaks, Longer, Larger

LEMMA InitDocInv == Init => DocInv
  <1> SUFFICES ASSUME Init PROVE DocInv
    OBVIOUS
  <1> USE DEF Init
  <1>1. \A f \in Booleans : BooleanInv(f)
    BY CleanValues, Kinds DEF BooleanInv
  <1>2. \A f \in Longer : ListInv(f)
    BY CleanValues DEF ListInv, Requirements
  <1>3. \A f \in {"rejected_valid_alternatives", "broken_patch_passes"} : CountInv(f)
    BY CleanValues DEF CountInv, Larger
  <1>4. doc.flake_rate = 0
    BY CleanValues DEF Larger
  <1> QED
    BY <1>1, <1>2, <1>3, <1>4, CleanValues DEF DocInv

\* What "worse" means for each kind of observation.
LEMMA WorseValues ==
    ASSUME DocInv, NEW f \in Observations, NEW w \in Worse(f, doc[f])
    PROVE  /\ Known(f)
           /\ f \in Booleans =>
                 doc[f] = Clean[f] /\ w \in {"true", "false"} /\ w # Clean[f]
           /\ f \in Longer => doc[f] \subseteq w /\ w \subseteq Requirements /\ w # {}
           /\ f = "declared_requirements" => w \subseteq doc[f]
           /\ f = "flake_rate" =>
                 \/ doc[f] = 101 /\ w = Huge
                 \/ w \in {1, 100, 101} /\ w > doc[f]
           /\ f = "broken_patch_trials" => w \in {0, -1} /\ w < doc[f]
           /\ f \in {"rejected_valid_alternatives", "broken_patch_passes"} =>
                 doc[f] = 0 /\ w \in {1, -1}
  <1>1. Known(f)
    BY DEF Worse, Known
  <1>2. CASE f \in Booleans
    <2>1. Worse(f, doc[f]) = IF doc[f] = Clean[f]
              THEN {IF doc[f] = "true" THEN "false" ELSE "true"} ELSE {}
      BY <1>1, <1>2, Kinds DEF Worse, Known
    <2>2. Clean[f] \in {"true", "false"}
      BY <1>2, CleanValues, Kinds
    <2> QED
      BY <1>1, <1>2, <2>1, <2>2, Kinds
  <1>3. CASE f \in Longer
    <2>1. Worse(f, doc[f]) = {doc[f] \cup {r} : r \in Requirements \ doc[f]}
      BY <1>1, <1>3, Kinds DEF Worse, Known, Requirements
    <2>2. doc[f] \subseteq Requirements
      BY <1>1, <1>3 DEF DocInv, ListInv
    <2> QED
      BY <1>1, <1>3, <2>1, <2>2, Kinds
  <1>4. CASE f = "declared_requirements"
    <2>1. Worse(f, doc[f]) = {doc[f] \ {r} : r \in doc[f]}
      BY <1>1, <1>4, Kinds DEF Worse, Known
    <2> QED
      BY <1>1, <1>4, <2>1, Kinds
  <1>5. CASE f = "flake_rate"
    <2>1. Worse(f, doc[f]) = {x \in {1, 100, 101} : x > doc[f]}
              \cup (IF doc[f] = 101 THEN {Huge} ELSE {})
      BY <1>1, <1>5, Kinds DEF Worse, Known
    <2> QED
      BY <1>1, <1>5, <2>1, Kinds
  <1>6. CASE f = "broken_patch_trials"
    <2>1. Worse(f, doc[f]) = {x \in {0, -1} : x < doc[f]}
      BY <1>1, <1>6, Kinds DEF Worse, Known
    <2> QED
      BY <1>1, <1>6, <2>1, Kinds
  <1>7. CASE f \in {"rejected_valid_alternatives", "broken_patch_passes"}
    <2>1. Worse(f, doc[f]) = IF doc[f] = 0 THEN {1, -1} ELSE {}
      BY <1>1, <1>7, Kinds DEF Worse, Known
    <2> QED
      BY <1>1, <1>7, <2>1, Kinds
  <1> QED
    BY <1>2, <1>3, <1>4, <1>5, <1>6, <1>7, Kinds

\* What is said of one observation, by its kind.
FieldInv(f) ==
    /\ f \in Booleans => BooleanInv(f)
    /\ f \in Longer => ListInv(f)
    /\ f = "declared_requirements" => doc[f] \subseteq Requirements
    /\ f = "flake_rate" => doc[f] \in 0 .. 101 /\ (f \in worsened <=> doc[f] # 0)
    /\ f \in {"rejected_valid_alternatives", "broken_patch_passes"} => CountInv(f)
    /\ f = "broken_patch_trials" => doc[f] \in {-1, 0, 1}

LEMMA DocInvByField ==
    DocInv <=> /\ doc = [f \in Fields |-> doc[f]]
               /\ \A f \in Observations : Known(f) => FieldInv(f)
  <1>1. Booleans \cup Longer \cup {"declared_requirements", "flake_rate",
            "rejected_valid_alternatives", "broken_patch_passes", "broken_patch_trials"}
            = Observations
    BY Kinds
  <1> QED
    BY <1>1 DEF DocInv, FieldInv

LEMMA DocInvNext ==
    ASSUME doc' = [f \in Fields |-> doc'[f]],
           \A f \in Observations : (Known(f) => FieldInv(f))'
    PROVE  DocInv'
  <1>1. Booleans \cup Longer \cup {"declared_requirements", "flake_rate",
            "rejected_valid_alternatives", "broken_patch_passes", "broken_patch_trials"}
            = Observations
    BY Kinds
  <1> QED
    BY <1>1 DEF DocInv, FieldInv

\* A change of one field leaves the others as they were.
LEMMA OneField ==
    ASSUME DocInv, NEW f \in Fields, NEW w, doc' = [doc EXCEPT ![f] = w]
    PROVE  /\ doc' = [g \in Fields |-> doc'[g]]
           /\ doc'[f] = w
           /\ \A g \in Fields \ {f} : doc'[g] = doc[g]
  <1>1. doc = [g \in Fields |-> doc[g]]
    BY DEF DocInv
  <1> QED
    BY <1>1

LEMMA FieldFrame ==
    ASSUME NEW g \in Observations, Known(g) => FieldInv(g),
           doc'[g] = doc[g], (g \in worsened)' <=> g \in worsened
    PROVE  (Known(g) => FieldInv(g))'
  BY DEF Known, FieldInv, BooleanInv, ListInv, CountInv

LEMMA WorsenKeeps ==
    ASSUME DocInv, NEW f \in Observations, Worsen(f)
    PROVE  DocInv'
  <1>1. PICK w \in Worse(f, doc[f]) : doc' = [doc EXCEPT ![f] = w]
    BY DEF Worsen
  <1>2. /\ doc' = [g \in Fields |-> doc'[g]] /\ doc'[f] = w
        /\ \A g \in Observations \ {f} : doc'[g] = doc[g]
    BY <1>1, OneField, Kinds
  <1>3. worsened' = worsened \cup {f}
    BY DEF Worsen
  <1>4. \A g \in Observations : Known(g) => FieldInv(g)
    BY DocInvByField
  <1>5. Known(f) /\ FieldInv(f)
    BY <1>4, WorseValues
  <1>6. ASSUME NEW g \in Observations, g # f PROVE (Known(g) => FieldInv(g))'
    BY <1>2, <1>3, <1>4, <1>6, FieldFrame
  <1>7. ASSUME Known(f)' PROVE FieldInv(f)'
    <2>1. f \in worsened' /\ w # Huge
      BY <1>2, <1>3, <1>7 DEF Known
    <2>2. f \in Booleans => BooleanInv(f)'
      BY <1>1, <1>2, <2>1, WorseValues DEF BooleanInv
    <2>3. f \in Longer => ListInv(f)'
      BY <1>1, <1>2, <2>1, WorseValues DEF ListInv
    <2>4. f = "declared_requirements" => doc'[f] \subseteq Requirements
      BY <1>1, <1>2, <1>5, WorseValues DEF FieldInv
    <2>5. f = "flake_rate" => doc'[f] \in 0 .. 101 /\ doc'[f] # 0
      BY <1>1, <1>2, <2>1, WorseValues
    <2>6. f \in {"rejected_valid_alternatives", "broken_patch_passes"} => CountInv(f)'
      BY <1>1, <1>2, <2>1, WorseValues DEF CountInv
    <2>7. f = "broken_patch_trials" => doc'[f] \in {-1, 0, 1}
      BY <1>1, <1>2, WorseValues
    <2> QED
      BY <2>1, <2>2, <2>3, <2>4, <2>5, <2>6, <2>7 DEF FieldInv
  <1>8. \A g \in Observations : (Known(g) => FieldInv(g))'
    BY <1>6, <1>7
  <1> QED
    BY <1>2, <1>8, DocInvNext

LEMMA SpoilKeeps ==
    ASSUME DocInv, Spoil
    PROVE  DocInv'
  <1>1. PICK f \in Fields, w \in {Null, TRUE, "0.2"} :
            /\ doc' = [doc EXCEPT ![f] = w]
            /\ w # Null => f \notin Observations
    <2>1. /\ Observations \cup {"task_id", "schema_version", "unknown_fields"} \subseteq Fields
          /\ {"schema_version", "unknown_fields"} \cap Observations = {}
      BY DEF Fields, Observations, Booleans, Lists, Counts
    <2> QED
      BY <2>1 DEF Spoil
  <1>2. /\ doc' = [g \in Fields |-> doc'[g]] /\ doc'[f] = w
        /\ \A g \in Fields \ {f} : doc'[g] = doc[g]
    BY <1>1, OneField
  <1>3. worsened' = worsened
    BY DEF Spoil
  <1>4. ASSUME NEW g \in Observations PROVE (Known(g) => FieldInv(g))'
    <2>1. CASE g = f
      BY <1>1, <1>2, <2>1 DEF Known
    <2>2. CASE g # f
      <3>1. doc'[g] = doc[g] /\ (Known(g) => FieldInv(g))
        BY <1>2, <2>2, DocInvByField, Kinds
      <3> QED
        BY <1>3, <3>1, FieldFrame
    <2> QED
      BY <2>1, <2>2
  <1> QED
    BY <1>2, <1>4, DocInvNext

LEMMA NextDocInv == DocInv /\ [Next]_vars => DocInv'
  <1> SUFFICES ASSUME DocInv, [Next]_vars PROVE DocInv'
    OBVIOUS
  <1>1. CASE Spoil
    BY <1>1, SpoilKeeps
  <1>2. CASE \E f \in Observations : Worsen(f)
    BY <1>2, WorsenKeeps
  <1>3. CASE UNCHANGED vars
    BY <1>3 DEF vars, DocInv, Known, BooleanInv, ListInv, CountInv
  <1> QED
    BY <1>1, <1>2, <1>3 DEF Next

\* Every observation of the document has one of the values the code tells
\* apart, and is as it was at first unless it has been worsened or lost.
THEOREM DocInvariant == Spec => []DocInv
  BY InitDocInv, NextDocInv, PTL DEF Spec

(***************************************************************************)
(* The findings of a held document                                         *)
(***************************************************************************)
\* An observation of an acceptable document is reported under its code if and
\* only if it has been worsened.
LEMMA ReportedIffWorse ==
    ASSUME DocInv, Acceptable(doc), NEW f \in DOMAIN CodeOf
    PROVE  Findings(doc)[CodeOf[f]] <=> f \in worsened
  <1>1. /\ f \in Observations /\ Known(f)
        /\ f \in (Booleans \cup Longer \cup Larger)
    BY DEF CodeOf, Acceptable, Known, Observations, Booleans, Longer, Lists, Larger, Counts
  <1>2. FieldInv(f)
    BY <1>1, DocInvByField
  <1>3. CASE f \in Booleans
    <2>1. doc[f] \in {"true", "false"} /\ (f \in worsened <=> doc[f] # Clean[f])
      BY <1>2, <1>3 DEF FieldInv, BooleanInv
    <2>2. CASE f \in {"base_fails", "gold_passes"}
      BY <2>1, <2>2, CleanValues, FindingsAre DEF CodeOf
    <2>3. CASE f \in Leaks
      <3>1. f \in worsened <=> doc[f] = "true"
        BY <2>1, <2>3, CleanValues
      <3>2. f \in {"future_history_accessible", "verifier_writable",
                   "network_egress_observed"}
        BY <2>3 DEF Leaks, Booleans
      <3> QED
        BY <3>1, <3>2, FindingsAre DEF CodeOf
    <2> QED
      BY <1>3, <2>2, <2>3, Kinds
  <1>4. CASE f \in Longer
    <2>1. f \in worsened <=> doc[f] # {}
      BY <1>2, <1>4 DEF FieldInv, ListInv
    <2>2. f \in {"oracle_artifacts", "grader_tamper_vectors", "cache_leaks"}
      BY <1>4 DEF Longer, Lists, CodeOf
    <2> QED
      BY <2>1, <2>2, FindingsAre DEF CodeOf
  <1>5. CASE f \in Larger
    <2>1. f \in worsened <=> doc[f] # 0
      BY <1>2, <1>5 DEF FieldInv, CountInv, Larger
    <2>2. f \in {"flake_rate", "rejected_valid_alternatives", "broken_patch_passes"}
      BY <1>5 DEF Larger
    <2> QED
      BY <2>1, <2>2, FindingsAre DEF CodeOf
  <1> QED
    BY <1>1, <1>3, <1>4, <1>5

\* Every code but that of the requirements belongs to one observation.
LEMMA CodesOfObservations ==
    /\ \A f \in DOMAIN CodeOf : CodeOf[f] \in CHECKS \ {"SPEC_TEST_MISMATCH"}
    /\ \A c \in CHECKS \ {"SPEC_TEST_MISMATCH"} : \E f \in DOMAIN CodeOf : CodeOf[f] = c
  BY DEF CodeOf

\* EachProblemReported: a held document is reported for exactly the
\* observations that got worse and for undeclared requirements (falsify).
THEOREM ReportsEachProblem == Spec => []EachProblemReported
  <1>1. DocInv => EachProblemReported
    <2> SUFFICES ASSUME DocInv, Verdict(doc) \in {"ELIGIBLE", "HOLD"}
                 PROVE  EachProblemReported
      BY DEF EachProblemReported
    <2>1. Acceptable(doc)
      BY OnlyAcceptableIsJudged
    <2>2. \A f \in DOMAIN CodeOf : CodeOf[f] \in Codes(doc) <=> f \in worsened
      BY <2>1, ReportedIffWorse, CodesOfObservations DEF Codes
    <2>3. Codes(doc) \subseteq CHECKS
      BY DEF Codes
    <2> HIDE DEF CHECKS
    <2>4. Codes(doc) \ {"SPEC_TEST_MISMATCH"} = {CodeOf[f] : f \in worsened \cap DOMAIN CodeOf}
      BY <2>2, <2>3, CodesOfObservations
    <2>5. "SPEC_TEST_MISMATCH" \in Codes(doc) <=> HiddenRequirements(doc) # {}
      BY FindingsAre DEF Codes, CHECKS
    <2>6. "SPEC_TEST_MISMATCH" \in Codes(doc) <=>
              \E r \in doc.verified_requirements : r \notin doc.declared_requirements
      BY <2>5 DEF HiddenRequirements
    <2> QED
      BY <2>4, <2>6 DEF EachProblemReported
  <1> QED
    BY <1>1, DocInvariant, PTL

(***************************************************************************)
(* A document that gets worse                                              *)
(***************************************************************************)
\* A document that has lost a required value is not acceptable.
LEMMA SpoiltIsInvalid ==
    ASSUME DocInv, Spoil
    PROVE  ~Acceptable(doc')
  <1>1. CASE \E f \in Observations : doc' = [doc EXCEPT ![f] = Null]
    <2>1. PICK f \in Observations : doc' = [doc EXCEPT ![f] = Null]
      BY <1>1
    <2>2. doc'[f] = Null
      BY <2>1, OneField, Kinds
    <2> QED
      BY <2>2 DEF Acceptable
  <1>2. CASE \E f \in {"task_id", "schema_version"}, w \in {Null, "0.2"} :
                  /\ doc' = [doc EXCEPT ![f] = w]
                  /\ f = "task_id" => w = Null
    <2>1. PICK f \in {"task_id", "schema_version"}, w \in {Null, "0.2"} :
              /\ doc' = [doc EXCEPT ![f] = w]
              /\ f = "task_id" => w = Null
      BY <1>2
    <2>2. doc'[f] = w
      BY <2>1, OneField DEF Fields
    <2> QED
      BY <2>1, <2>2, NullIsNoVersion DEF Acceptable
  <1>3. CASE doc' = [doc EXCEPT !.unknown_fields = TRUE]
    <2>1. doc'.unknown_fields = TRUE
      BY <1>3, OneField DEF Fields
    <2> QED
      BY <2>1 DEF Acceptable
  <1> QED
    BY <1>1, <1>2, <1>3 DEF Spoil

\* The numbers of an acceptable document.
LEMMA AcceptableNumbers ==
    ASSUME DocInv, Acceptable(doc)
    PROVE  /\ \A f \in Larger : doc[f] \in Nat
           /\ doc.broken_patch_trials \in Nat
  <1>1. \A f \in Larger \cup {"broken_patch_trials"} : f \in Observations /\ FieldInv(f)
    BY DocInvByField, Kinds DEF Acceptable, Known
  <1>2. \A f \in Counts : doc[f] >= 0
    BY DEF Acceptable
  <1>3. doc.broken_patch_trials \in Nat
    BY <1>1, <1>2, Kinds DEF FieldInv
  <1>4. doc.flake_rate \in Nat
    BY DEF Acceptable
  <1>5. \A f \in {"rejected_valid_alternatives", "broken_patch_passes"} : doc[f] \in Nat
    BY <1>1, <1>2, Kinds DEF FieldInv, CountInv
  <1> QED
    BY <1>3, <1>4, <1>5, Kinds

\* What was acceptable after it got worse was acceptable before, and better.
LEMMA WorsenedWasAcceptable ==
    ASSUME DocInv, NEW f \in Observations, Worsen(f), Acceptable(doc')
    PROVE  Acceptable(doc) /\ NoBetter(doc, doc')
  <1>1. PICK w \in Worse(f, doc[f]) : doc' = [doc EXCEPT ![f] = w]
    BY DEF Worsen
  <1>2. doc'[f] = w /\ \A g \in Fields \ {f} : doc'[g] = doc[g]
    BY <1>1, OneField, Kinds
  <1>3. DocInv'
    BY WorsenKeeps
  <1>4. /\ \A g \in Larger : doc'[g] \in Nat
        /\ doc'.broken_patch_trials \in Nat
    <2>1. /\ \A g \in Larger \cup {"broken_patch_trials"} :
                g \in Observations /\ doc'[g] \notin {Null, Huge}
          /\ \A g \in Counts : doc'[g] >= 0
          /\ doc'.flake_rate \in 0 .. 100
      BY Kinds DEF Acceptable
    <2>2. \A g \in {"rejected_valid_alternatives", "broken_patch_passes",
                    "broken_patch_trials"} : doc'[g] \in {-1, 0, 1}
      BY <1>3, <2>1, Kinds DEF DocInv, Known, CountInv
    <2> QED
      BY <2>1, <2>2, Kinds
  <1>5. Known(f) /\ FieldInv(f)
    BY WorseValues, DocInvByField
  <1>6. Acceptable(doc)
    <2>1. \A g \in {"unknown_fields", "schema_version", "task_id"} : doc'[g] = doc[g]
      <3>1. \A g \in {"unknown_fields", "schema_version", "task_id"} :
                g \in Fields /\ g \notin Observations
        BY DEF Fields, Observations, Booleans, Lists, Counts
      <3> QED
        BY <1>2, <3>1
    <2>2. \A g \in Observations : doc[g] \notin {Null, Huge}
      BY <1>2, <1>5, Kinds DEF Acceptable, Known
    <2>3. doc.flake_rate \in 0 .. 100
      <3>1. CASE f = "flake_rate"
        <4>1. w \in 0 .. 100 /\ w # Huge
          BY <1>2, <3>1, Kinds DEF Acceptable
        <4>2. w > doc[f] /\ doc[f] \in 0 .. 101
          BY <1>5, <3>1, <4>1, WorseValues DEF FieldInv
        <4> QED
          BY <3>1, <4>1, <4>2
      <3>2. CASE f # "flake_rate"
        BY <1>2, <3>2, Kinds DEF Acceptable
      <3> QED
        BY <3>1, <3>2
    <2>4. ASSUME NEW g \in Counts PROVE doc[g] >= 0
      <3>1. CASE g = f
        <4>1. doc[g] \in {-1, 0, 1}
          BY <1>5, <3>1, Kinds DEF FieldInv, CountInv
        <4>2. g # "broken_patch_trials" => doc[g] = 0
          BY <3>1, WorseValues, Kinds
        <4>3. g = "broken_patch_trials" => w \in {0, -1} /\ w < doc[g] /\ w >= 0
          BY <1>2, <3>1, WorseValues, Kinds DEF Acceptable
        <4> QED
          BY <4>1, <4>2, <4>3
      <3>2. CASE g # f
        <4>1. doc'[g] = doc[g] /\ doc'[g] >= 0
          BY <1>2, <3>2, Kinds DEF Acceptable
        <4> QED
          BY <4>1
      <3> QED
        BY <3>1, <3>2
    <2>5. doc.broken_patch_passes <= doc.broken_patch_trials
      <3>1. /\ {"broken_patch_passes", "broken_patch_trials"} \subseteq Observations
            /\ doc'.broken_patch_passes \in Nat /\ doc'.broken_patch_trials \in Nat
            /\ doc'.broken_patch_passes <= doc'.broken_patch_trials
        BY <1>4, Kinds DEF Acceptable
      <3>2. CASE f = "broken_patch_passes"
        BY <1>2, <3>1, <3>2, WorseValues, Kinds
      <3>3. CASE f = "broken_patch_trials"
        <4>1. w < doc.broken_patch_trials /\ doc.broken_patch_trials \in {-1, 0, 1}
          BY <1>5, <3>3, WorseValues DEF FieldInv
        <4>2. w = doc'.broken_patch_trials /\ doc'.broken_patch_passes = doc.broken_patch_passes
          BY <1>2, <3>1, <3>3, Kinds
        <4> QED
          BY <3>1, <4>1, <4>2
      <3>4. CASE f \notin {"broken_patch_passes", "broken_patch_trials"}
        BY <1>2, <3>1, <3>4, Kinds
      <3> QED
        BY <3>2, <3>3, <3>4
    <2> QED
      BY <2>1, <2>2, <2>3, <2>4, <2>5 DEF Acceptable
  <1>7. NoBetter(doc, doc')
    <2>1. ASSUME NEW g \in {"base_fails", "gold_passes"}, doc'[g] = "true"
          PROVE  doc[g] = "true"
      BY <1>2, <2>1, WorseValues, CleanValues, Kinds
    <2>2. ASSUME NEW g \in Leaks, doc[g] = "true" PROVE doc'[g] = "true"
      BY <1>2, <2>2, WorseValues, CleanValues, Kinds
    <2>3. ASSUME NEW g \in Longer PROVE doc[g] \subseteq doc'[g]
      <3>1. g \in Fields
        BY Kinds
      <3>2. CASE g = f
        BY <1>2, <3>2, WorseValues
      <3>3. CASE g # f
        BY <1>2, <3>1, <3>3
      <3> QED
        BY <3>2, <3>3
    <2>4. doc'.declared_requirements \subseteq doc.declared_requirements
      BY <1>2, WorseValues, Kinds
    <2>5. ASSUME NEW g \in Larger
          PROVE  doc[g] \in Nat /\ doc'[g] \in Nat /\ doc[g] <= doc'[g]
      <3>1. doc[g] \in Nat /\ doc'[g] \in Nat
        BY <1>4, <1>6, AcceptableNumbers
      <3>2. CASE g = f
        <4>1. doc'[g] = w /\ w # Huge
          BY <1>2, <3>2 DEF Acceptable
        <4>2. CASE g = "flake_rate"
          BY <3>1, <3>2, <4>1, <4>2, WorseValues
        <4>3. CASE g # "flake_rate"
          BY <3>1, <3>2, <4>3, WorseValues, Kinds
        <4> QED
          BY <4>2, <4>3
      <3>3. CASE g # f
        BY <1>2, <3>1, <3>3, Kinds
      <3> QED
        BY <3>2, <3>3
    <2> QED
      BY <2>1, <2>2, <2>3, <2>4, <2>5 DEF NoBetter
  <1> QED
    BY <1>6, <1>7

\* NeverBetter: however a document gets worse, its verdict never improves, and
\* while it can be judged no finding disappears (validate_evidence_file).
THEOREM WorseIsNeverBetter == Spec => NeverBetter
  <1>1. ASSUME DocInv, Next
        PROVE  /\ Rank(Verdict(doc')) >= Rank(Verdict(doc))
               /\ Verdict(doc') = "HOLD" => Codes(doc) \subseteq Codes(doc')
    <2>1. CASE Acceptable(doc')
      <3>1. PICK f \in Observations : Worsen(f)
        BY <1>1, <2>1, SpoiltIsInvalid DEF Next
      <3>2. Acceptable(doc) /\ NoBetter(doc, doc')
        BY <1>1, <2>1, <3>1, WorsenedWasAcceptable
      <3> QED
        BY <2>1, <3>2, VerdictNeverBetter, FindingsOnlyGrow
    <2>2. CASE ~Acceptable(doc')
      <3>1. Verdict(doc') \in {"overflow", "invalid"}
        BY <2>2 DEF Verdict
      <3>2. Rank(Verdict(doc')) = 2
        BY <3>1 DEF Rank
      <3>3. Rank(Verdict(doc)) \in {0, 1, 2}
        BY DEF Rank
      <3> QED
        BY <3>1, <3>2, <3>3
    <2> QED
      BY <2>1, <2>2
  <1>2. DocInv /\ [Next]_vars =>
            [/\ Rank(Verdict(doc')) >= Rank(Verdict(doc))
             /\ Verdict(doc') = "HOLD" => Codes(doc) \subseteq Codes(doc')]_vars
    BY <1>1
  <1> QED
    BY <1>2, DocInvariant, PTL DEF Spec, NeverBetter
=============================================================================
