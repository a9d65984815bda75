--------------------------- MODULE Falsification ---------------------------
(***************************************************************************)
(* src/src/reposeal/falsification.py: from_dict and __post_init__ decide   *)
(* whether a recorded observation is acceptable, falsify applies the       *)
(* twelve checks to it.                                                    *)
(*                                                                         *)
(* A document is a record with the fields of the evidence schema.  Null    *)
(* stands for a field that is absent, null, blank or of the wrong type,    *)
(* Huge for an integer no float can hold; only schema_version may be       *)
(* absent, which is the same as "0.1".  A list of strings is the set of    *)
(* its items, a task is a number, and flake_rate counts hundredths; every  *)
(* number outside the range stands for NaN and the infinities too.         *)
(***************************************************************************)
EXTENDS Integers

CONSTANTS Null, Huge

ASSUME NullIsNoVersion == Null # "0.1"

Booleans == {"base_fails", "gold_passes", "future_history_accessible",
             "verifier_writable", "network_egress_observed"}
Lists == {"oracle_artifacts", "grader_tamper_vectors", "cache_leaks",
          "declared_requirements", "verified_requirements"}
Counts == {"rejected_valid_alternatives", "broken_patch_passes",
           "broken_patch_trials"}
Observations == Booleans \cup Lists \cup Counts \cup {"flake_rate"}

Fields == Observations \cup {"schema_version", "task_id", "unknown_fields"}

(***************************************************************************)
(* FalsificationEvidence.from_dict and __post_init__                       *)
(***************************************************************************)
\* float() raises OverflowError, which is no ValueError, for an integer that
\* is too large; the fields read before flake_rate may raise first.
Overflows(doc) ==
    /\ ~doc.unknown_fields
    /\ Null \notin {doc.schema_version, doc.task_id, doc.base_fails, doc.gold_passes}
    /\ doc.flake_rate = Huge

\* Every field is given and in range; anything else raises ValueError.
Acceptable(doc) ==
    /\ ~doc.unknown_fields
    /\ doc.schema_version = "0.1" /\ doc.task_id # Null
    /\ \A f \in Observations : doc[f] \notin {Null, Huge}
    /\ doc.flake_rate \in 0 .. 100
    /\ \A f \in Counts : doc[f] >= 0
    /\ doc.broken_patch_passes <= doc.broken_patch_trials

(***************************************************************************)
(* The checks                                                              *)
(***************************************************************************)
CHECKS == {"BASE_NOT_FAILING", "GOLD_NOT_PASSING", "FLAKY_VERIFIER",
           "ORACLE_EXPOSED", "HISTORY_LEAK", "VERIFIER_MUTABLE",
           "NETWORK_POLICY_FAILURE", "GRADER_TAMPER_SURFACE",
           "SPEC_TEST_MISMATCH", "OVERCONSTRAINED_TEST", "UNDERPOWERED_TEST",
           "CACHE_LEAK"}

\* Mutant of HiddenRequirements: the operands are swapped.
UntestedRequirements(doc) == doc.declared_requirements \ doc.verified_requirements

HiddenRequirements(doc) == doc.verified_requirements \ doc.declared_requirements

\* falsify: which of the checks have a finding. A check has at most one, and
\* the list of the findings is in the order of the checks.
Findings(doc) ==
    [BASE_NOT_FAILING |-> doc.base_fails # "true",
     GOLD_NOT_PASSING |-> doc.gold_passes # "true",
     FLAKY_VERIFIER |-> doc.flake_rate # 0,
     ORACLE_EXPOSED |-> doc.oracle_artifacts # {},
     HISTORY_LEAK |-> doc.future_history_accessible = "true",
     VERIFIER_MUTABLE |-> doc.verifier_writable = "true",
     NETWORK_POLICY_FAILURE |-> doc.network_egress_observed = "true",
     GRADER_TAMPER_SURFACE |-> doc.grader_tamper_vectors # {},
     SPEC_TEST_MISMATCH |-> HiddenRequirements(doc) # {},
     OVERCONSTRAINED_TEST |-> doc.rejected_valid_alternatives # 0,
     UNDERPOWERED_TEST |-> doc.broken_patch_passes # 0,
     CACHE_LEAK |-> doc.cache_leaks # {}]

\* FalsificationResult.passed and codes
NoFindings == [code \in CHECKS |-> FALSE]
Codes(doc) == {code \in CHECKS : Findings(doc)[code]}

\* validate_evidence_file on a parsed document.
Verdict(doc) ==
    IF Overflows(doc) THEN "overflow"
    ELSE IF ~Acceptable(doc) THEN "invalid"
    ELSE IF Findings(doc) = NoFindings THEN "ELIGIBLE" ELSE "HOLD"

\* A document without any blocking finding; as a draft, which then would fill
\* unknown observations with favourable values, it is the mutant of Draft.
Favourable(task) ==
    [f \in Fields |-> CASE f = "task_id" -> task
                        [] f = "schema_version" -> "0.1"
                        [] f = "unknown_fields" -> FALSE
                        [] f \in {"base_fails", "gold_passes"} -> "true"
                        [] f \in Booleans \ {"base_fails", "gold_passes"} -> "false"
                        [] f \in Lists -> {}
                        [] OTHER -> 0]

\* write_evidence_draft: the task is named, every observation is null.
Draft(task) ==
    [f \in Fields |-> CASE f = "task_id" -> task
                        [] f = "schema_version" -> "0.1"
                        [] f = "unknown_fields" -> FALSE
                        [] OTHER -> Null]
=============================================================================
