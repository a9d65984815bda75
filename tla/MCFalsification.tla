-------------------------- MODULE MCFalsification --------------------------
(***************************************************************************)
(* The decision on one document while its observations get worse, one at a *)
(* time, from a document without any blocking finding.                     *)
(***************************************************************************)
EXTENDS Falsification

CONSTANT MaxSteps  \* bound: changes made to the document

VARIABLES doc,      \* the document
          worsened, \* observations that are worse than in the first document
          steps     \* changes made
vars == <<doc, worsened, steps>>

Clean == [Favourable(1) EXCEPT !.declared_requirements = {"r", "s"},
                               !.broken_patch_trials = 1]

\* The values that are one step worse than a value of an observation.
Worse(f, v) ==
    IF v \in {Null, Huge} THEN {} ELSE
    CASE f \in Booleans -> IF v = Clean[f] THEN {IF v = "true" THEN "false" ELSE "true"} ELSE {}
      [] f = "flake_rate" -> {w \in {1, 100, 101} : w > v} \cup (IF v = 101 THEN {Huge} ELSE {})
      [] f = "declared_requirements" -> {v \ {r} : r \in v}
      [] f \in Lists \ {"declared_requirements"} -> {v \cup {r} : r \in {"r", "s"} \ v}
      [] f = "broken_patch_trials" -> {w \in {0, -1} : w < v}
      [] f \in {"rejected_valid_alternatives", "broken_patch_passes"} ->
            IF v = 0 THEN {1, -1} ELSE {}

Init == doc = Clean /\ worsened = {} /\ steps = 0

Worsen(f) ==
    /\ steps < MaxSteps /\ steps' = steps + 1
    /\ \E w \in Worse(f, doc[f]) : doc' = [doc EXCEPT ![f] = w]
    /\ worsened' = worsened \cup {f}

\* A required value is lost, or a field nobody knows is added.
Spoil ==
    /\ steps < MaxSteps /\ steps' = steps + 1
    /\ \/ \E f \in Observations \cup {"task_id", "schema_version"} :
              doc' = [doc EXCEPT ![f] = Null]
       \/ doc' = [doc EXCEPT !.unknown_fields = TRUE]
       \/ doc' = [doc EXCEPT !.schema_version = "0.2"]
    /\ UNCHANGED worsened

Next == Spoil \/ \E f \in Observations : Worsen(f)
Spec == Init /\ [][Next]_vars

Rank(verdict) == CASE verdict = "ELIGIBLE" -> 0 [] verdict = "HOLD" -> 1 [] OTHER -> 2

\* The check an observation belongs to.
CodeOf == [base_fails |-> "BASE_NOT_FAILING", gold_passes |-> "GOLD_NOT_PASSING",
    flake_rate |-> "FLAKY_VERIFIER", oracle_artifacts |-> "ORACLE_EXPOSED",
    future_history_accessible |-> "HISTORY_LEAK",
    verifier_writable |-> "VERIFIER_MUTABLE",
    network_egress_observed |-> "NETWORK_POLICY_FAILURE",
    grader_tamper_vectors |-> "GRADER_TAMPER_SURFACE",
    rejected_valid_alternatives |-> "OVERCONSTRAINED_TEST",
    broken_patch_passes |-> "UNDERPOWERED_TEST", cache_leaks |-> "CACHE_LEAK"]

\* A document that gets worse, or loses a field, is never judged better, and
\* no finding disappears while the document stays acceptable
\* (docs/adr/0004-mvp-closure.md:18: whatever is missing or malformed fails closed).
NeverBetter ==
    [][/\ Rank(Verdict(doc')) >= Rank(Verdict(doc))
       /\ Verdict(doc') = "HOLD" => Codes(doc) \subseteq Codes(doc')]_vars

\* The findings of a held document are those of the observations that got
\* worse, each under its own code, plus the requirements that are
\* enforced without having been declared.
EachProblemReported ==
    Verdict(doc) \in {"ELIGIBLE", "HOLD"} =>
        /\ Codes(doc) \ {"SPEC_TEST_MISMATCH"} = {CodeOf[f] : f \in worsened \cap DOMAIN CodeOf}
        /\ "SPEC_TEST_MISMATCH" \in Codes(doc) <=>
              \E r \in doc.verified_requirements : r \notin doc.declared_requirements
=============================================================================
