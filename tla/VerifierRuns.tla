---------------------------- MODULE VerifierRuns ----------------------------
(***************************************************************************)
(* What controlled-replay and controlled-agent-replay share: the tasks of  *)
(* src/src/reposeal/controlled.py, the workspaces extracted for them and   *)
(* the runs of the staged verifier (replay.py).  The module toycalc.py is  *)
(* the set of its repaired functions, task k being about function k; a     *)
(* digest is what it is computed from.                                     *)
(***************************************************************************)
EXTENDS Naturals

CONSTANTS
    NumTasks,   \* tasks in TASK_DEFINITIONS
    Missing,    \* no such file
    Torn        \* an empty file, or one that is written by two at once

ASSUME TaskCount == NumTasks \in Nat \ {0}

Tasks == 1 .. NumTasks
Repetitions == 2
Modules == (SUBSET Tasks) \cup {Torn}
Verifiers == {"good", "other", Torn}

ASSUME TornIsNoModule == \A m \in SUBSET Tasks : m # Torn

\* What a workspace holds besides the module.
Extras == {"none", "git", "stray", "link"}
Workspaces == [module : Modules, extra : Extras]

\* The functions that are repaired before the n-th fix is committed.
Repaired(n) == 1 .. n

\* The answers of a verifier about a module: a torn one answers nothing that
\* parses, one that was replaced may answer anything.
Answers(verifier, module, k) ==
    CASE verifier = "other" -> {"pass", "fail"}
      [] verifier = "good" ->
            IF module = Torn THEN {"exception"}
            ELSE IF k \in module THEN {"pass"} ELSE {"fail"}
      [] OTHER -> {}

Identical(runs) == \A i \in DOMAIN runs : runs[i] = runs[1]

\* A change of one thing: the module, or what else the workspace holds.
Altered(w, v) == (v.module # w.module) # (v.extra # w.extra)
=============================================================================
