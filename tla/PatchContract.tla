--------------------------- MODULE PatchContract ---------------------------
(***************************************************************************)
(* What apply_patch_artifact of src/src/reposeal/agent_boundary.py         *)
(* promises the caller who waits for it, with nothing said of temporary    *)
(* files, digests or modes: an accepted artifact is installed from its     *)
(* first replacement on, one file at a time, and the call returns when all *)
(* of it is installed or raises before or after.                           *)
(***************************************************************************)
EXTENDS Naturals, Sequences

CONSTANTS Paths,    \* the source files that may exist in the workspace
          Allowed,  \* allowed_paths, the orchestrator's allowlist
          Modes     \* permission bits

VARIABLES files,    \* the workspace: what each path names
          todo,     \* replacements of the accepted artifact not yet installed
          call,     \* "idle", "open", "returned" or "raised"
          others    \* what everybody else has done so far
contract == <<files, todo, call, others>>

Acceptable(artifact) ==
    /\ artifact # <<>>
    /\ \A i \in DOMAIN artifact : artifact[i].path \in Allowed
    /\ \A i, j \in DOMAIN artifact : artifact[i].path = artifact[j].path => i = j

Init == call = "idle" /\ todo = <<>>

Accept == /\ call = "idle" /\ call' = "open" /\ Acceptable(todo')
          /\ UNCHANGED <<files, others>>

\* The new content under some mode; no other file is touched.
Install ==
    /\ call = "open" /\ todo # <<>> /\ todo' = Tail(todo)
    /\ \E m \in Modes : files' = [files EXCEPT ![Head(todo).path] =
                                     [content |-> Head(todo).content, mode |-> m]]
    /\ UNCHANGED <<call, others>>

Return == /\ call = "open" /\ todo = <<>> /\ call' = "returned"
          /\ UNCHANGED <<files, todo, others>>

Raise == /\ call = "open" /\ call' = "raised"
         /\ UNCHANGED <<files, todo, others>>

Again == /\ call \in {"returned", "raised"} /\ call' = "idle" /\ todo' = <<>>
         /\ UNCHANGED <<files, others>>

\* Others may do anything to the files, nothing to the call.
Elsewhere == others' # others /\ UNCHANGED <<todo, call>>

Next == Accept \/ Install \/ Return \/ Raise \/ Again \/ Elsewhere

Spec == Init /\ [][Next]_contract /\ WF_contract(Return \/ Raise)
=============================================================================
