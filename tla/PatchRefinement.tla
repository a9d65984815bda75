--------------------------- MODULE PatchRefinement ---------------------------
(***************************************************************************)
(* PatchApply implements PatchContract, for each of its callers: the call  *)
(* is open from the end of the validation to the end of the "finally"      *)
(* block, and what is to do is what os.replace has not moved yet.          *)
(***************************************************************************)
EXTENDS PatchApply

Open == {"staging", "writing", "moding", "replacing", "cleanup"}

\* Was the artifact of the call that was killed wholly validated?
Accepted(p) == artifact[p] # <<>> /\ checked[p] = Len(artifact[p])

CallOf(p) ==
    CASE pc[p] \in Open -> "open"
      [] pc[p] = "finished" /\ outcome[p] = "ok" -> "returned"
      [] pc[p] = "finished" /\ outcome[p] = "failed" -> "raised"
      [] pc[p] = "crashed" /\ Accepted(p) -> "raised"
      [] OTHER -> "idle"

TodoOf(p) ==
    IF CallOf(p) = "idle" THEN <<>> ELSE SubSeq(artifact[p], replaced[p] + 1, Len(artifact[p]))

OthersOf(p) == <<edits, [q \in Procs \ {p} |-> <<calls[q], replaced[q]>>]>>

CONSTANT caller  \* the caller whose contract is looked at

ASSUME CallerIsProc == caller \in Procs

Contract == INSTANCE PatchContract WITH
    todo <- TodoOf(caller), call <- CallOf(caller), others <- OthersOf(caller)

\* The caller is offered what PatchContract promises, whatever fails, whoever
\* else writes to the workspace and whenever it is killed: only a wholly
\* validated artifact is installed, in its order, one allowed file at a time,
\* and the call ends (apply_patch_artifact, agent_boundary.py:353).
ContractSpec == Contract!Spec
=============================================================================
