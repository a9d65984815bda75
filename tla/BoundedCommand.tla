--------------------------- MODULE BoundedCommand ---------------------------
(***************************************************************************)
(* What _run_bounded_command of src/src/reposeal/docker_backend.py         *)
(* promises its caller: a child writes to its two streams and the call     *)
(* ends once, either with an error or with everything the child ever       *)
(* wrote, which is then within the limit.                                  *)
(***************************************************************************)
EXTENDS Naturals

CONSTANT MaxOutput  \* max_output_bytes

VARIABLES stage,    \* "idle", "open", "returned" or "raised"
          written,  \* how much the child has written to each stream
          kept      \* how much of it the caller has been given
contract == <<stage, written, kept>>

Streams == {"stdout", "stderr"}
Total(amount) == amount["stdout"] + amount["stderr"]

Init == /\ stage = "idle"
        /\ written = [s \in Streams |-> 0]
        /\ kept = [s \in Streams |-> 0]

\* The call begins, or fails to; it need not be made.
Begin == /\ stage = "idle" /\ stage' \in {"open", "raised"}
         /\ UNCHANGED <<written, kept>>

\* The child may go on writing after an error, never after a result.
Write == /\ stage \in {"open", "raised"}
         /\ \E s \in Streams : written' = [written EXCEPT ![s] = @ + 1]
         /\ UNCHANGED <<stage, kept>>

Return == /\ stage = "open" /\ Total(written) <= MaxOutput
          /\ stage' = "returned" /\ kept' = written
          /\ UNCHANGED written

Raise == /\ stage = "open" /\ stage' = "raised"
         /\ UNCHANGED <<written, kept>>

Next == Begin \/ Write \/ Return \/ Raise

\* A call that began ends whatever the child does.
Spec == Init /\ [][Next]_contract /\ WF_contract(Return \/ Raise)
=============================================================================
