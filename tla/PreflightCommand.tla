-------------------------- MODULE PreflightCommand --------------------------
(***************************************************************************)
(* What the commands isolation-preflight, docker-isolation-preflight and   *)
(* docker-isolation-plan of src/src/reposeal/__main__.py have in common:   *)
(* they refuse an output directory that exists, obtain a receipt, write it *)
(* to receipt.json, print it and turn it into an exit status.              *)
(***************************************************************************)
EXTENDS IsolationFindings

CONSTANTS Missing, Torn  \* no value or no file, a file that is being written

VARIABLES
    command,   \* the command that was called
    at,        \* where it is
    status,    \* its exit status
    export,    \* the export directory
    response,  \* what the probe answered
    decision,  \* the decision on the export
    findings,  \* the findings of the receipt
    out,       \* receipt.json
    edits      \* changes other programs made
observed == <<export, response, decision>>
preflight == <<command, at, status, observed, findings, out, edits>>

Commands == {"host", "docker", "plan"}

CommandInit ==
    /\ command \in Commands /\ at = "exists" /\ status = Missing
    /\ export = [name \in DOMAIN Exported |-> IF name = "root" THEN "directory" ELSE "absent"]
    /\ response = Missing /\ decision = Missing /\ findings = Missing
    /\ out = Missing /\ edits = 0

Advance(stage) == at' = stage /\ UNCHANGED <<command, status>>
Exit(code_) == at' = "ended" /\ status' = code_ /\ UNCHANGED command

\* The stage each command goes on to when the directory is free.
First == [host |-> "prepare", docker |-> "hash cli", plan |-> "plan"]

CheckOutput ==
    /\ at = "exists"
    /\ Exit(2) \/ Advance(First[command])
    /\ UNCHANGED <<observed, findings, out, edits>>

\* docker_isolation_plan: a receipt that says NOT_RUN, without findings.
MakePlan ==
    /\ at = "plan"
    /\ Advance("open receipt")
    /\ UNCHANGED <<observed, findings, out, edits>>

OpenReceipt ==
    /\ at = "open receipt" /\ out' = Torn
    /\ Advance("write receipt")
    /\ UNCHANGED <<observed, findings, edits>>

WriteReceipt ==
    /\ at = "write receipt" /\ out' = findings
    /\ Advance("print")
    /\ UNCHANGED <<observed, findings, edits>>

\* expected_outcome
Expected ==
    CASE command = "host" -> HarnessPassed(findings) /\ ~SecurityGatePassed(findings)
      [] command = "docker" -> BackendGatePassed(findings) /\ ~SecurityGatePassed(findings)
      [] command = "plan" -> TRUE

PrintReceipt ==
    /\ at = "print"
    /\ Exit(IF Expected THEN 0 ELSE 1)
    /\ UNCHANGED <<observed, findings, out, edits>>

\* An OSError or one of the errors raised on purpose, caught or not.
Fail ==
    /\ at \notin {"ended", "running"} /\ Exit(1)
    /\ UNCHANGED <<observed, findings, out, edits>>
=============================================================================
