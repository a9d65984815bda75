------------------------------ MODULE ProbeRun ------------------------------
(***************************************************************************)
(* One controlled Docker probe: run_docker_isolation_preflight and the     *)
(* helpers it starts, feeds, reads, kills and cleans up with, in           *)
(* src/src/reposeal/docker_backend.py.                                     *)
(*                                                                         *)
(* The Docker CLI, the daemon and the container are external.  They run    *)
(* concurrently with the caller: the CLI asks the daemon to create and     *)
(* start the container, a request it has sent is carried out even when the *)
(* CLI is dead, and "rm --force" is one more request.                      *)
(***************************************************************************)
EXTENDS Naturals

CONSTANTS
    MaxOutput,   \* max_output_bytes, in units of output
    ReadSize,    \* what one os.read takes at most
    PipeSize,    \* what a pipe holds
    MaxWritten   \* bound: units the CLI writes to one stream

ASSUME ProbeConstants ==
    /\ MaxOutput \in Nat /\ MaxWritten \in Nat
    /\ ReadSize \in Nat \ {0} /\ PipeSize \in Nat \ {0}

Streams == {"stdout", "stderr"}

VARIABLES
    pc,          \* where the caller is
    outcome,     \* how the call ended
    cli,         \* "none", "running", "closing" (descriptors closed), "dying", "exited"
    code,        \* the exit status of the CLI: "zero" or "nonzero"
    request,     \* the request of the CLI the daemon has not carried out
    asked,       \* requests the CLI has sent: 0 none, 1 create, 2 start too
    container,   \* "absent", "created", "running", "exited"
    rm,          \* the removal: "none", "sent", "done"
    written,     \* units the CLI has written to each stream
    kept,        \* units collected from each stream
    open,        \* streams still registered with the selector
    expired,     \* has the wall-clock deadline passed?
    returned,    \* did _run_bounded_command return a result?
    signalled    \* was the CLI's process group sent SIGKILL?

caller == <<pc, outcome, kept, open, returned, signalled>>
child == <<cli, code, asked, written>>
daemon == <<request, container>>
vars == <<caller, child, daemon, rm, expired>>

InCall == {"feeding", "reading", "waiting", "killing"}
Stages == InCall \cup {"starting", "checking", "validating", "removing", "ended"}
Total(amount) == amount["stdout"] + amount["stderr"]
Piped(s) == written[s] - kept[s]
Least(m, n) == IF m <= n THEN m ELSE n

Init ==
    /\ pc = "starting" /\ outcome = "none"
    /\ cli = "none" /\ code = "zero" /\ asked = 0
    /\ request = "none" /\ container = "absent" /\ rm = "none"
    /\ written = [s \in Streams |-> 0] /\ kept = [s \in Streams |-> 0]
    /\ open = Streams
    /\ expired = FALSE /\ returned = FALSE /\ signalled = FALSE

(***************************************************************************)
(* The caller                                                              *)
(***************************************************************************)
Goto(stage) == pc' = stage
\* An exception of _run_bounded_command, or a status other than zero.
CleansUp(why) == Goto("removing") /\ outcome' = why
Ends(how) == Goto("ended") /\ outcome' = how

\* subprocess.Popen, in a session of its own; OSError is handled like any
\* other exception.
Spawn ==
    /\ pc = "starting"
    /\ \/ Goto("feeding") /\ cli' = "running" /\ UNCHANGED outcome
       \/ CleansUp("unavailable") /\ UNCHANGED cli
    /\ UNCHANGED <<code, asked, written, kept, open, returned, signalled, daemon, rm, expired>>

\* stdin.write only fills the buffer; stdin.close flushes it, outside the
\* "except BrokenPipeError", so a CLI that is gone already makes it raise.
Feed ==
    /\ pc = "feeding"
    /\ IF cli = "running" THEN Goto("reading") /\ UNCHANGED outcome
                          ELSE CleansUp("broken pipe")
    /\ UNCHANGED <<kept, open, returned, signalled, child, daemon, rm, expired>>

\* Mutant of Kill: the error is raised without killing the CLI.
NoKill == UNCHANGED <<signalled, cli>>

\* _kill_process_group: SIGKILL, then wait at most two seconds.
Kill == /\ signalled' = TRUE
        /\ cli' = IF cli = "exited" THEN cli ELSE "dying"

\* The loop looks at the clock before it looks at the streams.
DeadlinePassed ==
    /\ pc = "reading" /\ open # {} /\ expired
    /\ Kill /\ Goto("killing") /\ outcome' = "timeout"
    /\ UNCHANGED <<code, asked, written, kept, open, returned, daemon, rm, expired>>

\* Mutant of AtEnd: a CLI that has exited has nothing left to read.
ExitIsEnd(s) == cli \in {"closing", "exited"}

\* Mutant of Available: os.read always fills its buffer.
FullRead(s) == ReadSize

\* os.read of a stream the selector reports: some output, or its end.
Available(s) == Least(Piped(s), ReadSize)
AtEnd(s) == Piped(s) = 0 /\ cli \in {"closing", "exited"}

ReadChunk ==
    /\ pc = "reading"
    /\ \E s \in open :
          /\ Available(s) > 0
          /\ IF Total(kept) + Available(s) > MaxOutput
               THEN /\ Kill /\ Goto("killing") /\ outcome' = "overflow"
                    /\ UNCHANGED kept
               ELSE /\ kept' = [kept EXCEPT ![s] = @ + Available(s)]
                    /\ UNCHANGED <<pc, outcome, cli, signalled>>
    /\ UNCHANGED <<code, asked, written, open, returned, daemon, rm, expired>>

ReadEnd ==
    /\ pc = "reading"
    /\ \E s \in open : AtEnd(s) /\ open' = open \ {s}
    /\ UNCHANGED <<pc, outcome, kept, returned, signalled, child, daemon, rm, expired>>

LeaveLoop ==
    /\ pc = "reading" /\ open = {}
    /\ Goto("waiting")
    /\ UNCHANGED <<outcome, kept, open, returned, signalled, child, daemon, rm, expired>>

\* process.wait(timeout=remaining): the status, or SIGKILL at the deadline.
WaitForExit ==
    /\ pc = "waiting"
    /\ \/ /\ cli = "exited" /\ returned' = TRUE /\ Goto("checking")
          /\ UNCHANGED <<outcome, cli, signalled>>
       \/ /\ cli # "exited" /\ expired /\ Kill /\ Goto("killing")
          /\ outcome' = "timeout" /\ UNCHANGED returned
    /\ UNCHANGED <<code, asked, written, kept, open, daemon, rm, expired>>

\* Mutant of Killed: process.wait() has no timeout.
WaitForDeath ==
    /\ pc = "killing" /\ cli = "exited"
    /\ Goto("removing")
    /\ UNCHANGED <<outcome, kept, open, returned, signalled, child, daemon, rm, expired>>

\* process.wait(timeout=2): the CLI is reaped, or not yet; both are ignored.
Killed ==
    /\ pc = "killing"
    /\ Goto("removing")
    /\ UNCHANGED <<outcome, kept, open, returned, signalled, child, daemon, rm, expired>>

\* Mutant of CheckStatus: the exit status is not looked at.
AnyStatus ==
    /\ pc = "checking" /\ Goto("validating")
    /\ UNCHANGED <<outcome, kept, open, returned, signalled, child, daemon, rm, expired>>

CheckStatus ==
    /\ pc = "checking"
    /\ IF code = "zero" THEN Goto("validating") /\ UNCHANGED outcome
                        ELSE CleansUp("exit status")
    /\ UNCHANGED <<kept, open, returned, signalled, child, daemon, rm, expired>>

\* parse_probe_response, evaluate_export, the findings and the digest of the
\* CLI; what they raise is not followed by a removal.
Validate ==
    /\ pc = "validating"
    /\ Ends("receipt") \/ Ends("invalid")
    /\ UNCHANGED <<kept, open, returned, signalled, child, daemon, rm, expired>>

\* _force_remove_container: the daemon answers, or OSError or the timeout of
\* ten seconds is swallowed, with or without a request on its way.
SendRemove ==
    /\ pc = "removing" /\ rm = "none"
    /\ \/ rm' = "sent" /\ UNCHANGED pc
       \/ Goto("ended") /\ UNCHANGED rm
    /\ UNCHANGED <<outcome, kept, open, returned, signalled, child, daemon, expired>>

RemoveReturns ==
    /\ pc = "removing" /\ rm # "none"
    /\ Goto("ended")
    /\ UNCHANGED <<outcome, kept, open, returned, signalled, child, daemon, rm, expired>>

\* KeyboardInterrupt is no Exception: nothing is killed or removed.
Interrupt ==
    /\ pc \in Stages \ {"starting", "ended"}
    /\ Ends("interrupted")
    /\ UNCHANGED <<kept, open, returned, signalled, child, daemon, rm, expired>>

(***************************************************************************)
(* The Docker CLI                                                          *)
(***************************************************************************)
CliAsks ==
    /\ cli = "running" /\ request = "none"
    /\ \/ asked = 0 /\ request' = "create" /\ asked' = 1
       \/ asked = 1 /\ container = "created" /\ request' = "start" /\ asked' = 2
    /\ UNCHANGED <<caller, cli, code, written, container, rm, expired>>

\* It writes what the container prints, or an error of its own.
CliWrites ==
    /\ cli = "running"
    /\ \E s \in Streams :
          /\ Piped(s) < PipeSize /\ written[s] < MaxWritten
          /\ written' = [written EXCEPT ![s] = @ + 1]
    /\ UNCHANGED <<caller, cli, code, asked, daemon, rm, expired>>

\* It exits with the container's status once that has exited, or with an
\* error at any time; its descriptors close first.
CliExits ==
    \/ /\ cli = "running"
       /\ \/ code' = "zero" /\ asked = 2 /\ request = "none" /\ container = "exited"
          \/ code' = "nonzero"
       /\ cli' = "closing"
       /\ UNCHANGED <<caller, asked, written, daemon, rm, expired>>
    \/ /\ cli = "closing" /\ cli' = "exited"
       /\ UNCHANGED <<caller, code, asked, written, daemon, rm, expired>>
    \/ /\ cli = "dying" /\ cli' = "exited" /\ code' = "nonzero"
       /\ UNCHANGED <<caller, asked, written, daemon, rm, expired>>

(***************************************************************************)
(* The daemon, the container and the clock                                 *)
(***************************************************************************)
DaemonActs ==
    /\ request # "none" /\ request' = "none"
    /\ container' = CASE request = "create" -> "created"
                      [] request = "start" /\ container = "created" -> "running"
                      [] OTHER -> container
    /\ UNCHANGED <<caller, child, rm, expired>>

\* "docker rm --force" kills and removes the container of that name.
DaemonRemoves ==
    /\ rm = "sent" /\ rm' = "done"
    /\ container' = "absent"
    /\ UNCHANGED <<caller, child, request, expired>>

ContainerExits ==
    /\ container = "running" /\ container' = "exited"
    /\ UNCHANGED <<caller, child, request, rm, expired>>

\* The deadline is set when reading begins.
DeadlineExpires ==
    /\ pc \in {"reading", "waiting"} /\ ~expired
    /\ expired' = TRUE
    /\ UNCHANGED <<caller, child, daemon, rm>>

\* _run_bounded_command, the check of its status and the removal.
Supervision == \/ Spawn \/ Feed \/ DeadlinePassed \/ ReadChunk \/ ReadEnd
               \/ LeaveLoop \/ WaitForExit \/ Killed \/ CheckStatus
               \/ SendRemove \/ RemoveReturns

\* The CLI, the daemon and the container.
Environment == \/ CliAsks \/ CliWrites \/ CliExits
               \/ DaemonActs \/ DaemonRemoves \/ ContainerExits

(***************************************************************************)
(* Properties                                                              *)
(***************************************************************************)
\* Every variable has its type, and no more is collected than was written.
TypeOK ==
    /\ pc \in Stages
    /\ outcome \in {"none", "unavailable", "broken pipe", "timeout", "overflow",
                    "exit status", "invalid", "receipt", "interrupted"}
    /\ cli \in {"none", "running", "closing", "dying", "exited"}
    /\ code \in {"zero", "nonzero"} /\ asked \in {0, 1, 2}
    /\ request \in {"none", "create", "start"}
    /\ container \in {"absent", "created", "running", "exited"}
    /\ rm \in {"none", "sent", "done"}
    /\ written \in [Streams -> 0 .. MaxWritten] /\ kept \in [Streams -> 0 .. MaxWritten]
    /\ \A s \in Streams : kept[s] <= written[s] /\ Piped(s) <= PipeSize
    /\ Total(kept) <= MaxOutput
    /\ open \subseteq Streams
    /\ expired \in BOOLEAN /\ returned \in BOOLEAN /\ signalled \in BOOLEAN

\* The result of the command is all its output and within the limit, and the
\* call ends at the deadline whatever the CLI does (tests/test_docker_backend.py,
\* test_streaming_output_and_wall_time_are_actively_bounded).
Contract == INSTANCE BoundedCommand WITH
    stage <- IF returned THEN "returned"
             ELSE IF pc = "starting" THEN "idle"
             ELSE IF pc \in {"feeding", "reading", "waiting"} THEN "open"
             ELSE "raised",
    kept <- IF returned THEN kept ELSE [s \in Streams |-> 0]
ContractSpec == Contract!Spec

\* What the caller has left to do, as an upper bound on its steps: every unit of
\* output may need an os.read of its own, every stream one more for its end.
CallLeft ==
    CASE pc = "starting" -> 7
      [] pc = "feeding" -> 6
      [] pc = "reading" -> 5
      [] pc = "waiting" -> 4
      [] pc \in {"killing", "checking"} -> 3
      [] pc = "removing" -> IF rm = "none" THEN 2 ELSE 1
      [] pc = "validating" -> 1
      [] pc = "ended" -> 0

OpenStreams == Total([s \in Streams |-> IF s \in open THEN 1 ELSE 0])
RunLeft == (MaxOutput - Total(kept)) + OpenStreams + CallLeft

\* docs/security/m2b-internal-review-2026-08-10.md:27, SR-009: the container
\* has exited, and can not come back, before its export is validated.
ContainerStopsFirst ==
    pc = "validating" => /\ container = "exited" /\ request = "none"
                         /\ cli = "exited"

\* A call that ended, otherwise than by an interrupt, leaves nothing running
\* once its removal was carried out, even if the CLI was killed with a request
\* to create or start the container on its way.
NothingLeftRunning ==
    pc = "ended" /\ outcome # "interrupted" =>
        /\ cli # "running"
        /\ rm = "done" \/ outcome \in {"receipt", "invalid"} => container # "running"
=============================================================================
