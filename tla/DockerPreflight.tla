-------------------------- MODULE DockerPreflight --------------------------
(***************************************************************************)
(* run_docker_isolation_preflight of src/src/reposeal/docker_backend.py:   *)
(* what it inspects, copies and compares before the controlled probe runs, *)
(* the run itself (ProbeRun), and what it compares and judges afterwards.  *)
(* Another program may meanwhile change the Docker CLI, the probe of the   *)
(* package or the copy of it the container mounts.                         *)
(***************************************************************************)
EXTENDS PreflightCommand, ProbeRun

VARIABLES
    metadata,  \* what image and engine report of themselves
    files,     \* the content of the CLI, the probe and its trusted copy
    expected,  \* the digests taken of the CLI and the probe
    ran        \* the CLI contents used for inspections and the run, and the
               \* probe content the container started with
docker == <<metadata, files, expected, ran>>

FileNames == {"cli", "probe", "copy"}
Contents == {"shipped", "other"}

\* Image and engine as the policy wants them, and with one thing different.
\* An engine architecture is the name the engine reports.
Favourable ==
    [image_os |-> "linux", image_architecture |-> "amd64", environment_keys |-> "policy",
     engine_os |-> "linux", engine_architecture |-> "amd64",
     version |-> [parses |-> TRUE, major |-> 29, minor |-> 4, patch |-> 3],
     options |-> {"apparmor", "seccomp", "cgroupns"},
     cgroup_version |-> "2", storage_driver |-> "overlay2"]

Newer == [Favourable EXCEPT !.version.minor = 5, !.version.patch = 0]

Metadata ==
    {Favourable, Newer,
     [Favourable EXCEPT !.image_os = "windows"],
     [Favourable EXCEPT !.environment_keys = "other"],
     [Favourable EXCEPT !.image_architecture = "arm64"],
     [Favourable EXCEPT !.engine_os = "windows"],
     [Favourable EXCEPT !.version.patch = 2],
     [Favourable EXCEPT !.version.major = 30],
     [Favourable EXCEPT !.version.parses = FALSE],
     [Favourable EXCEPT !.options = @ \ {"apparmor"}],
     [Favourable EXCEPT !.options = @ \ {"seccomp"}],
     [Favourable EXCEPT !.options = @ \ {"cgroupns"}],
     [Favourable EXCEPT !.cgroup_version = "1"],
     [Favourable EXCEPT !.storage_driver = ""]}

\* What the probe answers where the policy is enforced.
Confirming ==
    [field \in ResponseFields |->
        CASE field \in Digests -> "null"
          [] field \in Flags -> IF field = "workspace_write_succeeded" THEN "true" ELSE "false"
          [] field \in Mounts -> IF field \in {"workspace_mount_read_only",
                                               "export_mount_read_only"}
                                 THEN "false" ELSE "true"
          [] OTHER -> "policy"]

\* Bound: an answer differs from Confirming in at most one field.
Responses ==
    UNION {{[Confirming EXCEPT ![field] = value] : value \in Typed(field) \cup {"malformed"}} :
              field \in ResponseFields}

\* Bound: the export differs from what the probe leaves in at most one entry.
Exports ==
    {Exported} \cup {[Exported EXCEPT ![name] = kind] :
                        name \in DOMAIN Exported, kind \in EntryKinds}

DockerInit ==
    /\ Init
    /\ metadata \in Metadata
    /\ files = [f \in FileNames |-> IF f = "copy" THEN Missing ELSE "shipped"]
    /\ expected = [cli |-> Missing, probe |-> Missing]
    /\ ran = [cli |-> {}, probe |-> Missing]

(***************************************************************************)
(* Before the run                                                          *)
(***************************************************************************)
HashCli ==
    /\ at = "hash cli" /\ expected' = [expected EXCEPT !.cli = files["cli"]]
    /\ Advance("endpoint")
    /\ UNCHANGED <<observed, findings, out, edits, vars, metadata, files, ran>>

UsesCli == ran' = [ran EXCEPT !.cli = @ \cup {files["cli"]}]

\* The context, the image, the version and the information of the engine are
\* asked for with one call of the CLI each; image and engine are judged only
\* once all of them have answered, but for the image's system.
Inspections == <<"endpoint", "image", "engine version", "engine info", "accept engine">>

Inspect ==
    /\ \E i \in 1 .. 4 :
          /\ at = Inspections[i]
          /\ IF Inspections[i] = "image" /\ metadata.image_os # "linux"
               THEN Exit(1) ELSE Advance(Inspections[i + 1])
    /\ UsesCli
    /\ UNCHANGED <<observed, findings, out, edits, vars, metadata, files, expected>>

AcceptEngine ==
    /\ at = "accept engine"
    /\ IF /\ EngineVersionSupported(metadata.version)
          /\ EngineLsmSupported(metadata.engine_architecture, metadata.options)
          /\ metadata.image_architecture = metadata.engine_architecture
         THEN Advance("copy probe") ELSE Exit(1)
    /\ UNCHANGED <<observed, findings, out, edits, vars, docker>>

\* The directories are made first; a probe that can not be copied is a Fail.
CopyProbe ==
    /\ at = "copy probe" /\ files' = [files EXCEPT !["copy"] = files["probe"]]
    /\ Advance("hash probe")
    /\ UNCHANGED <<observed, findings, out, edits, vars, metadata, expected, ran>>

HashProbe ==
    /\ at = "hash probe" /\ expected' = [expected EXCEPT !.probe = files["probe"]]
    /\ Advance("compare copy")
    /\ UNCHANGED <<observed, findings, out, edits, vars, metadata, files, ran>>

CompareCopy ==
    /\ at = "compare copy"
    /\ IF files["copy"] = expected.probe THEN Advance("running") ELSE Exit(1)
    /\ UNCHANGED <<observed, findings, out, edits, vars, docker>>

(***************************************************************************)
(* The run                                                                 *)
(***************************************************************************)
\* A step of the call of _run_bounded_command and its cleanup.
Supervise ==
    /\ at = "running" /\ Supervision
    /\ IF pc = "starting" THEN UsesCli ELSE UNCHANGED ran
    /\ UNCHANGED <<preflight, metadata, files, expected>>

InterruptRun ==
    /\ at \in {"running", "parse", "export", "observe", "check cli"} /\ Interrupt
    /\ UNCHANGED <<preflight, docker>>

\* A step of the CLI, the daemon or the container, which also goes on when
\* the command has ended.  A container that starts reads the mounted copy.
Surroundings ==
    /\ Environment
    /\ ran' = IF container' = "running" /\ container # "running"
                THEN [ran EXCEPT !.probe = files["copy"]] ELSE ran
    /\ UNCHANGED <<preflight, metadata, files, expected>>

TimePasses == DeadlineExpires /\ UNCHANGED <<preflight, docker>>

\* What the call raised ends the command.
Raised ==
    /\ at \in {"running", "parse", "export", "observe", "check cli"} /\ pc = "ended"
    /\ Exit(1)
    /\ UNCHANGED <<observed, findings, out, edits, vars, docker>>

(***************************************************************************)
(* After the run                                                           *)
(***************************************************************************)
Invalid == Validate /\ outcome' = "invalid" /\ Exit(1)

\* The command was successful; the container left its export.
LeaveRun ==
    /\ at = "running" /\ pc = "validating"
    /\ export' \in Exports /\ Advance("parse")
    /\ UNCHANGED <<response, decision, findings, out, edits, vars, docker>>

\* IsolationProbeError for an empty answer or one field of a wrong type.
ParseResponse ==
    /\ at = "parse" /\ pc = "validating"
    /\ response' \in IF export = Exported /\ metadata = Favourable
                       THEN Responses ELSE {Confirming}
    /\ IF Parses(response') /\ kept["stdout"] > 0
         THEN Advance("export") /\ UNCHANGED vars ELSE Invalid
    /\ UNCHANGED <<export, decision, findings, out, edits, docker>>

JudgeExport ==
    /\ at = "export" /\ pc = "validating"
    /\ decision' = ExportDecision(export) /\ Advance("observe")
    /\ UNCHANGED <<export, response, findings, out, edits, vars, docker>>

Observe ==
    /\ at = "observe" /\ pc = "validating"
    /\ findings' = DockerFindings(response, metadata, decision,
                                  files["copy"] = expected.probe)
    /\ Advance("check cli")
    /\ UNCHANGED <<observed, out, edits, vars, docker>>

\* Mutant of CheckCli: the CLI is not hashed again.
TrustCli ==
    /\ at = "check cli" /\ pc = "validating"
    /\ Validate /\ outcome' = "receipt" /\ Advance("open receipt")
    /\ UNCHANGED <<observed, findings, out, edits, docker>>

CheckCli ==
    /\ at = "check cli" /\ pc = "validating"
    /\ IF files["cli"] = expected.cli
         THEN Validate /\ outcome' = "receipt" /\ Advance("open receipt")
         ELSE Invalid
    /\ UNCHANGED <<observed, findings, out, edits, docker>>

DockerStep == \/ HashCli \/ Inspect \/ AcceptEngine
              \/ CopyProbe \/ HashProbe \/ CompareCopy
              \/ Supervise \/ Raised \/ LeaveRun
              \/ ParseResponse \/ JudgeExport \/ Observe \/ CheckCli

\* Another program changes a file, or changes it back; the probe of the
\* package matters only until it has been hashed.
DockerEdit ==
    /\ at \notin {"exists", "open receipt", "write receipt", "print", "ended"}
    /\ edits' = edits + 1
    /\ \E f \in FileNames :
          /\ files[f] # Missing /\ (f = "probe" => expected.probe = Missing)
          /\ files' = [files EXCEPT ![f] = CHOOSE c \in Contents : c # @]
    /\ UNCHANGED <<command, at, status, observed, findings, out, vars, metadata, expected, ran>>
=============================================================================
