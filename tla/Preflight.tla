------------------------------ MODULE Preflight ------------------------------
(***************************************************************************)
(* The isolation commands of the command line: the host preflight, the     *)
(* Docker preflight with its controlled probe run, and the Docker plan.    *)
(***************************************************************************)
EXTENDS HostPreflight, DockerPreflight

CONSTANT MaxEdits  \* bound: changes other programs make to files

ASSUME PreflightConstants ==
    MaxEdits \in Nat /\ Missing \notin Contents /\ Missing \notin {0, 1, 2}

all == <<preflight, host, docker, vars>>

\* Bound: what surrounds a command varies only where the command meets it, and
\* the host denies the probe at most two of its attempts.
InitialBound ==
    /\ IF command = "host" THEN Cardinality(denied) <= 2 ELSE denied = {}
    /\ command # "docker" => metadata = Favourable

PreflightInit == CommandInit /\ HostInit /\ DockerInit /\ InitialBound

\* Bound: at most MaxEdits, and none when image or engine are not favourable.
EditsBound == edits < MaxEdits /\ metadata = Favourable

\* The steps all commands share.
SharedStep ==
    /\ CheckOutput \/ MakePlan \/ OpenReceipt \/ WriteReceipt \/ PrintReceipt
    /\ UNCHANGED <<host, docker, vars>>

\* An error after the probe ran ends the probe's call too.
ErrorStep ==
    /\ Fail
    /\ IF pc = "validating" THEN Validate /\ outcome' = "invalid" ELSE UNCHANGED vars
    /\ UNCHANGED <<host, docker>>

HostCommand == command = "host" /\ HostStep /\ UNCHANGED <<docker, vars>>
DockerCommand == command = "docker" /\ DockerStep /\ UNCHANGED host

Others ==
    \/ /\ command = "host" /\ UNCHANGED <<docker, vars>>
       /\ ClientActs \/ (EditsBound /\ HostEdit)
    \/ /\ command = "docker" /\ UNCHANGED host
       /\ InterruptRun \/ Surroundings \/ TimePasses \/ (EditsBound /\ DockerEdit)

PreflightNext == SharedStep \/ ErrorStep \/ HostCommand \/ DockerCommand \/ Others

PreflightSpec ==
    /\ PreflightInit /\ [][PreflightNext]_all
    /\ WF_all(SharedStep \/ HostCommand \/ DockerCommand)
    /\ WF_all(command = "docker" /\ TimePasses /\ UNCHANGED host)

(***************************************************************************)
(* Properties                                                              *)
(***************************************************************************)
Ran == at \in {"open receipt", "write receipt", "print", "ended"} /\ findings # Missing

\* Every variable has its type, those of the probe run included; a command
\* that is not the Docker preflight starts no container.
PreflightTypeOK ==
    /\ TypeOK
    /\ command \in Commands /\ status \in {Missing, 0, 1, 2}
    /\ export \in [DOMAIN Exported -> EntryKinds]
    /\ findings # Missing =>
          findings \in [Controls -> {"PASS", "FAIL", "UNAVAILABLE"}]
    /\ edits \in 0 .. MaxEdits
    /\ denied \subseteq Boundaries /\ altered \subseteq Files
    /\ Len(queue) <= Backlog /\ attempted \in 0 .. Len(Attempts)
    /\ metadata \in Metadata /\ ran.cli \subseteq Contents
    /\ command # "docker" => pc = "starting" /\ container = "absent"

\* docs/m2b-docker-backend.md:42 and :57, a hashed Docker CLI and an unchanged
\* trusted copy of the probe: when another program changes one file at any
\* moment, a receipt names the one CLI that inspected and ran, and a gate that
\* passed was passed by the probe whose digest the receipt holds.
OneTamperIsCaught ==
    command = "docker" /\ Ran /\ outcome = "receipt" /\ edits <= 1 =>
        /\ ran.cli = {expected.cli}
        /\ BackendGatePassed(findings) => ran.probe = expected.probe

\* Exit status 0 of the Docker preflight is earned: the probe reported nothing
\* else than the policy asks for, image and engine are the ones wanted, the call
\* ended without cleanup, and the probe left a file it may not export.
DockerGateIsEarned ==
    command = "docker" /\ status = 0 =>
        /\ response = Confirming /\ outcome = "receipt" /\ container # "running"
        /\ metadata \in {Favourable, Newer}
        /\ \E name \in DOMAIN Exported \ (AllowedExports \cup {"root"}) :
              export[name] \in {"regular", "large"}

\* Exit status 0 of the host's negative control means that the probe did what
\* the receipt says it could: it broke out of the workspace unless another
\* program changed something, and reached the listener if that is recorded,
\* whoever else connected to it (docs/m2b-isolation-preflight.md:43).
NegativeControlIsTrue ==
    command = "host" /\ status = 0 =>
        /\ edits = 0 => denied \subseteq {"network"} /\ outside /\ "verifier" \in altered
        /\ findings["NETWORK_DENIED"] = "FAIL" => "network" \notin denied /\ listening

\* What a command has left to do, as an upper bound on its own steps: stages, the
\* call of _run_bounded_command within one of them, and the probe's attempts.
StageLeft ==
    CASE at = "exists" -> 18
      [] at \in {"hash cli", "prepare"} -> 17
      [] at \in {"endpoint", "hash files"} -> 16
      [] at \in {"image", "listen"} -> 15
      [] at \in {"engine version", "probe"} -> 14
      [] at \in {"engine info", "accept"} -> 13
      [] at \in {"accept engine", "receive"} -> 12
      [] at \in {"copy probe", "evaluate"} -> 11
      [] at \in {"hash probe", "hash verifier"} -> 10
      [] at \in {"compare copy", "look outside"} -> 9
      [] at = "running" -> 8
      [] at = "parse" -> 7
      [] at = "export" -> 6
      [] at = "observe" -> 5
      [] at \in {"check cli", "plan"} -> 4
      [] at = "open receipt" -> 3
      [] at = "write receipt" -> 2
      [] at = "print" -> 1
      [] at = "ended" -> 0

StepsLeft == StageLeft + RunLeft + (Len(Attempts) - attempted)

\* Each step of a command brings it closer to its end, and nothing around it
\* sets it back, neither the output of the CLI nor its silence: the command
\* takes a bounded number of steps, so that it can only be held up by a wait.
CommandAdvances ==
    [][/\ StepsLeft' \in 0 .. StepsLeft
       /\ SharedStep \/ HostCommand \/ DockerCommand => StepsLeft' < StepsLeft]_all

\* The command ends, whatever the Docker CLI, the daemon and the container do,
\* unless a client the host preflight accepted neither writes nor closes.
CommandEnds == <>(at = "ended") \/ <>[]HeldUp
=============================================================================
