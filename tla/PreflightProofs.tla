-------------------------- MODULE PreflightProofs --------------------------
(***************************************************************************)
(* Proofs about Preflight, for every limit, read size and pipe, and any    *)
(* number of clients and changes of files: first that no step of the       *)
(* controlled probe run breaks its invariant, then what holds in every     *)
(* behaviour of the three commands, and at last what their gates mean.     *)
(***************************************************************************)
EXTENDS Preflight, TLAPS

\* Every step of the run that some command takes.
ProbeStep == Supervision \/ Validate \/ Interrupt \/ Environment \/ DeadlineExpires

(***************************************************************************)
(* The inductive invariant                                                 *)
(***************************************************************************)
\* A CLI that ended with status zero did so after its container; nothing can
\* bring the container back but what the CLI has asked for.
ExitInv ==
    cli \in {"closing", "exited"} /\ code = "zero" =>
        /\ request = "none"
        /\ rm = "none" => container = "exited"

\* Where the caller is says what has become of the CLI, of the removal and of
\* the outcome.
StageInv ==
    /\ pc = "starting" => cli = "none"
    /\ pc \in {"checking", "validating"} => cli = "exited" /\ returned = TRUE
    /\ pc = "validating" => code = "zero"
    /\ pc \in {"killing", "removing"} => cli # "running"
    /\ pc = "ended" /\ outcome # "interrupted" => cli # "running"
    /\ outcome # "none" => pc \in {"killing", "removing", "ended"}
    /\ outcome \in {"receipt", "invalid"} =>
          pc = "ended" /\ cli = "exited" /\ code = "zero" /\ rm = "none"
    /\ rm # "none" => pc \in {"removing", "ended"} /\ cli # "running"

\* Once the removal was carried out at most one request is left, and it can
\* not start a container: no CLI is there to send the next one.
RemovedInv ==
    rm = "done" => /\ container \in {"absent", "created"}
                   /\ container = "created" => request # "start"

\* A stream is given up when it is at its end.
OutputInv ==
    /\ \A s \in Streams \ open : kept[s] = written[s] /\ cli \notin {"none", "running"}
    /\ pc = "waiting" => open = {}
    /\ returned = TRUE =>
                   /\ open = {} /\ cli = "exited"
                   /\ pc \notin {"starting", "feeding", "reading", "waiting", "killing"}

ProbeInv == TypeOK /\ ExitInv /\ StageInv /\ RemovedInv /\ OutputInv

\* The part of TypeOK about what was written and collected.
Counts == /\ written \in [Streams -> 0 .. MaxWritten] /\ kept \in [Streams -> 0 .. MaxWritten]
          /\ \A s \in Streams : kept[s] <= written[s] /\ Piped(s) <= PipeSize
          /\ Total(kept) <= MaxOutput

\* The rest of TypeOK.
Scalars ==
    /\ pc \in Stages
    /\ outcome \in {"none", "unavailable", "broken pipe", "timeout", "overflow",
                    "exit status", "invalid", "receipt", "interrupted"}
    /\ cli \in {"none", "running", "closing", "dying", "exited"}
    /\ code \in {"zero", "nonzero"} /\ asked \in {0, 1, 2}
    /\ request \in {"none", "create", "start"}
    /\ container \in {"absent", "created", "running", "exited"}
    /\ rm \in {"none", "sent", "done"}
    /\ open \subseteq Streams
    /\ expired \in BOOLEAN /\ returned \in BOOLEAN /\ signalled \in BOOLEAN

LEMMA TypeParts == (TypeOK <=> Scalars /\ Counts) /\ (TypeOK' <=> Scalars' /\ Counts')
  BY Zenon DEF TypeOK, Scalars, Counts

LEMMA ProbeInitInv == Init => ProbeInv
  <1> SUFFICES ASSUME Init PROVE ProbeInv
    OBVIOUS
  <1>1. TypeOK
    <2>1. Scalars
      BY DEF Init, Scalars, Stages, InCall
    <2>2. Counts
      BY ProbeConstants DEF Init, Counts, Streams, Total, Piped
    <2> QED
      BY <2>1, <2>2, TypeParts
  <1>2. ExitInv /\ StageInv /\ RemovedInv /\ OutputInv
    BY DEF Init, ExitInv, StageInv, RemovedInv, OutputInv
  <1> QED
    BY <1>1, <1>2 DEF ProbeInv

(***************************************************************************)
(* The counts of the output                                                *)
(***************************************************************************)
LEMMA CountsAt ==
    ASSUME Counts, NEW s \in Streams PROVE kept[s] \in Nat /\ written[s] \in Nat
  BY ProbeConstants DEF Counts

\* Reading takes what is there and no more, and stops short of the limit.
LEMMA ReadCounts ==
    ASSUME Counts, open \subseteq Streams, ReadChunk PROVE Counts' /\ UNCHANGED written
  <1>1. UNCHANGED written
    BY DEF ReadChunk
  <1>2. ASSUME NEW s \in Streams, kept' = [kept EXCEPT ![s] = @ + Available(s)],
               Available(s) > 0, ~(Total(kept) + Available(s) > MaxOutput)
        PROVE  Counts'
    <2> DEFINE n == Available(s)
    <2>1. kept[s] \in Nat /\ written[s] \in Nat /\ n \in Nat /\ n <= written[s] - kept[s]
      BY <1>2, ProbeConstants DEF Counts, Available, Least, Piped
    <2>2. /\ kept' = [kept EXCEPT ![s] = kept[s] + n] /\ Total(kept) + n <= MaxOutput
      BY <1>2, <2>1, ProbeConstants DEF Counts, Total, Streams
    <2> HIDE DEF n
    <2>3. kept[s] + n \in 0 .. MaxWritten /\ kept[s] + n <= written[s]
      BY <2>1, ProbeConstants DEF Counts
    <2>4. kept' \in [Streams -> 0 .. MaxWritten]
      BY <2>2, <2>3 DEF Counts
    <2>5. \A r \in Streams : kept'[r] <= written[r] /\ written[r] - kept'[r] <= PipeSize
      BY <2>1, <2>2, <2>3, ProbeConstants DEF Counts, Piped
    <2>6. Total(kept)' = Total(kept) + n
      BY <2>1, <2>2 DEF Total, Streams, Counts
    <2> QED
      BY <1>1, <2>2, <2>4, <2>5, <2>6 DEF Counts, Piped
  <1>3. CASE UNCHANGED kept
    BY <1>1, <1>3 DEF Counts, Piped, Total
  <1> QED
    BY <1>1, <1>2, <1>3 DEF ReadChunk

\* The CLI writes only what the pipe still holds.
LEMMA WriteCounts ==
    ASSUME Counts, CliWrites PROVE Counts' /\ UNCHANGED kept
  <1>1. UNCHANGED kept
    BY DEF CliWrites, caller
  <1>2. ASSUME NEW s \in Streams, written' = [written EXCEPT ![s] = @ + 1],
               Piped(s) < PipeSize, written[s] < MaxWritten
        PROVE  Counts'
    <2>1. kept[s] \in Nat /\ written[s] \in Nat
      BY DEF Counts
    <2>2. written[s] + 1 \in 0 .. MaxWritten /\ written[s] + 1 - kept[s] <= PipeSize
      BY <1>2, <2>1, ProbeConstants DEF Piped
    <2>3. written' \in [Streams -> 0 .. MaxWritten]
      BY <1>2, <2>2 DEF Counts
    <2>4. \A r \in Streams : kept[r] <= written'[r] /\ written'[r] - kept[r] <= PipeSize
      BY <1>2, <2>1, <2>2, ProbeConstants DEF Counts, Piped
    <2> QED
      BY <1>1, <2>3, <2>4 DEF Counts, Piped, Total
  <1> QED
    BY <1>1, <1>2 DEF CliWrites

LEMMA OtherCounts ==
    ASSUME Counts, UNCHANGED <<written, kept>> PROVE Counts'
  BY DEF Counts, Piped, Total

(***************************************************************************)
(* Every step keeps the types                                              *)
(***************************************************************************)
LEMMA ProbeTypes ==
    ASSUME TypeOK, ProbeStep PROVE TypeOK'
  <1> USE DEF Goto, CleansUp, Ends, Kill, Stages, InCall, child, caller, daemon
  <1>1. Counts'
    <2>1. CASE ReadChunk
      BY <2>1, ReadCounts, TypeParts DEF Scalars
    <2>2. CASE CliWrites
      BY <2>2, WriteCounts, TypeParts
    <2>3. CASE ~ReadChunk /\ ~CliWrites
      <3>1. UNCHANGED <<written, kept>>
        BY <2>3 DEF ProbeStep, Supervision, Environment, Spawn, Feed, DeadlinePassed, ReadEnd,
                    LeaveLoop, WaitForExit, Killed, CheckStatus, SendRemove, RemoveReturns,
                    Validate, Interrupt, CliAsks, CliExits, DaemonActs, DaemonRemoves,
                    ContainerExits, DeadlineExpires
      <3> QED
        BY <3>1, OtherCounts, TypeParts
    <2> QED
      BY <2>1, <2>2, <2>3
  <1>2. Scalars
    BY TypeParts
  <1> SUFFICES Scalars'
    BY <1>1, TypeParts
  <1>3. CASE Supervision
    <2>1. CASE Spawn \/ Feed \/ LeaveLoop \/ Killed \/ CheckStatus \/ RemoveReturns
      BY <1>2, <2>1 DEF Scalars, Spawn, Feed, LeaveLoop, Killed, CheckStatus, RemoveReturns
    <2>2. CASE DeadlinePassed \/ WaitForExit
      BY <1>2, <2>2 DEF Scalars, DeadlinePassed, WaitForExit
    <2>3. CASE ReadChunk
      BY ZenonT(40), <1>2, <2>3 DEF Scalars, ReadChunk
    <2>4. CASE ReadEnd \/ SendRemove
      BY <1>2, <2>4 DEF Scalars, ReadEnd, SendRemove
    <2> QED
      BY <1>3, <2>1, <2>2, <2>3, <2>4 DEF Supervision
  <1>4. CASE Environment
    <2>1. CASE CliAsks \/ CliWrites \/ CliExits
      BY <1>2, <2>1 DEF Scalars, CliAsks, CliWrites, CliExits
    <2>2. CASE DaemonActs \/ DaemonRemoves \/ ContainerExits
      BY <1>2, <2>2 DEF Scalars, DaemonActs, DaemonRemoves, ContainerExits
    <2> QED
      BY <1>4, <2>1, <2>2 DEF Environment
  <1>5. CASE Validate \/ Interrupt \/ DeadlineExpires
    <2>1. CASE Validate \/ Interrupt
      <3>1. /\ pc' = "ended" /\ outcome' \in {"invalid", "receipt", "interrupted"}
            /\ UNCHANGED <<cli, code, asked, request, container, rm, open, expired, returned,
                           signalled>>
        BY <2>1 DEF Validate, Interrupt
      <3>2. expired' \in BOOLEAN /\ returned' \in BOOLEAN /\ signalled' \in BOOLEAN
        BY <1>2, <3>1, Zenon DEF Scalars
      <3>3. pc' \in Stages /\ open' \subseteq Streams
        BY <1>2, <3>1 DEF Scalars
      <3> QED
        BY ZenonT(40), <1>2, <3>1, <3>2, <3>3 DEF Scalars
    <2>2. CASE DeadlineExpires
      <3>1. UNCHANGED <<pc, outcome, cli, code, asked, request, container, rm, open, returned,
                        signalled>>
        BY <2>2 DEF DeadlineExpires
      <3>2. expired' = TRUE
        BY <2>2 DEF DeadlineExpires
      <3>3. expired' \in BOOLEAN /\ returned' \in BOOLEAN /\ signalled' \in BOOLEAN
        BY <1>2, <3>1, <3>2, Zenon DEF Scalars
      <3> HIDE DEF Stages
      <3> QED
        BY ZenonT(40), <1>2, <3>1, <3>3 DEF Scalars
    <2> QED
      BY <1>5, <2>1, <2>2
  <1> QED
    BY <1>3, <1>4, <1>5 DEF ProbeStep

(***************************************************************************)
(* Every step keeps the invariant                                          *)
(***************************************************************************)
LEMMA SupervisionStep ==
    ASSUME ProbeInv, Supervision
    PROVE  ExitInv' /\ StageInv' /\ RemovedInv' /\ OutputInv'
  <1> USE DEF Goto, CleansUp, Kill, child, daemon, ProbeInv, ExitInv, StageInv, RemovedInv,
              OutputInv, Scalars
  <1>0. Scalars /\ Counts
    BY TypeParts
  <1>1. CASE Spawn \/ Feed
    BY <1>0, <1>1 DEF Spawn, Feed
  <1>2. CASE DeadlinePassed
    BY <1>0, <1>2 DEF DeadlinePassed
  <1>3. CASE ReadEnd
    <2>1. /\ ExitInv' /\ RemovedInv'
          /\ pc = "reading" /\ UNCHANGED <<pc, outcome, kept, returned, cli, code, rm, written>>
      BY <1>3 DEF ReadEnd
    <2>2. StageInv'
      BY <2>1
    <2>3. PICK s \in open : AtEnd(s) /\ open' = open \ {s}
      BY <1>3 DEF ReadEnd
    <2>4. kept[s] = written[s] /\ cli \in {"closing", "exited"}
      <3>1. s \in Streams
        BY <1>0, <2>3
      <3>2. kept[s] \in Nat /\ written[s] \in Nat
        BY <1>0, <3>1, CountsAt
      <3> QED
        BY <2>3, <3>2 DEF AtEnd, Piped
    <2>5. OutputInv'
      BY <1>0, <2>1, <2>3, <2>4
    <2> QED
      BY <2>1, <2>2, <2>5
  <1>8. CASE ReadChunk
    <2>1. pc = "reading" /\ returned # TRUE
      BY <1>8 DEF ReadChunk
    <2>2. ASSUME NEW s \in open, kept' = [kept EXCEPT ![s] = @ + Available(s)],
                 UNCHANGED <<pc, outcome, cli, signalled>>
          PROVE  ExitInv' /\ StageInv' /\ RemovedInv' /\ OutputInv'
      <3>1. ExitInv' /\ StageInv' /\ RemovedInv'
        BY <1>8, <2>1, <2>2 DEF ReadChunk
      <3>2. \A r \in Streams \ open : kept'[r] = kept[r]
        BY <2>2, TypeParts DEF Counts
      <3> QED
        BY <1>8, <2>1, <2>2, <3>1, <3>2 DEF ReadChunk
    <2>3. CASE UNCHANGED kept /\ Kill /\ pc' = "killing" /\ outcome' = "overflow"
      BY <1>0, <1>8, <2>1, <2>3 DEF ReadChunk
    <2> QED
      BY <1>8, <2>2, <2>3 DEF ReadChunk
  <1>4. CASE LeaveLoop \/ Killed
    BY <1>0, <1>4 DEF LeaveLoop, Killed
  <1>5. CASE WaitForExit
    BY <1>0, <1>5 DEF WaitForExit
  <1>6. CASE CheckStatus
    BY <1>0, <1>6 DEF CheckStatus
  <1>7. CASE SendRemove \/ RemoveReturns
    BY ZenonT(40), <1>0, <1>7 DEF SendRemove, RemoveReturns
  <1> QED
    BY <1>1, <1>2, <1>3, <1>4, <1>5, <1>6, <1>7, <1>8 DEF Supervision

LEMMA EnvironmentStep ==
    ASSUME ProbeInv, Environment
    PROVE  ExitInv' /\ StageInv' /\ RemovedInv' /\ OutputInv'
  <1> USE DEF caller, child, daemon, ProbeInv, ExitInv, StageInv, RemovedInv, OutputInv, Scalars
  <1>0. Scalars
    BY TypeParts
  <1>1. CASE CliAsks
    BY <1>0, <1>1 DEF CliAsks
  <1>2. CASE CliWrites
    BY <1>0, <1>2 DEF CliWrites
  <1>3. CASE CliExits
    BY <1>0, <1>3 DEF CliExits
  <1>4. CASE DaemonActs
    BY <1>0, <1>4 DEF DaemonActs
  <1>5. CASE DaemonRemoves \/ ContainerExits
    BY ZenonT(40), <1>0, <1>5 DEF DaemonRemoves, ContainerExits
  <1> QED
    BY <1>1, <1>2, <1>3, <1>4, <1>5 DEF Environment

LEMMA ProbeStepInv == ProbeInv /\ ProbeStep => ProbeInv'
  <1> SUFFICES ASSUME ProbeInv, ProbeStep PROVE ProbeInv'
    OBVIOUS
  <1>1. TypeOK'
    BY ProbeTypes DEF ProbeInv
  <1>2. CASE Validate \/ Interrupt \/ DeadlineExpires
    <2>1. ExitInv' /\ RemovedInv'
      BY <1>2 DEF Validate, Interrupt, DeadlineExpires, ProbeInv, ExitInv, RemovedInv, child,
                  caller, daemon
    <2>2. StageInv' /\ OutputInv'
      BY <1>2, TypeParts DEF Validate, Interrupt, DeadlineExpires, Goto, Ends, ProbeInv, StageInv,
                  OutputInv, ExitInv, Scalars, child, caller, daemon
    <2> QED
      BY <1>1, <2>1, <2>2 DEF ProbeInv
  <1> QED
    BY <1>1, <1>2, SupervisionStep, EnvironmentStep DEF ProbeStep, ProbeInv

LEMMA ProbeIdle == ProbeInv /\ UNCHANGED vars => ProbeInv'
  <1> SUFFICES ASSUME ProbeInv, UNCHANGED vars PROVE ProbeInv'
    OBVIOUS
  <1> USE DEF vars, caller, child, daemon
  <1>1. TypeOK'
    <2>1. Scalars /\ Counts /\ Counts'
      BY TypeParts, OtherCounts DEF ProbeInv
    <2>2. UNCHANGED <<pc, outcome, cli, code, asked, request, container, rm, open, expired,
                      returned, signalled>>
      OBVIOUS
    <2>3. Scalars'
      BY <2>1, <2>2, Zenon DEF Scalars
    <2> QED
      BY <2>1, <2>3, TypeParts
  <1>2. ExitInv' /\ StageInv' /\ RemovedInv' /\ OutputInv'
    BY DEF ProbeInv, ExitInv, StageInv, RemovedInv, OutputInv
  <1> QED
    BY <1>1, <1>2 DEF ProbeInv

(***************************************************************************)
(* What the invariant is for                                               *)
(***************************************************************************)
LEMMA ProbeSafe == ProbeInv => ContainerStopsFirst /\ NothingLeftRunning
  <1> SUFFICES ASSUME ProbeInv PROVE ContainerStopsFirst /\ NothingLeftRunning
    OBVIOUS
  <1>1. ContainerStopsFirst
    BY DEF ProbeInv, ExitInv, StageInv, ContainerStopsFirst
  <1>2. NothingLeftRunning
    BY DEF ProbeInv, ExitInv, StageInv, RemovedInv, NothingLeftRunning
  <1> QED
    BY <1>1, <1>2

(***************************************************************************)
(* The refinement of BoundedCommand                                        *)
(***************************************************************************)
\* The stage of the contract and what its caller was given, as in ProbeRun.
Stage == IF returned THEN "returned"
         ELSE IF pc = "starting" THEN "idle"
         ELSE IF pc \in {"feeding", "reading", "waiting"} THEN "open"
         ELSE "raised"
Given == IF returned THEN kept ELSE [s \in Streams |-> 0]
contractVars == <<Stage, written, Given>>

LEMMA StageOf ==
    ASSUME ProbeInv, ProbeInv'
    PROVE  /\ returned = TRUE => Stage = "returned" /\ Given = kept
           /\ returned' = TRUE => Stage' = "returned" /\ Given' = kept'
           /\ returned # TRUE =>
                 /\ Given = [s \in Streams |-> 0]
                 /\ pc = "starting" => Stage = "idle"
                 /\ pc \in {"feeding", "reading", "waiting"} => Stage = "open"
                 /\ pc \notin {"starting", "feeding", "reading", "waiting"} => Stage = "raised"
           /\ returned' # TRUE =>
                 /\ Given' = [s \in Streams |-> 0]
                 /\ pc' = "starting" => Stage' = "idle"
                 /\ pc' \in {"feeding", "reading", "waiting"} => Stage' = "open"
                 /\ pc' \notin {"starting", "feeding", "reading", "waiting"} => Stage' = "raised"
  <1>1. returned \in BOOLEAN /\ returned' \in BOOLEAN
    BY TypeParts DEF ProbeInv, Scalars
  <1>2. returned = TRUE \/ returned = FALSE
    BY <1>1
  <1>3. returned' = TRUE \/ returned' = FALSE
    BY <1>1
  <1> QED
    BY <1>2, <1>3 DEF Stage, Given

\* The call begins when the CLI is started, or raises because it is not.
LEMMA BeginStep ==
    ASSUME ProbeInv, ProbeInv', Spawn PROVE Contract!Begin
  <1>1. /\ pc = "starting" /\ pc' \in {"feeding", "removing"}
        /\ UNCHANGED <<returned, written, kept>>
    BY DEF Spawn, Goto, CleansUp
  <1>2. returned # TRUE /\ returned' # TRUE
    BY <1>1 DEF ProbeInv, OutputInv
  <1> QED
    BY <1>1, <1>2, StageOf DEF Contract!Begin, Stage, Given, Contract!Streams, Streams

\* What the CLI writes after the call began is written in the contract too.
LEMMA WriteStep ==
    ASSUME ProbeInv, ProbeInv', CliWrites PROVE Contract!Write
  <1>1. /\ cli = "running" /\ UNCHANGED <<pc, returned, kept>>
        /\ \E s \in Streams : written' = [written EXCEPT ![s] = @ + 1]
    BY DEF CliWrites, caller
  <1>2. pc # "starting" /\ returned # TRUE /\ returned' # TRUE
    BY <1>1 DEF ProbeInv, StageInv, OutputInv
  <1> QED
    BY <1>1, <1>2, StageOf DEF Contract!Write, Stage, Given, Contract!Streams, Streams

\* The call returns everything that was written: both streams are at their end
\* and the CLI has exited.
LEMMA ReturnStep ==
    ASSUME ProbeInv, ProbeInv', WaitForExit, returned' = TRUE PROVE Contract!Return
  <1>1. pc = "waiting" /\ UNCHANGED <<written, kept>>
    BY DEF WaitForExit, child
  <1>2. returned # TRUE /\ open = {}
    BY <1>1 DEF ProbeInv, OutputInv
  <1>3. Counts /\ kept = written
    <2>1. Counts
      BY TypeParts DEF ProbeInv
    <2>2. \A s \in Streams : kept[s] = written[s]
      BY <1>2 DEF ProbeInv, OutputInv
    <2> QED
      BY <2>1, <2>2 DEF Counts
  <1>4. Total(written) <= MaxOutput
    BY <1>3 DEF Counts
  <1>5. Stage = "open" /\ Stage' = "returned" /\ Given' = written
    BY <1>1, <1>2, <1>3, StageOf
  <1> QED
    BY <1>1, <1>4, <1>5 DEF Contract!Return, Stage, Given, Contract!Total, Total

\* Every other step of the call ends it with an error or does not show.
LEMMA ContractStep ==
    ASSUME ProbeInv, ProbeInv', ProbeStep PROVE [Contract!Next]_contractVars
  <1>1. CASE Spawn
    BY <1>1, BeginStep DEF Contract!Next
  <1>2. CASE CliWrites
    BY <1>2, WriteStep DEF Contract!Next
  <1>3. CASE WaitForExit /\ returned' = TRUE
    BY <1>3, ReturnStep DEF Contract!Next
  <1>4. CASE UNCHANGED <<written, returned>> /\ pc # "starting" /\ pc' # "starting"
             /\ (returned = TRUE => UNCHANGED kept)
             /\ (pc' \in {"feeding", "reading", "waiting"}
                  => pc \in {"feeding", "reading", "waiting"})
    <2>1. /\ Given' = Given
          /\ Stage' = Stage \/ (Stage = "open" /\ Stage' = "raised")
      <3>1. CASE returned = TRUE
        BY <1>4, <3>1, StageOf
      <3>2. CASE returned # TRUE
        <4>1. returned' # TRUE
          BY <1>4, <3>2
        <4> QED
          BY <1>4, <3>2, <4>1, StageOf
      <3> QED
        BY <3>1, <3>2
    <2> QED
      BY <1>4, <2>1 DEF Contract!Next, Contract!Raise, Stage, Given, contractVars
  <1>5. CASE UNCHANGED <<pc, written, kept, returned>>
    BY <1>5 DEF contractVars, Stage, Given
  <1>6. \/ Spawn \/ CliWrites \/ (WaitForExit /\ returned' = TRUE)
        \/ UNCHANGED <<pc, written, kept, returned>>
        \/ /\ UNCHANGED <<written, returned>> /\ pc # "starting" /\ pc' # "starting"
           /\ returned = TRUE => UNCHANGED kept
           /\ pc' \in {"feeding", "reading", "waiting"}
                => pc \in {"feeding", "reading", "waiting"}
    <2> USE DEF Goto, CleansUp, Ends, Kill, caller, child, daemon
    <2>1. CASE Feed \/ DeadlinePassed \/ LeaveLoop \/ Killed
      BY <2>1 DEF Feed, DeadlinePassed, LeaveLoop, Killed
    <2>2. CASE ReadChunk
      BY <2>2 DEF ReadChunk, ProbeInv, OutputInv
    <2>3. CASE ReadEnd \/ CheckStatus \/ SendRemove \/ RemoveReturns
      BY <2>3 DEF ReadEnd, CheckStatus, SendRemove, RemoveReturns
    <2>4. CASE WaitForExit
      BY <2>4 DEF WaitForExit
    <2>5. CASE Validate \/ Interrupt
      BY <2>5 DEF Validate, Interrupt
    <2>6. CASE DeadlineExpires \/ CliAsks \/ CliExits
      BY <2>6 DEF DeadlineExpires, CliAsks, CliExits
    <2>7. CASE DaemonActs \/ DaemonRemoves \/ ContainerExits
      BY <2>7 DEF DaemonActs, DaemonRemoves, ContainerExits
    <2> QED
      BY <2>1, <2>2, <2>3, <2>4, <2>5, <2>6, <2>7 DEF ProbeStep, Supervision, Environment
  <1> QED
    BY <1>1, <1>2, <1>3, <1>4, <1>5, <1>6

LEMMA ContractInit == Init => Contract!Init
  BY DEF Init, Contract!Init, Stage, Given, Contract!Streams, Streams

LEMMA ContractIdle == UNCHANGED vars => UNCHANGED contractVars
  BY DEF vars, caller, child, contractVars, Stage, Given

(***************************************************************************)
(* What holds of the probe run in every command                            *)
(***************************************************************************)

\* A step of a command is one of its probe run or leaves it alone.
LEMMA PreflightStep == [PreflightNext]_all => ProbeStep \/ UNCHANGED vars
  <1> SUFFICES ASSUME [PreflightNext]_all PROVE ProbeStep \/ UNCHANGED vars
    OBVIOUS
  <1>1. CASE UNCHANGED all
    BY <1>1 DEF all
  <1>2. CASE SharedStep \/ HostCommand
    BY <1>2 DEF SharedStep, HostCommand
  <1>3. CASE ErrorStep
    BY <1>3 DEF ErrorStep, ProbeStep
  <1>4. CASE DockerStep
    <2>1. CASE HashCli \/ Inspect \/ AcceptEngine \/ CopyProbe \/ HashProbe \/ CompareCopy
      BY <2>1 DEF HashCli, Inspect, AcceptEngine, CopyProbe, HashProbe, CompareCopy
    <2>2. CASE Supervise
      BY <2>2 DEF Supervise, ProbeStep
    <2>3. CASE Raised \/ LeaveRun \/ JudgeExport \/ Observe
      BY <2>3 DEF Raised, LeaveRun, JudgeExport, Observe
    <2>4. CASE ParseResponse \/ CheckCli
      BY <2>4 DEF ParseResponse, CheckCli, Invalid, ProbeStep
    <2> QED
      BY <1>4, <2>1, <2>2, <2>3, <2>4 DEF DockerStep
  <1>5. CASE Others
    BY <1>5 DEF Others, ClientActs, HostEdit, InterruptRun, Surroundings, TimePasses, DockerEdit,
                ProbeStep
  <1> QED
    BY <1>1, <1>2, <1>3, <1>4, <1>5 DEF PreflightNext, DockerCommand

\* The invariant of the probe run holds in every state of every command.
THEOREM ProbeInvariant == PreflightSpec => []ProbeInv
  <1>1. PreflightInit => ProbeInv
    BY ProbeInitInv DEF PreflightInit, DockerInit
  <1>2. ProbeInv /\ [PreflightNext]_all => ProbeInv'
    BY PreflightStep, ProbeStepInv, ProbeIdle
  <1> QED
    BY <1>1, <1>2, PTL DEF PreflightSpec

\* run_docker_isolation_preflight: when the probe's answer and its export are
\* judged, the container has exited and no request can start it again.
THEOREM ContainerStops == PreflightSpec => []ContainerStopsFirst
  BY ProbeInvariant, ProbeSafe, PTL

\* run_docker_isolation_preflight: after a timeout, an overflow, a refusal or
\* any other end but an interrupt, the CLI is not running, and the container
\* is not once "rm --force" was carried out, whatever was still on its way.
THEOREM NothingLeft == PreflightSpec => []NothingLeftRunning
  BY ProbeInvariant, ProbeSafe, PTL

\* _run_bounded_command implements BoundedCommand: it ends once, with an error
\* or with all the output of the CLI, which is then within the limit.  (That
\* it does end is a liveness property and left to TLC.)
THEOREM BoundedCommandSafety ==
    PreflightSpec => Contract!Init /\ [][Contract!Next]_contractVars
  <1>1. PreflightInit => Contract!Init
    BY ContractInit DEF PreflightInit, DockerInit
  <1>2. ProbeInv /\ ProbeInv' /\ [PreflightNext]_all => [Contract!Next]_contractVars
    BY PreflightStep, ContractStep, ContractIdle
  <1> QED
    BY <1>1, <1>2, ProbeInvariant, PTL DEF PreflightSpec

(***************************************************************************)
(* The invariant of the three commands                                     *)
(***************************************************************************)
Receipting == {"open receipt", "write receipt", "print"}
BeforeRun == {"hash cli", "endpoint", "image", "engine version", "engine info",
              "accept engine", "copy probe", "hash probe", "compare copy"}
AfterRun == {"parse", "export", "observe", "check cli"}
BeforeProbe == {"prepare", "hash files", "listen"}
AfterProbe == {"accept", "receive", "evaluate", "hash verifier", "look outside"}
HostStages == BeforeProbe \cup {"probe"} \cup AfterProbe
DockerStages == BeforeRun \cup {"running"} \cup AfterRun
ProbeStatus == {"PASS", "FAIL", "UNAVAILABLE"}

CommandTypes ==
    /\ command \in Commands /\ status \in {Missing, 0, 1, 2}
    /\ at \in {"exists", "plan", "ended"} \cup Receipting \cup HostStages \cup DockerStages
    /\ export \in [DOMAIN Exported -> EntryKinds]
    /\ findings # Missing => findings \in [Controls -> ProbeStatus]
    /\ edits \in 0 .. MaxEdits

HostTypes ==
    /\ denied \subseteq Boundaries /\ altered \subseteq Files
    /\ queue \in Seq({"probe", "silent", "done"}) /\ Len(queue) <= Backlog
    /\ attempted \in 0 .. Len(Attempts)

Observed == [outside_written : BOOLEAN, verifier_changed : BOOLEAN, connected : BOOLEAN]
HostFlags == outside \in BOOLEAN /\ listening \in BOOLEAN /\ seen \in Observed

DockerTypes ==
    /\ metadata \in Metadata
    /\ files \in [FileNames -> Contents \cup {Missing}]
    /\ files["cli"] # Missing /\ files["probe"] # Missing
    /\ expected \in [cli : Contents \cup {Missing}, probe : Contents \cup {Missing}]
    /\ ran \in [cli : SUBSET Contents, probe : Contents \cup {Missing}]

\* Where a command is says what it has done: which digests are taken, whether
\* the run has begun, and that only the end of the Docker preflight makes a
\* receipt.
CourseInv ==
    /\ at \in HostStages => command = "host"
    /\ at \in DockerStages => command = "docker"
    /\ at = "plan" => command = "plan"
    /\ at # "ended" => status = Missing
    /\ command # "docker" \/ at \in {"exists"} \cup BeforeRun => pc = "starting"
    /\ pc = "starting" =>
          /\ outcome = "none" /\ container = "absent" /\ request = "none"
          /\ ran.probe = Missing
    /\ pc # "starting" => Missing \notin {files["copy"], expected.cli, expected.probe}
    /\ outcome = "receipt" => at \in Receipting \cup {"ended"}
    /\ command = "docker" /\ at \in Receipting => outcome = "receipt"
    /\ at \in {"exists", "hash cli"} => expected.cli = Missing
    /\ at \in DockerStages \ {"hash cli"} => expected.cli # Missing
    /\ at \in {"compare copy", "running"} => expected.probe # Missing
    /\ at \in {"hash probe", "compare copy", "running"} => files["copy"] # Missing
    /\ at \in AfterRun => pc \in {"validating", "ended"}
    /\ pc = "validating" => at \in {"running"} \cup AfterRun

\* With one change, a CLI that has the digest that was expected has always had
\* it, and so has the copy of the probe: a change that was undone is two.
CliInv ==
    /\ expected.cli = Missing => ran.cli = {}
    /\ at \in DockerStages \ {"hash cli", "endpoint"} \/ outcome = "receipt" => ran.cli # {}
    /\ outcome = "receipt" => files["cli"] = expected.cli
    /\ edits <= 1 /\ expected.cli # Missing /\ files["cli"] = expected.cli =>
          ran.cli \subseteq {expected.cli}

ProbeFileInv ==
    /\ container \in {"running", "exited"} => ran.probe # Missing
    /\ edits <= 1 /\ ran.probe # Missing /\ files["copy"] = expected.probe =>
          ran.probe = expected.probe

\* Without a change every file is the one that was shipped.
ShippedInv ==
    edits = 0 =>
       /\ \A f \in FileNames : files[f] \in {Missing, "shipped"}
       /\ {expected.cli, expected.probe, ran.probe} \subseteq {Missing, "shipped"}
       /\ ran.cli \subseteq {"shipped"}

\* What has been judged so far is what the probe answered and exported.
Judging == pc = "validating" \/ outcome = "receipt"
DockerJudged ==
    /\ Judging /\ at \notin {"running", "parse"} => response \in Responses
    /\ Judging /\ at \notin {"running", "parse", "export"} => decision = ExportDecision(export)
    /\ Judging /\ at \notin {"running", "parse", "export", "observe"} =>
         \E unchanged \in BOOLEAN :
           /\ findings = DockerFindings(response, metadata, decision, unchanged)
           /\ unchanged /\ edits <= 1 => ran.probe = expected.probe
    /\ command = "docker" /\ status = 0 => outcome = "receipt" /\ BackendGatePassed(findings)

\* The host's probe has reached what it was not denied, and nothing else.
AttemptsInv ==
    /\ at \in {"exists"} \cup BeforeProbe =>
          attempted = 0 /\ queue = <<>> /\ seen.connected = FALSE
    /\ at \in AfterProbe => attempted = Len(Attempts)
    /\ command = "host" /\ attempted >= 2 =>
          /\ DOMAIN response = ResponseFields
          /\ \A s \in DOMAIN Sentinels : response[Sentinels[s]] = "sentinel" => s \notin denied
    /\ at = "receive" => queue # <<>>
    /\ \A i \in DOMAIN queue : queue[i] = "probe" => listening = TRUE /\ "network" \notin denied
    /\ seen.connected = TRUE => listening = TRUE /\ "network" \notin denied
    /\ edits = 0 => /\ outside = TRUE => "outside" \notin denied
                    /\ "verifier" \in altered => "verifier" \notin denied

HostJudged ==
    /\ command = "host" /\ at = "look outside" /\ edits = 0 /\ seen.verifier_changed = TRUE =>
          "verifier" \in altered
    /\ command = "host" /\ (at \in Receipting \/ status = 0) =>
          /\ findings = HostFindings(response, seen, decision) /\ attempted = Len(Attempts)
          /\ edits = 0 => /\ seen.outside_written = TRUE => outside = TRUE
                          /\ seen.verifier_changed = TRUE => "verifier" \in altered
    /\ command = "host" /\ status = 0 => HarnessPassed(findings)

IInv == /\ CommandTypes /\ HostTypes /\ HostFlags /\ DockerTypes /\ CourseInv
        /\ CliInv /\ ProbeFileInv /\ ShippedInv /\ DockerJudged
        /\ AttemptsInv /\ HostJudged

(***************************************************************************)
(* Lemmas about the operators                                              *)
(***************************************************************************)
LEMMA ExportedNames ==
    DOMAIN Exported = {".early", "artifact.json", "extra.txt", "late", "root"}
  <1>1. ToSet(EntryNames) = {".early", "artifact.json", "extra.txt", "late"}
    <2>1. DOMAIN EntryNames = 1 .. 4
      BY DEF EntryNames
    <2>2. /\ EntryNames[1] = ".early" /\ EntryNames[2] = "artifact.json"
          /\ EntryNames[3] = "extra.txt" /\ EntryNames[4] = "late"
      BY DEF EntryNames
    <2> QED
      BY <2>1, <2>2 DEF ToSet
  <1>2. DOMAIN Exported = ToSet(EntryNames) \cup {"root"}
    BY DEF Exported
  <1> QED
    BY <1>1, <1>2

LEMMA FindingsType ==
    ASSUME NEW r, NEW s, NEW m, NEW d, NEW b
    PROVE  /\ HostFindings(r, s, d) \in [Controls -> ProbeStatus]
           /\ DockerFindings(r, m, d, b) \in [Controls -> ProbeStatus]
  <1>1. ASSUME NEW c \in Controls PROVE HostStatus(c, r, s, d) \in ProbeStatus
    BY <1>1 DEF Controls, HostStatus, Fails, Unavailable, ProbeStatus
  <1> QED
    BY <1>1 DEF HostFindings, DockerFindings, ProbeStatus

LEMMA ExportTypes ==
    /\ CommandInit => export \in [DOMAIN Exported -> EntryKinds]
    /\ Exports \subseteq [DOMAIN Exported -> EntryKinds]
  <1>1. Exported \in [DOMAIN Exported -> EntryKinds]
    <2>1. ASSUME NEW name \in DOMAIN Exported PROVE Exported[name] \in EntryKinds
      BY <2>1 DEF Exported, EntryKinds
    <2> QED
      BY <2>1 DEF Exported
  <1>2. CommandInit => export \in [DOMAIN Exported -> EntryKinds]
    BY DEF CommandInit, EntryKinds
  <1> QED
    BY <1>1, <1>2 DEF Exports

LEMMA EditsNumber == CommandTypes => edits \in Nat
  BY PreflightConstants DEF CommandTypes

LEMMA GateInit == PreflightInit => IInv
  <1> SUFFICES ASSUME PreflightInit PROVE IInv
    OBVIOUS
  <1> USE DEF PreflightInit
  <1>1. CommandTypes
    <2>1. command \in Commands /\ at = "exists" /\ status = Missing /\ findings = Missing /\ edits = 0
      BY DEF CommandInit
    <2>2. export \in [DOMAIN Exported -> EntryKinds]
      BY ExportTypes
    <2> QED
      BY <2>1, <2>2, PreflightConstants DEF CommandTypes
  <1>2. HostTypes
    BY HostConstants DEF HostInit, HostTypes, Attempts
  <1>a. HostFlags
    <2>1. outside \in BOOLEAN /\ listening \in BOOLEAN
      BY Zenon DEF HostInit
    <2>2. seen \in Observed
      BY DEF HostInit, Observed
    <2> QED
      BY <2>1, <2>2, Zenon DEF HostFlags
  <1>3. DockerTypes
    BY PreflightConstants DEF DockerInit, DockerTypes, FileNames, Contents
  <1>4. at = "exists" /\ status = Missing /\ status # 0 /\ edits = 0 /\ command \in Commands
    BY PreflightConstants DEF CommandInit
  <1>5. pc = "starting" /\ container = "absent" /\ request = "none" /\ outcome = "none"
    BY DEF DockerInit, Init
  <1>6. /\ expected = [cli |-> Missing, probe |-> Missing] /\ ran = [cli |-> {}, probe |-> Missing]
        /\ files = [f \in FileNames |-> IF f = "copy" THEN Missing ELSE "shipped"]
    BY DEF DockerInit
  <1>7. CourseInv
    BY <1>4, <1>5, <1>6
    DEF CourseInv, HostStages, DockerStages, BeforeProbe, AfterProbe, BeforeRun, AfterRun, Receipting
  <1>8. CliInv /\ ProbeFileInv /\ ShippedInv
    BY <1>4, <1>5, <1>6 DEF CliInv, ProbeFileInv, ShippedInv, DockerStages, BeforeRun, AfterRun
  <1>9. DockerJudged
    BY <1>4, <1>5 DEF DockerJudged, Judging
  <1>10. AttemptsInv
    BY <1>4 DEF HostInit, AttemptsInv, AfterProbe, Sentinels
  <1>11. HostJudged
    BY <1>4 DEF HostJudged, Receipting
  <1> QED
    BY <1>1, <1>2, <1>a, <1>3, <1>7, <1>8, <1>9, <1>10, <1>11 DEF IInv

(***************************************************************************)
(* Steps all commands share                                                *)
(***************************************************************************)
LEMMA GateShared == ASSUME IInv, SharedStep PROVE IInv'
  <1> USE DEF IInv
  <1>0. /\ UNCHANGED <<host, docker, vars>>
        /\ CheckOutput \/ MakePlan \/ OpenReceipt \/ WriteReceipt \/ PrintReceipt
        /\ UNCHANGED <<observed, findings, edits, command>>
    BY DEF SharedStep, CheckOutput, MakePlan, OpenReceipt, WriteReceipt, PrintReceipt, Advance, Exit
  <1>1. \/ at = "exists" /\ at' = "ended" /\ status' = 2
        \/ at = "exists" /\ at' = First[command] /\ UNCHANGED status
        \/ at = "plan" /\ at' = "open receipt" /\ UNCHANGED status
        \/ at = "open receipt" /\ at' = "write receipt" /\ UNCHANGED status
        \/ at = "write receipt" /\ at' = "print" /\ UNCHANGED status
        \/ at = "print" /\ at' = "ended" /\ status' = IF Expected THEN 0 ELSE 1
    BY DEF SharedStep, CheckOutput, MakePlan, OpenReceipt, WriteReceipt, PrintReceipt, Advance, Exit
  <1>2. at = "exists" /\ at' = First[command] =>
           \/ command = "host" /\ at' = "prepare"
           \/ command = "docker" /\ at' = "hash cli"
           \/ command = "plan" /\ at' = "plan"
    <2>1. First["host"] = "prepare" /\ First["docker"] = "hash cli" /\ First["plan"] = "plan"
      BY DEF First
    <2>2. command = "host" \/ command = "docker" \/ command = "plan"
      BY DEF CommandTypes, Commands
    <2> QED
      BY <2>1, <2>2
  <1>3. UNCHANGED <<export, response, decision, findings, edits, command, metadata, files, expected,
                    ran, pc, outcome, container, request, denied, altered, outside, listening,
                    queue, attempted, seen>>
    BY <1>0 DEF observed, host, docker, vars, caller, child, daemon
  <1>4. CommandTypes'
    BY <1>1, <1>2, <1>3 DEF CommandTypes, HostStages, DockerStages, BeforeProbe, BeforeRun, Receipting
  <1>5. HostTypes' /\ DockerTypes'
    BY <1>3 DEF HostTypes, DockerTypes
  <1>a. HostFlags'
    BY <1>3 DEF HostFlags
  <1>6. CourseInv'
    <2>1. at \notin {"running"} \cup AfterRun /\ at \in {"exists", "plan"} \cup Receipting
      BY <1>1 DEF AfterRun, Receipting
    <2>2. at' \in {"plan", "ended", "prepare", "hash cli"} \cup Receipting
      BY <1>1, <1>2 DEF Receipting
    <2>3. /\ at' \in HostStages => command' = "host"
          /\ at' \in DockerStages => command' = "docker" /\ at' = "hash cli" /\ at = "exists"
          /\ at' = "plan" => command' = "plan"
      BY <1>1, <1>2, <1>3 DEF HostStages, DockerStages, BeforeProbe, AfterProbe, BeforeRun, AfterRun,
         Receipting
    <2>4. at' # "ended" => status' = Missing
      BY <1>1 DEF CourseInv
    <2>5. /\ command' # "docker" \/ at' \in {"exists"} \cup BeforeRun => pc' = "starting"
          /\ pc' = "validating" => at' \in {"running"} \cup AfterRun
          /\ at' \in {"exists", "hash cli"} => expected'.cli = Missing
      BY <1>3, <2>1, <2>2, <2>3 DEF CourseInv, Receipting, BeforeRun, DockerStages
    <2>6. /\ pc' = "starting" => outcome' = "none" /\ container' = "absent" /\ request' = "none" /\ ran'.probe = Missing
          /\ pc' # "starting" => Missing \notin {files'["copy"], expected'.cli, expected'.probe}
      BY <1>3 DEF CourseInv
    <2>7. /\ outcome' = "receipt" => at' \in Receipting \cup {"ended"}
          /\ command' = "docker" /\ at' \in Receipting => outcome' = "receipt"
      BY <1>1, <1>2, <1>3 DEF CourseInv, Receipting
    <2>8. /\ at' \in DockerStages \ {"hash cli"} => FALSE
          /\ at' \notin {"hash probe", "compare copy", "running"} \cup AfterRun
      BY <2>2, <2>3 DEF Receipting, AfterRun
    <2> QED
      BY <2>3, <2>4, <2>5, <2>6, <2>7, <2>8 DEF CourseInv
  <1>7. CliInv' /\ ProbeFileInv' /\ ShippedInv'
    BY <1>1, <1>2, <1>3 DEF CliInv, ProbeFileInv, ShippedInv, CourseInv, DockerStages, BeforeRun, AfterRun, Receipting
  <1>E. status' = 0 => /\ at = "print" /\ at' = "ended"
                       /\ command = "docker" => BackendGatePassed(findings)
                       /\ command = "host" => HarnessPassed(findings)
    <2>0. Missing # 0 /\ (at # "ended" => status = Missing)
      BY PreflightConstants DEF CourseInv
    <2>1. status' = 0 => at = "print" /\ at' = "ended" /\ Expected
      <3> DEFINE exit == IF Expected THEN 0 ELSE 1
      <3>1. exit = 0 => Expected
        OBVIOUS
      <3> HIDE DEF exit
      <3>2. at = "print" => at' = "ended" /\ status' = exit
        BY <1>1 DEF exit
      <3>3. at # "print" => at # "ended" /\ (status' = 2 \/ status' = status)
        BY <1>1
      <3>4. at # "print" => status' # 0
        BY <2>0, <3>3
      <3> QED
        BY <3>1, <3>2, <3>4
    <2> QED
      BY <2>1 DEF Expected
  <1>J. Judging' => at \in Receipting /\ Judging
    BY <1>1, <1>3 DEF Judging, CourseInv, Receipting, AfterRun
  <1>8. DockerJudged'
    <2>1. Judging' => /\ response' \in Responses /\ decision' = ExportDecision(export')
                      /\ \E unchanged \in BOOLEAN :
                            /\ findings' = DockerFindings(response', metadata', decision', unchanged)
                            /\ unchanged /\ edits' <= 1 => ran'.probe = expected'.probe
      BY <1>3, <1>J DEF DockerJudged, Receipting
    <2>2. command' = "docker" /\ status' = 0 => outcome' = "receipt" /\ BackendGatePassed(findings')
      BY <1>3, <1>E DEF CourseInv, Receipting
    <2> QED
      BY <2>1, <2>2 DEF DockerJudged
  <1>9. AttemptsInv'
    BY <1>1, <1>2, <1>3 DEF AttemptsInv, BeforeProbe, AfterProbe
  <1>10. HostJudged'
    <2>1. at' # "look outside"
      BY <1>1, <1>2
    <2>2. command' = "host" /\ (at' \in Receipting \/ status' = 0) => at \in Receipting
      <3>1. at' \in Receipting => at \in Receipting \/ at = "plan"
        BY <1>1, <1>2 DEF Receipting
      <3> QED
        BY <3>1, <1>E, <1>3 DEF Receipting, CourseInv
    <2>3. command' = "host" /\ status' = 0 => HarnessPassed(findings')
      BY <1>3, <1>E
    <2> QED
      BY <1>3, <2>1, <2>2, <2>3 DEF HostJudged
  <1> QED
    BY <1>4, <1>5, <1>a, <1>6, <1>7, <1>8, <1>9, <1>10

LEMMA GateError == ASSUME IInv, ErrorStep PROVE IInv'
  <1> USE DEF IInv
  <1>1. /\ at # "ended" /\ at # "running" /\ at' = "ended" /\ status' = 1
        /\ UNCHANGED <<export, response, decision, findings, edits, command, metadata, files,
                       expected, ran, denied, altered, outside, listening, queue, attempted, seen>>
    BY DEF ErrorStep, Fail, Exit, observed, host, docker
  <1>2. /\ UNCHANGED <<container, request>>
        /\ \/ pc # "validating" /\ UNCHANGED <<pc, outcome>>
           \/ pc = "validating" /\ pc' = "ended" /\ outcome' = "invalid"
    BY DEF ErrorStep, Validate, Ends, Goto, vars, caller, daemon
  <1>3. CommandTypes' /\ HostTypes' /\ DockerTypes'
    BY <1>1 DEF CommandTypes, HostTypes, DockerTypes
  <1>a. HostFlags'
    BY <1>1 DEF HostFlags
  <1>4. at' \notin HostStages \cup DockerStages \cup Receipting
    BY <1>1 DEF HostStages, DockerStages, BeforeProbe, AfterProbe, BeforeRun, AfterRun, Receipting
  <1>0. at' \notin Receipting /\ status' # 0 /\ at' # "look outside"
    BY <1>1, <1>4
  <1>5. CourseInv'
    BY <1>1, <1>2, <1>4 DEF CourseInv, DockerStages, BeforeRun, AfterRun
  <1>6. CliInv' /\ ProbeFileInv' /\ ShippedInv'
    BY <1>1, <1>2, <1>4 DEF CliInv, ProbeFileInv, ShippedInv
  <1>7. DockerJudged'
    <2>1. Judging' => Judging /\ at \in Receipting
      BY <1>1, <1>2 DEF Judging, CourseInv, Receipting
    <2>2. command' = "docker" /\ status' = 0 => FALSE
      BY <1>0
    <2>3. Judging' => /\ response' \in Responses /\ decision' = ExportDecision(export')
                      /\ \E unchanged \in BOOLEAN :
                            /\ findings' = DockerFindings(response', metadata', decision', unchanged)
                            /\ unchanged /\ edits' <= 1 => ran'.probe = expected'.probe
      BY <1>1, <2>1 DEF DockerJudged, Receipting
    <2> QED
      BY <2>2, <2>3 DEF DockerJudged
  <1>8. AttemptsInv'
    BY <1>1, <1>4 DEF AttemptsInv, HostStages
  <1>9. HostJudged'
    BY <1>0 DEF HostJudged
  <1> QED
    BY <1>3, <1>a, <1>5, <1>6, <1>7, <1>8, <1>9

(***************************************************************************)
(* Steps of the host preflight                                             *)
(***************************************************************************)
\* A step of another command leaves the host's state and its judgement alone.
LEMMA HostIdle ==
    ASSUME IInv, command # "host", UNCHANGED <<command, host>>, edits' = 0 => edits = 0,
           at' \notin HostStages, at' = "exists" => at = "exists"
    PROVE  HostTypes' /\ HostFlags' /\ AttemptsInv' /\ HostJudged'
  <1>1. UNCHANGED <<denied, altered, outside, listening, queue, attempted, seen>>
    BY DEF host
  <1>2. HostTypes' /\ HostFlags' /\ HostJudged'
    BY <1>1 DEF IInv, HostTypes, HostFlags, HostJudged
  <1>3. AttemptsInv'
    BY <1>1 DEF IInv, AttemptsInv, HostStages, AfterProbe
  <1> QED
    BY <1>2, <1>3

\* The same for the state of the Docker preflight.
LEMMA DockerIdle ==
    ASSUME IInv, command # "docker", UNCHANGED <<command, docker, vars>>, edits' \in Nat,
           edits <= edits', at' \notin DockerStages
    PROVE  DockerTypes' /\ CliInv' /\ ProbeFileInv' /\ ShippedInv' /\ DockerJudged'
  <1>1. UNCHANGED <<command, metadata, files, expected, ran, pc, outcome, container, request>>
    BY DEF docker, vars, caller, daemon
  <1>2. pc = "starting" /\ outcome = "none" /\ ran.probe = Missing
    BY DEF IInv, CourseInv
  <1>a. /\ edits \in Nat /\ edits' \in Nat
    BY PreflightConstants DEF IInv, CommandTypes
  <1>b. edits' <= 1 => edits <= 1
    BY <1>a
  <1>c. edits' = 0 => edits = 0
    BY <1>a
  <1>3. DockerTypes'
    BY <1>1 DEF IInv, DockerTypes
  <1>4. CliInv'
    BY <1>1, <1>2, <1>b DEF IInv, CliInv
  <1>5. ProbeFileInv' /\ ShippedInv'
    BY <1>1, <1>2, <1>b, <1>c DEF IInv, ProbeFileInv, ShippedInv
  <1>6. DockerJudged'
    BY <1>1, <1>2 DEF DockerJudged, Judging
  <1> QED
    BY <1>3, <1>4, <1>5, <1>6

\* Where a step of the host preflight leads.
LEMMA HostMoves ==
    ASSUME IInv, command = "host", HostStep
    PROVE  /\ UNCHANGED <<command, edits, denied>> /\ at \in HostStages
           /\ at' # "ended" => UNCHANGED status
           /\ at' = "ended" => status' = 1
           /\ \/ at = "prepare" /\ at' = "hash files"
              \/ at = "hash files" /\ at' = "listen"
              \/ at = "listen" /\ at' = "probe"
              \/ at = "probe" /\ at' \in {"probe", "ended"}
              \/ at = "probe" /\ at' \in {"accept", "evaluate"} /\ attempted = Len(Attempts)
              \/ at = "accept" /\ at' \in {"receive", "evaluate"}
              \/ at = "receive" /\ at' = "evaluate"
              \/ at = "evaluate" /\ at' = "hash verifier"
              \/ at = "hash verifier" /\ at' = "look outside"
              \/ at = "look outside" /\ at' = "open receipt"
  <1> USE DEF HostStages, BeforeProbe, AfterProbe, Advance, Exit, observed, host
  <1>1. CASE Prepare \/ HashFiles \/ Listen
    BY <1>1 DEF Prepare, HashFiles, Listen
  <1>2. CASE ProbeBreaks
    BY <1>2 DEF ProbeBreaks
  <1>3. CASE ProbeAttempts
    BY <1>3 DEF ProbeAttempts
  <1>4. CASE ProbeAnswers
    BY <1>4 DEF ProbeAnswers
  <1>5. CASE Accept
    BY <1>5 DEF Accept
  <1>6. CASE Receive \/ EvaluateExport
    BY <1>6 DEF Receive, EvaluateExport
  <1>7. CASE HashVerifier \/ LookOutside
    BY <1>7 DEF HashVerifier, LookOutside
  <1> QED
    BY <1>1, <1>2, <1>3, <1>4, <1>5, <1>6, <1>7 DEF HostStep

LEMMA HostCourse ==
    ASSUME IInv, command = "host", HostStep, UNCHANGED <<docker, vars>>
    PROVE  CourseInv' /\ at' \notin DockerStages /\ at' # "exists"
  <1>1. UNCHANGED <<metadata, files, expected, ran, pc, outcome, container, request>>
    BY DEF docker, vars, caller, daemon
  <1>2. /\ at' \in HostStages \cup {"open receipt", "ended"} /\ command' = "host"
        /\ at' # "ended" => status' = Missing
    BY HostMoves DEF HostStages, BeforeProbe, AfterProbe, IInv, CourseInv
  <1>3. at' \notin DockerStages \cup {"exists", "plan"}
    BY <1>2 DEF HostStages, BeforeProbe, AfterProbe, DockerStages, BeforeRun, AfterRun
  <1>4. pc = "starting"
    BY DEF IInv, CourseInv
  <1> QED
    BY <1>1, <1>2, <1>3, <1>4 DEF IInv, CourseInv, DockerStages, BeforeRun, AfterRun

\* What the probe does to the export directory keeps its type.
LEMMA HostExport ==
    ASSUME CommandTypes, HostTypes, ProbeAttempts
    PROVE  export' \in [DOMAIN Exported -> EntryKinds]
  <1>1. export \in [DOMAIN Exported -> EntryKinds]
    BY DEF CommandTypes
  <1>2. CASE attempted = 0
    <2>1. attempted' = 1 /\ Attempt(Attempts[attempted'])
      BY <1>2 DEF ProbeAttempts
    <2>2. Attempts[1] = "export"
      BY DEF Attempts
    <2>3. export' = [export EXCEPT !["root"] = IF @ = "absent" THEN "directory" ELSE @,
                                   !["artifact.json"] = Written(@), !["extra.txt"] = Written(@)]
      BY <2>1, <2>2 DEF Attempt
    <2> QED
      BY <1>1, <2>3 DEF Written, EntryKinds
  <1>3. CASE attempted # 0
    <2>1. UNCHANGED export
      <3>1. attempted' \in 2 .. 5 /\ Attempt(Attempts[attempted'])
        BY <1>3 DEF ProbeAttempts, HostTypes, Attempts
      <3>2. Attempts[attempted'] \in {"read", "outside", "verifier", "network"}
        BY <3>1 DEF Attempts
      <3> QED
        BY <3>1, <3>2 DEF Attempt
    <2> QED
      BY <1>1, <2>1
  <1> QED
    BY <1>2, <1>3

LEMMA HostCommandTypes ==
    ASSUME IInv, command = "host", HostStep
    PROVE  CommandTypes'
  <1>1. /\ UNCHANGED <<command, edits>> /\ status' \in {Missing, 0, 1, 2}
        /\ at' \in {"ended"} \cup Receipting \cup HostStages
    BY HostMoves DEF IInv, CommandTypes, HostStages, BeforeProbe, AfterProbe, Receipting
  <1>2. export' \in [DOMAIN Exported -> EntryKinds]
    <2>1. CASE ProbeAttempts
      BY <2>1, HostExport DEF IInv
    <2>2. CASE ~ProbeAttempts
      BY <2>2 DEF HostStep, Prepare, HashFiles, Listen, ProbeBreaks, ProbeAnswers, Accept, Receive,
         EvaluateExport, HashVerifier, LookOutside, observed, IInv, CommandTypes
    <2> QED
      BY <2>1, <2>2
  <1>3. findings' # Missing => findings' \in [Controls -> ProbeStatus]
    <2>1. CASE LookOutside
      BY <2>1, FindingsType DEF LookOutside
    <2>2. CASE ~LookOutside
      BY <2>2 DEF HostStep, Prepare, HashFiles, Listen, ProbeBreaks, ProbeAttempts, ProbeAnswers,
         Accept, Receive, EvaluateExport, HashVerifier, IInv, CommandTypes
    <2> QED
      BY <2>1, <2>2
  <1> QED
    BY <1>1, <1>2, <1>3 DEF IInv, CommandTypes

\* What one attempt of the probe changes.
LEMMA Attempted ==
    ASSUME HostTypes, ProbeAttempts
    PROVE  /\ attempted' = attempted + 1 /\ attempted' \in 1 .. 5 /\ at = "probe" /\ at' = "probe"
           /\ UNCHANGED <<command, status, decision, findings, edits, denied, listening, seen>>
           /\ attempted' # 2 => UNCHANGED response
           /\ attempted' # 3 => UNCHANGED outside
           /\ attempted' = 3 => outside' = (outside \/ "outside" \notin denied)
           /\ attempted' # 4 => UNCHANGED altered
           /\ attempted' = 4 => altered' = altered \cup ({"verifier"} \ denied)
           /\ \/ UNCHANGED queue
              \/ /\ listening /\ "network" \notin denied /\ Len(queue) < Backlog
                 /\ queue' = Append(queue, "probe")
  <1>1. /\ attempted' = attempted + 1 /\ at = "probe" /\ Attempt(Attempts[attempted'])
        /\ UNCHANGED <<command, at, status, decision, findings, edits, denied, listening, seen>>
    BY DEF ProbeAttempts
  <1>2. attempted' \in 1 .. 5
    BY <1>1 DEF ProbeAttempts, HostTypes, Attempts
  <1>3. /\ Attempts[1] = "export" /\ Attempts[2] = "read" /\ Attempts[3] = "outside"
        /\ Attempts[4] = "verifier" /\ Attempts[5] = "network"
    BY DEF Attempts
  <1>4. CASE attempted' = 1
    <2>1. Attempt("export")
      BY <1>1, <1>3, <1>4
    <2> QED
      BY <1>1, <1>4, <2>1 DEF Attempt
  <1>5. CASE attempted' = 2
    <2>1. Attempt("read")
      BY <1>1, <1>3, <1>5
    <2>2. UNCHANGED <<export, altered, outside, queue>>
      BY <2>1 DEF Attempt
    <2> QED
      BY <1>1, <1>5, <2>2
  <1>6. CASE attempted' = 3
    <2>1. Attempt("outside")
      BY <1>1, <1>3, <1>6
    <2> QED
      BY <1>1, <1>6, <2>1 DEF Attempt
  <1>7. CASE attempted' = 4
    <2>1. Attempt("verifier")
      BY <1>1, <1>3, <1>7
    <2> QED
      BY <1>1, <1>7, <2>1 DEF Attempt
  <1>8. CASE attempted' = 5
    <2>1. Attempt("network")
      BY <1>1, <1>3, <1>8
    <2> QED
      BY <1>1, <1>8, <2>1 DEF Attempt
  <1> QED
    BY <1>2, <1>4, <1>5, <1>6, <1>7, <1>8

\* A sentinel whose digest the probe answers was not denied to it.
LEMMA SentinelsRead ==
    ASSUME HostTypes, ProbeAttempts, attempted' = 2
    PROVE  /\ DOMAIN response' = ResponseFields
           /\ \A s \in DOMAIN Sentinels : response'[Sentinels[s]] = "sentinel" => s \notin denied
  <1>1. Attempt("read")
    BY DEF ProbeAttempts, Attempts
  <1>2. response' = [field \in ResponseFields |->
                   IF \E t \in DOMAIN Sentinels : Sentinels[t] = field
                   THEN LET t == CHOOSE t \in DOMAIN Sentinels : Sentinels[t] = field
                        IN IF t \in denied THEN "null"
                           ELSE IF t \in altered THEN "other" ELSE "sentinel"
                   ELSE IF field = "environment_keys" THEN "policy"
                   ELSE CHOOSE value \in Typed(field) : TRUE]
    BY <1>1 DEF Attempt
  <1>3. /\ DOMAIN Sentinels = {"history", "credential", "cache"}
        /\ Sentinels["history"] = "history_sha256" /\ Sentinels["credential"] = "credential_sha256"
        /\ Sentinels["cache"] = "foreign_cache_sha256"
    BY DEF Sentinels
  <1>a. DOMAIN response' = ResponseFields
    BY <1>2
  <1> SUFFICES ASSUME NEW s \in DOMAIN Sentinels, response'[Sentinels[s]] = "sentinel"
               PROVE  s \notin denied
    BY <1>a
  <1>4. Sentinels[s] \in ResponseFields
    BY <1>3 DEF ResponseFields, Digests
  <1>5. \A t \in DOMAIN Sentinels : Sentinels[t] = Sentinels[s] => t = s
    BY <1>3
  <1>6. s = CHOOSE t \in DOMAIN Sentinels : Sentinels[t] = Sentinels[s]
    BY <1>5
  <1> DEFINE chosen == CHOOSE t \in DOMAIN Sentinels : Sentinels[t] = Sentinels[s]
  <1>7. response'[Sentinels[s]] = IF chosen \in denied THEN "null"
                                  ELSE IF chosen \in altered THEN "other" ELSE "sentinel"
    BY <1>2, <1>4
  <1>8. chosen = s
    BY <1>6
  <1> QED
    BY <1>7, <1>8

LEMMA HostStepTypes ==
    ASSUME IInv, command = "host", HostStep
    PROVE  HostTypes'
  <1> USE DEF IInv
  <1>0. Len(Attempts) = 5 /\ Backlog \in Nat \ {0}
    BY HostConstants DEF Attempts
  <1>1. CASE ProbeAttempts
    <2>1. /\ UNCHANGED <<denied, seen>> /\ attempted' \in 1 .. 5
          /\ altered' = altered \/ altered' = altered \cup ({"verifier"} \ denied)
      BY <1>1, Attempted
    <2>2. altered' \subseteq Files
      BY <2>1 DEF HostTypes, Files
    <2>3. /\ queue' \in Seq({"probe", "silent", "done"}) /\ Len(queue') <= Backlog
      BY <1>0, <1>1, Attempted DEF HostTypes
    <2> QED
      BY <1>0, <2>1, <2>2, <2>3 DEF HostTypes
  <1>2. CASE HashFiles
    BY <1>2 DEF HashFiles, HostTypes
  <1>3. CASE ~(ProbeAttempts \/ HashFiles)
    <2>1. UNCHANGED <<denied, altered, queue, attempted>>
      BY <1>3 DEF HostStep, Prepare, Listen, ProbeBreaks, ProbeAnswers, Accept, EvaluateExport, Receive,
         HashVerifier, LookOutside, host
    <2> QED
      BY <2>1 DEF HostTypes
  <1> QED
    BY <1>1, <1>2, <1>3

LEMMA ObservedMore ==
    ASSUME NEW o \in Observed, NEW b \in BOOLEAN
    PROVE  /\ [o EXCEPT !.outside_written = b] \in Observed
           /\ [o EXCEPT !.verifier_changed = b] \in Observed
           /\ [o EXCEPT !.connected = b] \in Observed
           /\ [o EXCEPT !.outside_written = b].outside_written = b
           /\ [o EXCEPT !.verifier_changed = b].verifier_changed = b
           /\ [o EXCEPT !.connected = b].connected = b
           /\ [o EXCEPT !.outside_written = b].connected = o.connected
           /\ [o EXCEPT !.outside_written = b].verifier_changed = o.verifier_changed
           /\ [o EXCEPT !.verifier_changed = b].connected = o.connected
  BY DEF Observed

LEMMA HostStepFlags ==
    ASSUME IInv, command = "host", HostStep
    PROVE  HostFlags'
  <1>0. outside \in BOOLEAN /\ listening \in BOOLEAN /\ seen \in Observed
    BY Zenon DEF IInv, HostFlags
  <1>1. CASE ProbeAttempts
    <2>1. UNCHANGED <<listening, seen>> /\ outside' \in {outside, (outside \/ "outside" \notin denied)}
      BY <1>1, Attempted DEF IInv
    <2>2. (outside \/ "outside" \notin denied) \in BOOLEAN
      BY Zenon
    <2>3. outside' \in BOOLEAN
      BY <1>0, <2>1, <2>2
    <2>4. listening' \in BOOLEAN /\ seen' \in Observed
      BY <1>0, <2>1
    <2> QED
      BY <2>3, <2>4, Zenon DEF HostFlags
  <1>2. CASE Listen
    <2>1. UNCHANGED <<outside, seen>> /\ listening' \in BOOLEAN
      BY <1>2, Zenon DEF Listen
    <2> QED
      BY <1>0, <2>1, Zenon DEF HostFlags
  <1>3. CASE Receive \/ HashVerifier \/ LookOutside
    <2>1. UNCHANGED <<outside, listening>>
      BY <1>3 DEF Receive, HashVerifier, LookOutside
    <2>2. \E b \in BOOLEAN : \/ seen' = [seen EXCEPT !.connected = b]
                              \/ seen' = [seen EXCEPT !.verifier_changed = b]
                              \/ seen' = [seen EXCEPT !.outside_written = b]
      <3>1. CASE Receive
        <4> DEFINE b == Head(queue) = "probe"
        <4>1. b \in BOOLEAN /\ seen' = [seen EXCEPT !.connected = b]
          BY <3>1, Zenon DEF Receive
        <4> QED
          BY <4>1
      <3>2. CASE HashVerifier
        <4> DEFINE b == "verifier" \in altered
        <4>1. b \in BOOLEAN
          OBVIOUS
        <4>2. seen' = [seen EXCEPT !.verifier_changed = b]
          BY <3>2 DEF HashVerifier
        <4> QED
          BY <4>1, <4>2
      <3>3. CASE LookOutside
        BY <3>3, <1>0, Zenon DEF LookOutside
      <3> QED
        BY <1>3, <3>1, <3>2, <3>3
    <2>3. seen' \in Observed
      <3>1. seen \in Observed
        BY <1>0
      <3>2. PICK b \in BOOLEAN : \/ seen' = [seen EXCEPT !.connected = b]
                                \/ seen' = [seen EXCEPT !.verifier_changed = b]
                                \/ seen' = [seen EXCEPT !.outside_written = b]
        BY <2>2
      <3>3. /\ [seen EXCEPT !.outside_written = b] \in Observed
            /\ [seen EXCEPT !.verifier_changed = b] \in Observed
            /\ [seen EXCEPT !.connected = b] \in Observed
        BY ONLY <3>1, ObservedMore
      <3> QED
        BY <3>2, <3>3
    <2> QED
      BY <1>0, <2>1, <2>3, Zenon DEF HostFlags
  <1>4. CASE HashFiles \/ Prepare \/ ProbeBreaks \/ ProbeAnswers \/ Accept \/ EvaluateExport
    <2>1. UNCHANGED <<outside, listening, seen>>
      BY <1>4 DEF HashFiles, Prepare, ProbeBreaks, ProbeAnswers, Accept, EvaluateExport, host
    <2> QED
      BY <1>0, <2>1, Zenon DEF HostFlags
  <1> QED
    BY <1>1, <1>2, <1>3, <1>4 DEF HostStep

LEMMA HostAttempts ==
    ASSUME IInv, command = "host", HostStep
    PROVE  AttemptsInv'
  <1> USE DEF IInv
  <1>r. at' = "receive" => Accept
    BY DEF HostStep, Prepare, HashFiles, Listen, ProbeBreaks, ProbeAttempts, ProbeAnswers, Receive,
       EvaluateExport, HashVerifier, LookOutside, Advance, Exit
  <1>q. at' = "receive" => queue' # <<>>
    BY <1>r DEF Accept, Advance, host
  <1>0. /\ at' \notin {"exists", "prepare"} /\ UNCHANGED <<command, edits, denied>>
        /\ at' = "receive" => queue' # <<>>
        /\ at' \in AfterProbe => at \in AfterProbe \/ attempted = Len(Attempts)
        /\ at' \in {"exists"} \cup BeforeProbe => at \in BeforeProbe
    BY <1>q, HostMoves DEF AfterProbe, BeforeProbe
  <1>1. CASE ProbeAttempts
    <2>1. at' = "probe"
      BY <1>1, Attempted
    <2>2. attempted' >= 2 =>
             /\ DOMAIN response' = ResponseFields
             /\ \A s \in DOMAIN Sentinels : response'[Sentinels[s]] = "sentinel" => s \notin denied'
      <3>1. CASE attempted' = 2
        BY <3>1, <1>0, <1>1, SentinelsRead
      <3>2. CASE attempted' # 2
        <4>1. attempted' >= 2 => attempted >= 2
          BY <1>1, <3>2, Attempted DEF HostTypes
        <4> QED
          BY <3>2, <4>1, <1>0, <1>1, Attempted DEF AttemptsInv
      <3> QED
        BY <3>1, <3>2
    <2>3. \A i \in DOMAIN queue' : queue'[i] = "probe" => listening' = TRUE /\ "network" \notin denied'
      <3>1. CASE UNCHANGED queue
        BY <3>1, <1>0, <1>1, Attempted DEF AttemptsInv
      <3>2. CASE listening /\ "network" \notin denied
        <4>1. listening' = listening
          BY <1>1, Attempted
        <4>2. listening = TRUE
          BY <3>2, Zenon DEF HostFlags
        <4> QED
          BY <3>2, <4>1, <4>2, <1>0
      <3> QED
        BY <3>1, <3>2, <1>1, Attempted
    <2>4. seen'.connected = TRUE => listening' = TRUE /\ "network" \notin denied'
      BY <1>0, <1>1, Attempted DEF AttemptsInv
    <2>5. edits' = 0 => /\ outside' = TRUE => "outside" \notin denied'
                        /\ "verifier" \in altered' => "verifier" \notin denied'
      <3>1. outside' = TRUE => outside = TRUE \/ "outside" \notin denied
        BY <1>1, Attempted
      <3>2. "verifier" \in altered' => "verifier" \in altered \/ "verifier" \notin denied
        BY <1>1, Attempted
      <3> QED
        BY <3>1, <3>2, <1>0 DEF AttemptsInv
    <2> QED
      BY <2>1, <2>2, <2>3, <2>4, <2>5 DEF AttemptsInv, BeforeProbe, AfterProbe
  <1>2. CASE HashFiles
    BY <1>0, <1>2 DEF HashFiles, AttemptsInv, observed
  <1>3. CASE Listen
    <2>1. /\ at = "listen" /\ at' = "probe"
          /\ UNCHANGED <<response, altered, outside, queue, attempted, seen>>
      BY <1>3 DEF Listen, Advance, observed
    <2>2. queue = <<>> /\ attempted = 0
      BY <2>1 DEF AttemptsInv, BeforeProbe
    <2>3. seen'.connected = TRUE => FALSE
      BY <2>1 DEF AttemptsInv, BeforeProbe
    <2>4. DOMAIN queue' = {}
      BY <2>1, <2>2
    <2> QED
      BY <1>0, <2>1, <2>2, <2>3, <2>4 DEF AttemptsInv, BeforeProbe, AfterProbe
  <1>4. CASE Receive
    <2>1. /\ at = "receive" /\ seen' = [seen EXCEPT !.connected = (Head(queue) = "probe")]
          /\ UNCHANGED <<response, altered, outside, listening, queue, attempted>>
      BY <1>4 DEF Receive, observed
    <2>2. seen'.connected = TRUE => Head(queue) = "probe"
      <3> DEFINE b == Head(queue) = "probe"
      <3>1. b \in BOOLEAN /\ seen \in Observed
        BY Zenon DEF HostFlags
      <3>2. seen' = [seen EXCEPT !.connected = b]
        BY <2>1
      <3>3. seen'.connected = b
        BY ONLY <3>1, <3>2, ObservedMore
      <3> QED
        BY <3>3
    <2>3. seen'.connected = TRUE => listening' = TRUE /\ "network" \notin denied'
      <3>1. queue # <<>>
        BY <2>1 DEF AttemptsInv
      <3>2. 1 \in DOMAIN queue /\ Head(queue) = queue[1]
        BY <3>1 DEF HostTypes
      <3> QED
        BY <1>0, <2>1, <2>2, <3>2 DEF AttemptsInv
    <2> QED
      BY <1>0, <2>1, <2>3 DEF AttemptsInv
  <1>5. CASE HashVerifier \/ LookOutside
    <2>1. /\ UNCHANGED <<response, altered, outside, listening, queue, attempted>>
          /\ seen'.connected = seen.connected
      BY <1>5 DEF HashVerifier, LookOutside, observed, HostFlags, Observed
    <2> QED
      BY <1>0, <2>1 DEF AttemptsInv
  <1>6. CASE ProbeAnswers
    <2>1. /\ UNCHANGED <<altered, outside, listening, queue, attempted, seen>>
          /\ response' = response \/ response' = [response EXCEPT !["environment_keys"] = "other"]
      BY <1>6 DEF ProbeAnswers, host
    <2>2. \A s \in DOMAIN Sentinels : Sentinels[s] # "environment_keys"
      BY DEF Sentinels
    <2>4. DOMAIN response = ResponseFields /\ \A s \in DOMAIN Sentinels : Sentinels[s] \in ResponseFields
      <3>1. attempted >= 2
        BY <1>6 DEF ProbeAnswers, Attempts
      <3>2. \A s \in DOMAIN Sentinels : Sentinels[s] \in ResponseFields
        BY DEF Sentinels, ResponseFields, Digests
      <3> QED
        BY <3>1, <3>2 DEF AttemptsInv
    <2>3. \A s \in DOMAIN Sentinels : response'[Sentinels[s]] = "sentinel" =>
                                          response[Sentinels[s]] = "sentinel"
      <3> SUFFICES ASSUME NEW s \in DOMAIN Sentinels, response'[Sentinels[s]] = "sentinel"
                   PROVE  response[Sentinels[s]] = "sentinel"
        OBVIOUS
      <3>1. Sentinels[s] # "environment_keys"
        BY <2>2
      <3>2. Sentinels[s] \in DOMAIN response
        BY <2>4
      <3> QED
        BY <2>1, <3>1, <3>2
    <2> QED
      BY <1>0, <2>1, <2>3, <2>4 DEF AttemptsInv
  <1>7. CASE Prepare \/ ProbeBreaks \/ Accept \/ EvaluateExport
    <2>1. UNCHANGED <<response, altered, outside, listening, queue, attempted, seen>>
      BY <1>7 DEF Prepare, ProbeBreaks, Accept, EvaluateExport, host, observed
    <2> QED
      BY <1>0, <2>1 DEF AttemptsInv
  <1> QED
    BY <1>1, <1>2, <1>3, <1>4, <1>5, <1>6, <1>7 DEF HostStep

LEMMA HostJudges ==
    ASSUME IInv, command = "host", HostStep
    PROVE  HostJudged'
  <1> USE DEF IInv
  <1>0. /\ UNCHANGED <<command, edits, denied>> /\ status' # 0
        /\ at' \in Receipting => at = "look outside" /\ at' = "open receipt"
        /\ at' = "look outside" => at = "hash verifier"
    <2>1. Missing # 0 /\ status = Missing
      BY HostMoves, PreflightConstants DEF CourseInv, HostStages, BeforeProbe, AfterProbe
    <2>2. status' # 0
      <3>1. status' = status \/ status' = 1
        BY HostMoves
      <3> QED
        BY <2>1, <3>1
    <2> QED
      BY <2>2, HostMoves DEF Receipting
  <1>f. seen \in Observed /\ outside \in BOOLEAN
    BY Zenon DEF HostFlags
  <1>1. ASSUME at' = "look outside", seen'.verifier_changed = TRUE PROVE "verifier" \in altered'
    <2>1. HashVerifier
      BY <1>0, <1>1 DEF HostStep, Prepare, HashFiles, Listen, ProbeBreaks, ProbeAttempts,
         ProbeAnswers, Accept, Receive, EvaluateExport, LookOutside
    <2> DEFINE b == "verifier" \in altered
    <2>2. b \in BOOLEAN
      OBVIOUS
    <2>3. seen' = [seen EXCEPT !.verifier_changed = b] /\ UNCHANGED altered
      BY <2>1 DEF HashVerifier
    <2>4. seen'.verifier_changed = b
      BY ONLY <1>f, <2>2, <2>3, ObservedMore
    <2> QED
      BY <1>1, <2>3, <2>4
  <1>2. ASSUME at' \in Receipting
        PROVE  /\ findings' = HostFindings(response', seen', decision')
               /\ attempted' = Len(Attempts)
               /\ edits' = 0 => /\ seen'.outside_written = TRUE => outside' = TRUE
                                /\ seen'.verifier_changed = TRUE => "verifier" \in altered'
    <2>1. LookOutside
      BY <1>0, <1>2 DEF HostStep, Prepare, HashFiles, Listen, ProbeBreaks, ProbeAttempts,
         ProbeAnswers, Accept, Receive, EvaluateExport, HashVerifier
    <2>2. /\ findings' = HostFindings(response', seen', decision')
          /\ seen' = [seen EXCEPT !.outside_written = outside]
          /\ UNCHANGED <<outside, altered, attempted>>
      BY <2>1 DEF LookOutside, observed
    <2>3. attempted' = Len(Attempts)
      BY <2>2, <2>1 DEF AttemptsInv, LookOutside, AfterProbe
    <2>4. /\ seen'.outside_written = outside
          /\ seen'.verifier_changed = seen.verifier_changed
      BY ONLY <1>f, <2>2, ObservedMore
    <2>5. edits' = 0 /\ seen'.verifier_changed = TRUE => "verifier" \in altered'
      BY <1>0, <1>2, <2>2, <2>4 DEF HostJudged
    <2> QED
      BY <2>2, <2>3, <2>4, <2>5
  <1> QED
    BY <1>0, <1>1, <1>2 DEF HostJudged

LEMMA GateHost ==
    ASSUME IInv, HostCommand
    PROVE  IInv'
  <1>1. command = "host" /\ HostStep /\ UNCHANGED <<command, docker, vars, edits>>
    BY HostMoves DEF HostCommand
  <1>2. CourseInv' /\ at' \notin DockerStages /\ at' # "exists"
    BY <1>1, HostCourse
  <1>3. edits' \in Nat /\ edits <= edits'
    BY <1>1, EditsNumber DEF IInv
  <1>4. DockerTypes' /\ CliInv' /\ ProbeFileInv' /\ ShippedInv' /\ DockerJudged'
    BY <1>1, <1>2, <1>3, DockerIdle
  <1> QED
    BY <1>1, <1>2, <1>4, HostCommandTypes, HostStepTypes, HostStepFlags, HostAttempts, HostJudges
    DEF IInv

(***************************************************************************)
(* Other clients and programs, beside the host preflight                   *)
(***************************************************************************)
LEMMA GateClient ==
    ASSUME IInv, command = "host", ClientActs, UNCHANGED <<docker, vars>>
    PROVE  IInv'
  <1> USE DEF IInv
  <1>1. /\ UNCHANGED <<command, at, status, export, response, decision, findings, edits, denied,
                       altered, outside, listening, attempted, seen>>
        /\ listening = TRUE /\ at \in {"probe", "accept", "receive"}
        /\ \/ Len(queue) < Backlog /\ queue' = Append(queue, "silent")
           \/ \E i \in DOMAIN queue : queue[i] = "silent" /\ queue' = [queue EXCEPT ![i] = "done"]
    <2>1. listening = TRUE
      BY Zenon DEF ClientActs, HostFlags
    <2> QED
      BY <2>1 DEF ClientActs, preflight, observed
  <1>2. HostTypes'
    <2>1. CASE Len(queue) < Backlog /\ queue' = Append(queue, "silent")
      BY <1>1, <2>1, HostConstants DEF HostTypes
    <2>2. CASE \E i \in DOMAIN queue : queue[i] = "silent" /\ queue' = [queue EXCEPT ![i] = "done"]
      <3>1. /\ queue' \in Seq({"probe", "silent", "done"}) /\ Len(queue') = Len(queue)
        BY <2>2 DEF HostTypes
      <3> QED
        BY <1>1, <3>1 DEF HostTypes
    <2> QED
      BY <1>1, <2>1, <2>2
  <1>3. queue' # <<>> /\ \A i \in DOMAIN queue' : queue'[i] = "probe" =>
                             i \in DOMAIN queue /\ queue[i] = "probe"
    BY <1>1 DEF HostTypes
  <1>4. AttemptsInv'
    BY <1>1, <1>3 DEF AttemptsInv, BeforeProbe
  <1>5. CommandTypes' /\ HostFlags' /\ HostJudged'
    BY <1>1 DEF CommandTypes, HostFlags, HostJudged
  <1>6. CourseInv'
    BY <1>1 DEF CourseInv, docker, vars, caller, daemon
  <1>7. at' \notin DockerStages /\ edits' \in Nat /\ edits <= edits'
    <2>1. at' \notin DockerStages
      BY <1>1 DEF DockerStages, BeforeRun, AfterRun
    <2> QED
      BY <1>1, <2>1, EditsNumber
  <1>8. DockerTypes' /\ CliInv' /\ ProbeFileInv' /\ ShippedInv' /\ DockerJudged'
    BY <1>1, <1>7, DockerIdle
  <1> QED
    BY <1>2, <1>4, <1>5, <1>6, <1>8

LEMMA GateHostEdit ==
    ASSUME IInv, command = "host", EditsBound, HostEdit, UNCHANGED <<docker, vars>>
    PROVE  IInv'
  <1> USE DEF IInv
  <1>1. /\ UNCHANGED <<command, at, status, response, decision, findings, denied, listening, queue,
                       attempted, seen>>
        /\ at \notin {"exists", "prepare", "open receipt", "write receipt", "print", "ended"}
        /\ edits' = edits + 1
    BY DEF HostEdit
  <1>2. edits \in Nat /\ edits' \in 0 .. MaxEdits /\ edits' # 0 /\ edits <= edits' /\ edits' \in Nat
    <2>1. edits \in Nat /\ edits < MaxEdits /\ MaxEdits \in Nat
      BY PreflightConstants, EditsNumber DEF EditsBound
    <2>2. edits' = edits + 1
      BY <1>1
    <2> QED
      BY ONLY <2>1, <2>2
  <1>3. /\ altered' \subseteq Files /\ outside' \in BOOLEAN
        /\ export' \in [DOMAIN Exported -> EntryKinds]
    <2>1. CASE (\E f \in Files : altered' = (altered \ {f}) \cup ({f} \ altered))
               /\ UNCHANGED <<outside, export>>
      BY <2>1 DEF HostTypes, HostFlags, CommandTypes
    <2>2. CASE outside' = ~outside /\ UNCHANGED <<altered, export>>
      <3>1. outside' \in BOOLEAN
        BY <2>2, Zenon
      <3> QED
        BY <2>2, <3>1 DEF HostTypes, CommandTypes
    <2>3. CASE (\E name \in DOMAIN export, kind \in EntryKinds :
                   export[name] # kind /\ export' = [export EXCEPT ![name] = kind])
               /\ UNCHANGED <<altered, outside>>
      BY <2>3 DEF HostTypes, HostFlags, CommandTypes
    <2> QED
      BY <2>1, <2>2, <2>3 DEF HostEdit
  <1>4. CommandTypes'
    BY <1>1, <1>2, <1>3 DEF CommandTypes
  <1>5. HostTypes'
    BY <1>1, <1>3 DEF HostTypes
  <1>6. HostFlags'
    <2>1. outside' \in BOOLEAN /\ UNCHANGED <<listening, seen>>
      BY <1>1, <1>3
    <2> QED
      BY <2>1, Zenon DEF HostFlags
  <1>7. CourseInv'
    BY <1>1 DEF CourseInv, docker, vars, caller, daemon
  <1>8. at' \notin DockerStages
    BY <1>1 DEF CourseInv
  <1>9. DockerTypes' /\ CliInv' /\ ProbeFileInv' /\ ShippedInv' /\ DockerJudged'
    BY <1>1, <1>2, <1>8, DockerIdle
  <1>10. AttemptsInv'
    BY <1>1, <1>2 DEF AttemptsInv
  <1>11. HostJudged'
    <2>1. status # 0 /\ at \notin Receipting
      BY <1>1, PreflightConstants DEF CourseInv, Receipting
    <2> QED
      BY <1>1, <1>2, <2>1 DEF HostJudged
  <1> QED
    BY <1>4, <1>5, <1>6, <1>7, <1>9, <1>10, <1>11

(***************************************************************************)
(* Steps of the Docker preflight before the run                            *)
(***************************************************************************)
\* The parts of the invariant the Docker preflight can disturb.
DockerGates ==
    CommandTypes /\ DockerTypes /\ CourseInv /\ CliInv /\ ProbeFileInv /\ ShippedInv /\ DockerJudged

LEMMA DockerGatesStep ==
    ASSUME IInv, command = "docker", UNCHANGED <<command, host>>, edits' = 0 => edits = 0,
           at' \notin HostStages, at' = "exists" => at = "exists", DockerGates'
    PROVE  IInv'
  BY HostIdle DEF IInv, DockerGates

\* The history when the CLI has been used once more.
Used == [ran EXCEPT !.cli = @ \cup {files["cli"]}]

LEMMA UsedTyped ==
    ASSUME DockerTypes
    PROVE  /\ Used \in [cli : SUBSET Contents, probe : Contents \cup {Missing}]
           /\ Used.probe = ran.probe /\ Used.cli = ran.cli \cup {files["cli"]}
           /\ files["cli"] \in Contents /\ files["probe"] \in Contents
           /\ edits = 0 /\ ShippedInv => files["cli"] = "shipped" /\ files["probe"] = "shipped"
  <1>1. files["cli"] \in Contents /\ files["probe"] \in Contents
    BY DEF DockerTypes, FileNames
  <1>2. ran \in [cli : SUBSET Contents, probe : Contents \cup {Missing}]
    BY DEF DockerTypes
  <1>3. edits = 0 /\ ShippedInv => files["cli"] = "shipped" /\ files["probe"] = "shipped"
    BY <1>1, PreflightConstants DEF ShippedInv, FileNames
  <1> QED
    BY <1>1, <1>2, <1>3 DEF Used

\* What a step before the run does, and where it leads.
LEMMA DockerBefore ==
    ASSUME IInv, command = "docker", UNCHANGED vars,
           HashCli \/ Inspect \/ AcceptEngine \/ CopyProbe \/ HashProbe \/ CompareCopy
    PROVE  /\ at \in BeforeRun /\ UNCHANGED <<command, export, findings, edits, metadata>>
           /\ \/ at' = "ended" /\ status' = 1
              \/ /\ UNCHANGED status
                 /\ \/ at = "hash cli" /\ at' = "endpoint"
                    \/ at = "endpoint" /\ at' = "image"
                    \/ at = "image" /\ at' = "engine version"
                    \/ at = "engine version" /\ at' = "engine info"
                    \/ at = "engine info" /\ at' = "accept engine"
                    \/ at = "accept engine" /\ at' = "copy probe"
                    \/ at = "copy probe" /\ at' = "hash probe"
                    \/ at = "hash probe" /\ at' = "compare copy"
                    \/ at = "compare copy" /\ at' = "running"
           /\ \/ ran' = Used /\ at # "hash cli"
              \/ ran' = ran /\ at \notin {"endpoint", "image", "engine version", "engine info"}
           /\ \/ UNCHANGED expected /\ (at = "hash cli" \/ at = "hash probe" => at' = "ended")
              \/ at = "hash cli" /\ at' = "endpoint" /\ expected' = [expected EXCEPT !.cli = files["cli"]]
              \/ at = "hash probe" /\ expected' = [expected EXCEPT !.probe = files["probe"]]
           /\ \/ UNCHANGED files /\ at # "copy probe"
              \/ at = "copy probe" /\ files' = [files EXCEPT !["copy"] = files["probe"]]
  <1> USE DEF Advance, Exit, docker, observed, BeforeRun
  <1>1. CASE Inspect
    <2>1. PICK i \in 1 .. 4 : /\ at = Inspections[i]
                              /\ IF Inspections[i] = "image" /\ metadata.image_os # "linux"
                                   THEN Exit(1) ELSE Advance(Inspections[i + 1])
      BY <1>1 DEF Inspect
    <2>2. \/ Inspections[i] = "endpoint" /\ Inspections[i + 1] = "image"
          \/ Inspections[i] = "image" /\ Inspections[i + 1] = "engine version"
          \/ Inspections[i] = "engine version" /\ Inspections[i + 1] = "engine info"
          \/ Inspections[i] = "engine info" /\ Inspections[i + 1] = "accept engine"
      <3>1. i = 1 \/ i = 2 \/ i = 3 \/ i = 4
        OBVIOUS
      <3>2. /\ Inspections[1] = "endpoint" /\ Inspections[2] = "image"
            /\ Inspections[3] = "engine version" /\ Inspections[4] = "engine info"
            /\ Inspections[5] = "accept engine"
        BY DEF Inspections
      <3>3. 1 + 1 = 2 /\ 2 + 1 = 3 /\ 3 + 1 = 4 /\ 4 + 1 = 5
        OBVIOUS
      <3> QED
        BY ONLY <3>1, <3>2, <3>3
    <2>3. \/ at = "endpoint" /\ at' = "image" /\ UNCHANGED status
          \/ at = "image" /\ at' = "engine version" /\ UNCHANGED status
          \/ at = "image" /\ at' = "ended" /\ status' = 1
          \/ at = "engine version" /\ at' = "engine info" /\ UNCHANGED status
          \/ at = "engine info" /\ at' = "accept engine" /\ UNCHANGED status
      BY ONLY <2>1, <2>2 DEF Advance, Exit
    <2>4. /\ UNCHANGED <<command, export, findings, edits, metadata, files, expected>>
          /\ ran' = Used
      BY <1>1, <2>1 DEF Inspect, UsesCli, Used
    <2> QED
      BY <2>3, <2>4
  <1>2. CASE HashCli
    BY <1>2 DEF HashCli
  <1>3. CASE AcceptEngine
    BY <1>3 DEF AcceptEngine
  <1>4. CASE CopyProbe
    BY <1>4 DEF CopyProbe
  <1>5. CASE HashProbe
    BY <1>5 DEF HashProbe
  <1>6. CASE CompareCopy
    BY <1>6 DEF CompareCopy
  <1> QED
    BY <1>1, <1>2, <1>3, <1>4, <1>5, <1>6

LEMMA GateBefore ==
    ASSUME IInv, command = "docker", UNCHANGED <<host, vars>>,
           HashCli \/ Inspect \/ AcceptEngine \/ CopyProbe \/ HashProbe \/ CompareCopy
    PROVE  IInv'
  <1> USE DEF IInv
  <1>0. /\ pc = "starting" /\ outcome = "none" /\ container = "absent" /\ ran.probe = Missing
        /\ UNCHANGED <<pc, outcome, container, request>>
    <2>1. at \in BeforeRun
      BY DockerBefore
    <2> QED
      BY <2>1 DEF CourseInv, vars, caller, daemon
  <1>1. /\ at \in BeforeRun /\ UNCHANGED <<command, export, findings, edits, metadata>>
        /\ \/ at' = "ended" /\ status' = 1
           \/ UNCHANGED status /\ at' \in (BeforeRun \ {"hash cli"}) \cup {"running"}
    BY DockerBefore DEF BeforeRun
  <1>r. \/ ran' = Used /\ at # "hash cli"
        \/ ran' = ran /\ at \notin {"endpoint", "image", "engine version", "engine info"}
    BY DockerBefore
  <1>e. \/ UNCHANGED expected /\ (at = "hash cli" \/ at = "hash probe" => at' = "ended")
        \/ at = "hash cli" /\ at' = "endpoint" /\ expected' = [expected EXCEPT !.cli = files["cli"]]
        \/ at = "hash probe" /\ expected' = [expected EXCEPT !.probe = files["probe"]]
    BY DockerBefore
  <1>f. \/ UNCHANGED files /\ at # "copy probe"
        \/ at = "copy probe" /\ files' = [files EXCEPT !["copy"] = files["probe"]]
    BY DockerBefore
  <1>u. /\ Used \in [cli : SUBSET Contents, probe : Contents \cup {Missing}]
        /\ Used.probe = ran.probe /\ Used.cli = ran.cli \cup {files["cli"]}
        /\ files["cli"] \in Contents /\ files["probe"] \in Contents
        /\ edits = 0 => files["cli"] = "shipped" /\ files["probe"] = "shipped"
    BY UsedTyped
  <1> DEFINE Digest == [cli : Contents \cup {Missing}, probe : Contents \cup {Missing}]
  <1>x. /\ expected \in Digest /\ expected' \in Digest
        /\ \/ UNCHANGED expected
           \/ /\ at = "hash cli" /\ at' = "endpoint"
              /\ expected'.cli = files["cli"] /\ expected'.probe = expected.probe
           \/ /\ at = "hash probe"
              /\ expected'.cli = expected.cli /\ expected'.probe = files["probe"]
    BY <1>e, <1>u DEF DockerTypes
  <1>y. /\ files' \in [FileNames -> Contents \cup {Missing}]
        /\ files'["cli"] = files["cli"] /\ files'["probe"] = files["probe"]
        /\ files'["copy"] \in {files["copy"], files["probe"]}
        /\ at = "copy probe" => files'["copy"] = files["probe"]
    BY <1>f, <1>u DEF DockerTypes, FileNames
  <1>z. /\ ran'.probe = Missing
        /\ ran'.cli = ran.cli \/ (ran'.cli = ran.cli \cup {files["cli"]} /\ at # "hash cli")
        /\ at \in {"endpoint", "image", "engine version", "engine info"} =>
              ran'.cli = ran.cli \cup {files["cli"]}
    BY <1>0, <1>r, <1>u
  <1>2. CommandTypes'
    BY <1>1 DEF CommandTypes, DockerStages
  <1>3. DockerTypes'
    <2>1. ran' \in [cli : SUBSET Contents, probe : Contents \cup {Missing}]
      BY <1>r, <1>u DEF DockerTypes
    <2> QED
      BY <1>1, <1>x, <1>y, <2>1 DEF DockerTypes
  <1>4. CourseInv'
    <2>1. /\ at' \notin HostStages \cup AfterRun \cup Receipting \cup {"exists", "hash cli", "plan"}
          /\ at' # "ended" => status' = Missing
      BY <1>1 DEF HostStages, BeforeProbe, AfterProbe, BeforeRun, AfterRun, Receipting, CourseInv
    <2>2. at' \in DockerStages => expected'.cli # Missing
      <3>1. at # "hash cli" => expected.cli # Missing
        BY <1>1 DEF CourseInv, DockerStages
      <3>2. at = "hash cli" => at' = "ended" \/ expected'.cli = files["cli"]
        BY <1>e, <1>x, DockerBefore
      <3>3. at # "hash cli" => expected'.cli = expected.cli
        BY <1>x
      <3> QED
        BY <1>u, <2>1, <3>1, <3>2, <3>3, PreflightConstants DEF DockerStages, BeforeRun, AfterRun
    <2>3. at' \in {"compare copy", "running"} => expected'.probe # Missing
      <3>1. at' \in {"compare copy", "running"} => at \in {"hash probe", "compare copy"}
        BY DockerBefore
      <3>2. at = "compare copy" => expected.probe # Missing /\ expected'.probe = expected.probe
        BY <1>x DEF CourseInv
      <3>3. at = "hash probe" /\ at' # "ended" => expected'.probe = files["probe"]
        BY <1>e, <1>x
      <3> QED
        BY <1>u, <3>1, <3>2, <3>3, PreflightConstants
    <2>4. at' \in {"hash probe", "compare copy", "running"} => files'["copy"] # Missing
      <3>1. at' \in {"hash probe", "compare copy", "running"} =>
               at \in {"copy probe", "hash probe", "compare copy"}
        BY DockerBefore
      <3>2. at \in {"hash probe", "compare copy"} => files["copy"] # Missing
        BY DEF CourseInv
      <3> QED
        BY <1>u, <1>y, <3>1, <3>2, PreflightConstants
    <2> QED
      BY <1>0, <1>1, <1>z, <2>1, <2>2, <2>3, <2>4 DEF CourseInv
  <1>5. CliInv'
    <2>1. expected'.cli = Missing => ran'.cli = {}
      <3>1. at # "hash cli" => expected.cli # Missing /\ expected'.cli = expected.cli
        BY <1>1, <1>x DEF CourseInv, DockerStages
      <3>2. at = "hash cli" => ran'.cli = ran.cli /\ expected.cli = Missing
        BY <1>z DEF CourseInv
      <3> QED
        BY <3>1, <3>2 DEF CliInv
    <2>2. at' \in DockerStages \ {"hash cli", "endpoint"} => ran'.cli # {}
      <3>1. at' \in DockerStages \ {"hash cli", "endpoint"} =>
               at \in DockerStages \ {"hash cli"}
        BY DockerBefore DEF DockerStages, BeforeRun, AfterRun
      <3>2. at \in DockerStages \ {"hash cli", "endpoint"} => ran.cli # {}
        BY DEF CliInv
      <3> QED
        BY <1>z, <3>1, <3>2
    <2>3. edits <= 1 /\ expected'.cli # Missing /\ files'["cli"] = expected'.cli =>
             ran'.cli \subseteq {expected'.cli}
      <3>1. CASE at = "hash cli"
        <4>1. ran'.cli = {}
          BY <1>z, <3>1 DEF CourseInv, CliInv
        <4> QED
          BY <4>1
      <3>2. CASE at # "hash cli"
        <4>1. expected'.cli = expected.cli
          BY <1>x, <3>2
        <4> QED
          BY <1>y, <1>z, <4>1 DEF CliInv
      <3> QED
        BY <3>1, <3>2
    <2>4. outcome' # "receipt"
      BY <1>0
    <2> QED
      BY <1>1, <2>1, <2>2, <2>3, <2>4 DEF CliInv
  <1>6. ProbeFileInv'
    BY <1>0, <1>z DEF ProbeFileInv
  <1>7. ShippedInv'
    <2> SUFFICES ASSUME edits = 0
                 PROVE  /\ \A f \in FileNames : files'[f] \in {Missing, "shipped"}
                        /\ {expected'.cli, expected'.probe, ran'.probe} \subseteq {Missing, "shipped"}
                        /\ ran'.cli \subseteq {"shipped"}
      BY <1>1 DEF ShippedInv
    <2>1. files["copy"] \in {Missing, "shipped"}
      BY DEF ShippedInv, FileNames
    <2>2. {expected.cli, expected.probe} \subseteq {Missing, "shipped"} /\ ran.cli \subseteq {"shipped"}
      BY DEF ShippedInv
    <2>3. \A f \in FileNames : files'[f] \in {Missing, "shipped"}
      BY <1>u, <1>y, <2>1 DEF FileNames
    <2> QED
      BY <1>u, <1>x, <1>z, <2>2, <2>3
  <1>8. DockerJudged'
    <2>1. status' # 0
      <3>1. at # "ended"
        BY <1>1 DEF BeforeRun
      <3>2. Missing # 0 /\ status = Missing
        BY <3>1, PreflightConstants DEF CourseInv
      <3>3. status' = 1 \/ status' = status
        BY <1>1
      <3> QED
        BY ONLY <3>2, <3>3
    <2>2. Judging' = FALSE
      BY <1>0 DEF Judging
    <2> QED
      BY <2>1, <2>2 DEF DockerJudged
  <1>9. at' \notin HostStages /\ at' # "exists"
    BY <1>1 DEF HostStages, BeforeProbe, AfterProbe, BeforeRun
  <1>10. DockerGates'
    BY <1>2, <1>3, <1>4, <1>5, <1>6, <1>7, <1>8 DEF DockerGates
  <1> QED
    BY <1>1, <1>9, <1>10, DockerGatesStep

(***************************************************************************)
(* Steps of the Docker preflight during the run                            *)
(***************************************************************************)
\* What a step of the call does that the invariant is about.
LEMMA SupervisionEffect ==
    ASSUME Supervision, outcome # "receipt"
    PROVE  /\ UNCHANGED <<container, request>> /\ outcome' # "receipt"
           /\ pc' # "starting" /\ pc \notin {"ended", "validating"}
  <1> USE DEF Goto, CleansUp, daemon
  <1>1. CASE Spawn \/ Feed
    BY <1>1 DEF Spawn, Feed
  <1>2. CASE DeadlinePassed \/ ReadChunk \/ ReadEnd \/ LeaveLoop
    BY <1>2 DEF DeadlinePassed, ReadChunk, ReadEnd, LeaveLoop
  <1>3. CASE WaitForExit \/ Killed \/ CheckStatus
    BY <1>3 DEF WaitForExit, Killed, CheckStatus
  <1>4. CASE SendRemove \/ RemoveReturns
    BY <1>4 DEF SendRemove, RemoveReturns
  <1> QED
    BY <1>1, <1>2, <1>3, <1>4 DEF Supervision

\* When nothing has started, or everything has stopped, nothing goes on.
LEMMA EnvironmentEffect ==
    ASSUME ProbeInv, CourseInv, Environment
    PROVE  /\ UNCHANGED <<pc, outcome>> /\ pc # "starting" /\ ~Judging
           /\ container' \in {"running", "exited"} =>
                 container \in {"running", "exited"} \/ container' = "running"
  <1> USE DEF caller, child, daemon
  <1>1. UNCHANGED <<pc, outcome>>
    BY DEF Environment, CliAsks, CliWrites, CliExits, DaemonActs, DaemonRemoves, ContainerExits
  <1>2. /\ pc = "starting" => cli = "none" /\ rm = "none" /\ request = "none" /\ container = "absent"
        /\ Judging => cli = "exited" /\ rm = "none" /\ request = "none" /\ container = "exited"
    BY DEF ProbeInv, StageInv, ExitInv, CourseInv, Judging
  <1>3. cli \in {"none", "exited"} /\ rm = "none" /\ request = "none" /\ container # "running" => FALSE
    BY DEF Environment, CliAsks, CliWrites, CliExits, DaemonActs, DaemonRemoves, ContainerExits
  <1>4. container' \in {"running", "exited"} =>
           container \in {"running", "exited"} \/ container' = "running"
    <2>1. CASE CliAsks \/ CliWrites \/ CliExits
      BY <2>1 DEF CliAsks, CliWrites, CliExits
    <2>2. CASE DaemonActs
      BY <2>2 DEF DaemonActs
    <2>3. CASE DaemonRemoves \/ ContainerExits
      BY <2>3 DEF DaemonRemoves, ContainerExits
    <2> QED
      BY <2>1, <2>2, <2>3 DEF Environment
  <1> QED
    BY <1>1, <1>2, <1>3, <1>4

LEMMA GateSupervise ==
    ASSUME IInv, command = "docker", UNCHANGED host, Supervise PROVE IInv'
  <1> USE DEF IInv
  <1>1. /\ at = "running" /\ UNCHANGED <<preflight, metadata, files, expected>>
        /\ \/ pc = "starting" /\ ran' = Used
           \/ pc # "starting" /\ UNCHANGED ran
    BY DEF Supervise, UsesCli, Used
  <1>2. UNCHANGED <<command, at, status, export, response, decision, findings, edits>>
    BY <1>1 DEF preflight, observed
  <1>3. outcome # "receipt"
    BY <1>1 DEF CourseInv, Receipting
  <1>4. UNCHANGED <<container, request>> /\ outcome' # "receipt" /\ pc' # "starting"
    BY <1>3, SupervisionEffect DEF Supervise
  <1>u. /\ Used \in [cli : SUBSET Contents, probe : Contents \cup {Missing}]
        /\ Used.probe = ran.probe /\ Used.cli = ran.cli \cup {files["cli"]}
        /\ edits = 0 => files["cli"] = "shipped"
    BY UsedTyped
  <1>5. ran'.probe = ran.probe /\ ran'.cli \in {ran.cli, ran.cli \cup {files["cli"]}}
    BY <1>1, <1>u
  <1>6. CommandTypes' /\ DockerTypes'
    BY <1>1, <1>2, <1>u DEF CommandTypes, DockerTypes
  <1>7. /\ expected.cli # Missing /\ expected.probe # Missing /\ files["copy"] # Missing
        /\ status = Missing /\ ran.cli # {}
    BY <1>1 DEF CourseInv, CliInv, DockerStages
  <1>8. CourseInv'
    BY <1>1, <1>2, <1>4, <1>7
    DEF CourseInv, HostStages, BeforeProbe, AfterProbe, BeforeRun, AfterRun, Receipting
  <1>9. CliInv'
    BY <1>1, <1>2, <1>4, <1>5, <1>7 DEF CliInv
  <1>10. ProbeFileInv'
    BY <1>1, <1>2, <1>4, <1>5 DEF ProbeFileInv
  <1>11. ShippedInv'
    BY <1>1, <1>2, <1>5, <1>u DEF ShippedInv
  <1>12. DockerJudged'
    BY <1>1, <1>2, <1>4, <1>7, PreflightConstants DEF DockerJudged, Judging
  <1>13. at' \notin HostStages /\ at' # "exists"
    BY <1>1, <1>2 DEF HostStages, BeforeProbe, AfterProbe
  <1> QED
    BY <1>2, <1>6, <1>8, <1>9, <1>10, <1>11, <1>12, <1>13, DockerGatesStep DEF DockerGates

LEMMA GateSurroundings ==
    ASSUME IInv, ProbeInv, command = "docker", UNCHANGED host, Surroundings PROVE IInv'
  <1> USE DEF IInv
  <1>1. /\ UNCHANGED <<preflight, metadata, files, expected>>
        /\ \/ container' = "running" /\ container # "running"
              /\ ran' = [ran EXCEPT !.probe = files["copy"]]
           \/ ~(container' = "running" /\ container # "running") /\ UNCHANGED ran
    BY DEF Surroundings
  <1>2. UNCHANGED <<command, at, status, export, response, decision, findings, edits>>
    BY <1>1 DEF preflight, observed
  <1>3. /\ UNCHANGED <<pc, outcome>> /\ pc # "starting" /\ ~Judging
        /\ container' \in {"running", "exited"} =>
              container \in {"running", "exited"} \/ container' = "running"
    BY EnvironmentEffect DEF Surroundings
  <1>4. /\ files["copy"] # Missing /\ files["copy"] \in Contents
        /\ edits = 0 => files["copy"] = "shipped"
    BY <1>3 DEF CourseInv, DockerTypes, FileNames, ShippedInv
  <1>5. /\ ran \in [cli : SUBSET Contents, probe : Contents \cup {Missing}]
        /\ ran' \in [cli : SUBSET Contents, probe : Contents \cup {Missing}]
        /\ ran'.cli = ran.cli
        /\ \/ container' = "running" /\ container # "running" /\ ran'.probe = files["copy"]
           \/ ~(container' = "running" /\ container # "running") /\ ran'.probe = ran.probe
    BY <1>1, <1>4 DEF DockerTypes
  <1>6. CommandTypes' /\ DockerTypes'
    BY <1>1, <1>2, <1>5 DEF CommandTypes, DockerTypes
  <1>7. CourseInv' /\ CliInv'
    BY <1>1, <1>2, <1>3, <1>5 DEF CourseInv, CliInv
  <1>8. ProbeFileInv' /\ ShippedInv'
    BY <1>1, <1>2, <1>3, <1>4, <1>5 DEF ProbeFileInv, ShippedInv
  <1>9. DockerJudged'
    BY <1>2, <1>3 DEF DockerJudged, Judging
  <1>10. at' \notin HostStages
    <2>1. at \in HostStages => command = "host"
      BY DEF CourseInv
    <2> QED
      BY <1>2, <2>1
  <1> QED
    BY <1>2, <1>6, <1>7, <1>8, <1>9, <1>10, DockerGatesStep DEF DockerGates

(***************************************************************************)
(* Steps of the Docker preflight after the run                             *)
(***************************************************************************)
\* What these steps leave alone, and what remains to be shown of each.
LEMMA GateAfter ==
    ASSUME IInv, command = "docker", UNCHANGED <<command, edits, host, docker, container, request>>,
           pc # "starting", pc' # "starting", at \in {"running"} \cup AfterRun,
           at' \in {"running", "ended", "open receipt"} \cup AfterRun,
           at' = "ended" => status' \in {Missing, 1},
           at' # "ended" => status' = Missing,
           pc' = "validating" => at' \in {"running"} \cup AfterRun,
           at' \in AfterRun => pc' \in {"validating", "ended"},
           at' = "open receipt" <=> outcome' = "receipt",
           outcome' = "receipt" => files["cli"] = expected.cli,
           export' \in [DOMAIN Exported -> EntryKinds],
           findings' # Missing => findings' \in [Controls -> ProbeStatus],
           /\ Judging' /\ at' \notin {"running", "parse"} => response' \in Responses
           /\ Judging' /\ at' \notin {"running", "parse", "export"} =>
                 decision' = ExportDecision(export')
           /\ Judging' /\ at' \notin {"running", "parse", "export", "observe"} =>
                 \E unchanged \in BOOLEAN :
                    /\ findings' = DockerFindings(response', metadata, decision', unchanged)
                    /\ unchanged /\ edits <= 1 => ran.probe = expected.probe
    PROVE  IInv'
  <1> USE DEF IInv
  <1>1. UNCHANGED <<metadata, files, expected, ran>>
    BY DEF docker
  <1>2. /\ at' \notin HostStages \cup BeforeRun \cup {"exists", "plan"} /\ status' # 0
        /\ at' \in Receipting => at' = "open receipt"
    <2>1. Missing # 0
      BY PreflightConstants
    <2>2. status' # 0
      <3>1. status' = Missing \/ status' = 1
        OBVIOUS
      <3> QED
        BY ONLY <2>1, <3>1
    <2>3. at' \in {"running", "ended", "open receipt", "parse", "export", "observe", "check cli"}
      BY DEF AfterRun
    <2> QED
      BY ONLY <2>2, <2>3 DEF HostStages, BeforeProbe, AfterProbe, BeforeRun, Receipting
  <1>3. CommandTypes'
    BY <1>2 DEF CommandTypes, DockerStages, Receipting
  <1>4. DockerTypes'
    BY <1>1 DEF DockerTypes
  <1>5. CourseInv'
    <2>1. Missing \notin {files["copy"], expected.cli, expected.probe}
      BY DEF CourseInv
    <2>2. at' \notin {"hash cli", "compare copy", "hash probe"}
      BY <1>2 DEF BeforeRun
    <2> QED
      BY <1>1, <1>2, <2>1, <2>2 DEF CourseInv, Receipting
  <1>6. CliInv'
    BY <1>1 DEF CliInv, DockerStages, BeforeRun, AfterRun
  <1>7. ProbeFileInv' /\ ShippedInv'
    BY <1>1 DEF ProbeFileInv, ShippedInv
  <1>8. DockerJudged'
    BY <1>1, <1>2 DEF DockerJudged
  <1>9. DockerGates'
    BY <1>3, <1>4, <1>5, <1>6, <1>7, <1>8 DEF DockerGates
  <1> QED
    BY <1>2, <1>9, DockerGatesStep

\* The policy's own answer is one of the answers.
LEMMA ConfirmingResponse == Confirming \in Responses
  <1>1. /\ "history_sha256" \in ResponseFields /\ "history_sha256" \in Digests
        /\ "history_sha256" \notin Flags \cup Mounts \cup Optional \cup Required
    BY DEF ResponseFields, Digests, Flags, Mounts, Optional, Required
  <1>2. Confirming["history_sha256"] = "null"
    BY <1>1 DEF Confirming
  <1>3. "null" \in Typed("history_sha256")
    BY <1>1 DEF Typed
  <1>4. [Confirming EXCEPT !["history_sha256"] = "null"] = Confirming
    BY <1>1, <1>2 DEF Confirming
  <1>5. Confirming \in {[Confirming EXCEPT !["history_sha256"] = value] :
                           value \in Typed("history_sha256") \cup {"malformed"}}
    BY <1>3, <1>4
  <1> QED
    BY <1>1, <1>5 DEF Responses

LEMMA GateValidated ==
    ASSUME IInv, ProbeInv, command = "docker", UNCHANGED host,
           LeaveRun \/ ParseResponse \/ JudgeExport \/ Observe \/ CheckCli
    PROVE  IInv'
  <1> USE DEF IInv
  <1>1. /\ pc = "validating" /\ at \in {"running"} \cup AfterRun
        /\ UNCHANGED <<command, edits, docker>>
    BY DEF LeaveRun, ParseResponse, JudgeExport, Observe, CheckCli, AfterRun, Advance, Exit, Invalid
  <1>2. /\ Judging /\ status = Missing /\ outcome # "receipt"
        /\ export \in [DOMAIN Exported -> EntryKinds]
        /\ findings # Missing => findings \in [Controls -> ProbeStatus]
    BY <1>1 DEF Judging, CourseInv, AfterRun, Receipting, CommandTypes
  <1>3. ASSUME UNCHANGED vars
        PROVE  UNCHANGED <<pc, outcome, container, request>>
    BY <1>3 DEF vars, caller, daemon
  <1>4. ASSUME Validate
        PROVE  pc' = "ended" /\ UNCHANGED <<container, request>>
    BY <1>4 DEF Validate, Ends, Goto, daemon
  <1>5. CASE LeaveRun
    <2>1. at' = "parse" /\ export' \in Exports /\ UNCHANGED <<status, findings, vars>>
      BY <1>5 DEF LeaveRun, Advance
    <2> QED
      BY <1>1, <1>2, <1>3, <2>1, GateAfter, ExportTypes DEF AfterRun
  <1>6. CASE ParseResponse
    <2>1. /\ at = "parse" /\ UNCHANGED <<export, decision, findings>> /\ response' \in Responses
          /\ \/ at' = "export" /\ UNCHANGED <<status, vars>>
             \/ Validate /\ outcome' = "invalid" /\ at' = "ended" /\ status' = 1
      BY <1>6, ConfirmingResponse DEF ParseResponse, Invalid, Advance, Exit
    <2>2. CASE at' = "export" /\ UNCHANGED <<status, vars>>
      BY <1>1, <1>2, <1>3, <2>1, <2>2, GateAfter DEF AfterRun
    <2>3. CASE Validate /\ outcome' = "invalid" /\ at' = "ended" /\ status' = 1
      BY <1>1, <1>2, <1>4, <2>1, <2>3, GateAfter DEF AfterRun, Judging
    <2> QED
      BY <2>1, <2>2, <2>3
  <1>7. CASE JudgeExport
    <2>1. /\ at = "export" /\ at' = "observe" /\ decision' = ExportDecision(export)
          /\ UNCHANGED <<status, export, response, findings, vars>>
      BY <1>7 DEF JudgeExport, Advance
    <2>2. response \in Responses
      BY <1>2, <2>1 DEF DockerJudged
    <2> QED
      BY <1>1, <1>2, <1>3, <2>1, <2>2, GateAfter DEF AfterRun
  <1>8. CASE Observe
    <2> DEFINE same == files["copy"] = expected.probe
    <2>1. /\ at = "observe" /\ at' = "check cli"
          /\ findings' = DockerFindings(response, metadata, decision, same)
          /\ UNCHANGED <<status, export, response, decision, vars>>
      BY <1>8 DEF Observe, Advance, observed
    <2>2. response \in Responses /\ decision = ExportDecision(export)
      BY <1>2, <2>1 DEF DockerJudged
    <2>3. same /\ edits <= 1 => ran.probe = expected.probe
      BY <1>1 DEF ProbeFileInv, ProbeInv, StageInv, ExitInv
    <2>4. same \in BOOLEAN
      OBVIOUS
    <2>5. findings' \in [Controls -> ProbeStatus]
      BY <2>1, FindingsType
    <2> HIDE DEF same
    <2>6. \E unchanged \in BOOLEAN :
             /\ findings' = DockerFindings(response', metadata, decision', unchanged)
             /\ unchanged /\ edits <= 1 => ran.probe = expected.probe
      BY <2>1, <2>3, <2>4
    <2> QED
      BY <1>1, <1>2, <1>3, <2>1, <2>2, <2>5, <2>6, GateAfter DEF AfterRun
  <1>9. CASE CheckCli
    <2>1. /\ at = "check cli" /\ UNCHANGED <<export, response, decision, findings>> /\ Validate
          /\ \/ outcome' = "receipt" /\ at' = "open receipt" /\ UNCHANGED status
                /\ files["cli"] = expected.cli
             \/ outcome' = "invalid" /\ at' = "ended" /\ status' = 1
      BY <1>9 DEF CheckCli, Invalid, Advance, Exit, observed
    <2>2. /\ response \in Responses /\ decision = ExportDecision(export)
          /\ \E unchanged \in BOOLEAN :
                /\ findings = DockerFindings(response, metadata, decision, unchanged)
                /\ unchanged /\ edits <= 1 => ran.probe = expected.probe
      BY <1>2, <2>1 DEF DockerJudged
    <2> QED
      BY <1>1, <1>2, <1>4, <2>1, <2>2, GateAfter DEF AfterRun
  <1> QED
    BY <1>5, <1>6, <1>7, <1>8, <1>9

\* Ctrl-C, what the call raised, and the clock.
LEMMA GateStopped ==
    ASSUME IInv, command = "docker", UNCHANGED host, InterruptRun \/ Raised \/ TimePasses PROVE IInv'
  <1> USE DEF IInv
  <1>1. CASE TimePasses
    <2>1. UNCHANGED <<preflight, docker, pc, outcome, container, request>>
      BY <1>1 DEF TimePasses, DeadlineExpires, caller, daemon
    <2>2. UNCHANGED <<command, at, status, export, response, decision, findings, edits, metadata,
                      files, expected, ran, pc, outcome, container, request>>
      BY <2>1 DEF preflight, observed, docker
    <2>3. CommandTypes' /\ DockerTypes' /\ CourseInv'
      BY ZenonT(40), <2>2 DEF CommandTypes, DockerTypes, CourseInv
    <2>4. CliInv' /\ ProbeFileInv' /\ ShippedInv'
      BY <2>2 DEF CliInv, ProbeFileInv, ShippedInv
    <2>5. DockerJudged'
      BY <2>2 DEF DockerJudged, Judging
    <2>6. at' \notin HostStages
      BY <2>2 DEF CourseInv
    <2> QED
      BY <2>2, <2>3, <2>4, <2>5, <2>6, DockerGatesStep DEF DockerGates
  <1>2. CASE InterruptRun \/ Raised
    <2>1. /\ at \in {"running"} \cup AfterRun /\ pc # "starting" /\ pc' = "ended"
          /\ UNCHANGED <<command, edits, docker, container, request, export, response, decision, findings>>
          /\ \/ at' = at /\ UNCHANGED status /\ outcome' = "interrupted"
             \/ at' = "ended" /\ status' = 1 /\ outcome' = outcome
      BY <1>2 DEF InterruptRun, Interrupt, Raised, Ends, Goto, Exit, AfterRun, preflight, observed,
                  daemon, vars, caller
    <2>2. /\ status = Missing /\ outcome # "receipt" /\ at \notin {"ended", "open receipt"}
          /\ export \in [DOMAIN Exported -> EntryKinds]
          /\ findings # Missing => findings \in [Controls -> ProbeStatus]
      BY <2>1 DEF CourseInv, AfterRun, Receipting, CommandTypes
    <2>3. outcome' # "receipt"
      BY <2>1, <2>2
    <2> QED
      BY <2>1, <2>2, <2>3, GateAfter DEF Judging
  <1> QED
    BY <1>1, <1>2

\* Another program changes the CLI, the probe or its copy.
LEMMA GateDockerEdit ==
    ASSUME IInv, command = "docker", UNCHANGED host, EditsBound, DockerEdit PROVE IInv'
  <1> USE DEF IInv
  <1>1. /\ UNCHANGED <<command, at, status, export, response, decision, findings, metadata,
                       expected, ran, pc, outcome, container, request>>
        /\ at \notin {"exists", "ended"} \cup Receipting /\ edits' = edits + 1 /\ edits < MaxEdits
    BY DEF DockerEdit, EditsBound, observed, vars, caller, daemon, Receipting
  <1>2. edits \in Nat /\ MaxEdits \in Nat
    BY EditsNumber, PreflightConstants
  <1>3. edits' # 0 /\ (edits' <= 1 => edits = 0 /\ edits <= 1) /\ edits' \in 0 .. MaxEdits
    BY <1>1, <1>2
  <1>4. PICK f \in FileNames :
           files[f] # Missing /\ files' = [files EXCEPT ![f] = CHOOSE c \in Contents : c # @]
    BY DEF DockerEdit
  <1> DEFINE other == CHOOSE c \in Contents : c # files[f]
  <1>5. other \in Contents /\ other # files[f]
    <2>1. \E c \in Contents : c # files[f]
      BY DEF Contents
    <2> QED
      BY <2>1
  <1>6. /\ files \in [FileNames -> Contents \cup {Missing}]
        /\ files' = [files EXCEPT ![f] = other]
    BY <1>4 DEF DockerTypes
  <1> HIDE DEF other
  <1>7. /\ files' \in [FileNames -> Contents \cup {Missing}]
        /\ \A g \in FileNames : \/ g # f /\ files'[g] = files[g]
                                \/ g = f /\ files'[g] # files[g] /\ files'[g] # Missing
    BY <1>5, <1>6, PreflightConstants
  <1>8. CommandTypes'
    BY <1>1, <1>3 DEF CommandTypes
  <1>9. DockerTypes'
    BY <1>1, <1>4, <1>7, PreflightConstants DEF DockerTypes, FileNames
  <1>10. CourseInv'
    BY <1>1, <1>7 DEF CourseInv, FileNames
  <1>11. edits' <= 1 => /\ files[f] = "shipped"
                        /\ {expected.cli, expected.probe} \subseteq {Missing, "shipped"}
    BY <1>3, <1>4 DEF ShippedInv
  <1>12. CliInv'
    <2>1. edits' <= 1 /\ expected.cli # Missing /\ files'["cli"] = expected.cli =>
             ran.cli \subseteq {expected.cli}
      BY <1>3, <1>7, <1>11 DEF CliInv, FileNames
    <2>2. outcome # "receipt"
      BY <1>1 DEF CourseInv
    <2> QED
      BY <1>1, <2>1, <2>2 DEF CliInv
  <1>13. ProbeFileInv'
    <2>1. edits' <= 1 /\ ran.probe # Missing /\ files'["copy"] = expected.probe =>
             ran.probe = expected.probe
      BY <1>3, <1>7, <1>11 DEF ProbeFileInv, FileNames
    <2> QED
      BY <1>1, <2>1 DEF ProbeFileInv
  <1>14. ShippedInv'
    BY <1>3 DEF ShippedInv
  <1>15. DockerJudged'
    BY <1>1, <1>3 DEF DockerJudged, Judging
  <1>16. at' \notin HostStages
    BY <1>1 DEF CourseInv
  <1> QED
    BY <1>1, <1>3, <1>8, <1>9, <1>10, <1>12, <1>13, <1>14, <1>15, <1>16, DockerGatesStep DEF DockerGates

(***************************************************************************)
(* The invariant, and what it says of the gates                            *)
(***************************************************************************)
LEMMA GateIdle == ASSUME IInv, UNCHANGED all PROVE IInv'
  <1> USE DEF IInv
  <1>1. UNCHANGED <<command, at, status, export, response, decision, findings, edits, denied, altered,
                    outside, listening, queue, attempted, seen, metadata, files, expected, ran,
                    pc, outcome, container, request>>
    BY DEF all, preflight, observed, host, docker, vars, caller, daemon
  <1>2. CommandTypes' /\ HostTypes' /\ DockerTypes'
    BY <1>1 DEF CommandTypes, HostTypes, DockerTypes
  <1>3. HostFlags'
    BY <1>1 DEF HostFlags
  <1>4. CourseInv' /\ CliInv' /\ ProbeFileInv' /\ ShippedInv'
    BY ZenonT(40), <1>1 DEF CourseInv, CliInv, ProbeFileInv, ShippedInv
  <1>5. DockerJudged'
    BY <1>1 DEF DockerJudged, Judging
  <1>6. AttemptsInv' /\ HostJudged'
    BY <1>1 DEF AttemptsInv, HostJudged
  <1> QED
    BY <1>2, <1>3, <1>4, <1>5, <1>6

LEMMA GateStep == IInv /\ ProbeInv /\ [PreflightNext]_all => IInv'
  <1> SUFFICES ASSUME IInv, ProbeInv, [PreflightNext]_all PROVE IInv'
    OBVIOUS
  <1>1. CASE SharedStep
    BY <1>1, GateShared
  <1>2. CASE ErrorStep
    BY <1>2, GateError
  <1>3. CASE HostCommand
    BY <1>3, GateHost
  <1>4. CASE DockerCommand
    <2>1. command = "docker" /\ UNCHANGED host
      BY <1>4 DEF DockerCommand
    <2>2. CASE HashCli \/ Inspect \/ AcceptEngine \/ CopyProbe \/ HashProbe \/ CompareCopy
      <3>1. UNCHANGED vars
        BY <2>2 DEF HashCli, Inspect, AcceptEngine, CopyProbe, HashProbe, CompareCopy
      <3> QED
        BY <2>1, <2>2, <3>1, GateBefore
    <2>3. CASE Supervise
      BY <2>1, <2>3, GateSupervise
    <2>4. CASE Raised
      BY <2>1, <2>4, GateStopped
    <2>5. CASE LeaveRun \/ ParseResponse \/ JudgeExport \/ Observe \/ CheckCli
      BY <2>1, <2>5, GateValidated
    <2> QED
      BY <1>4, <2>2, <2>3, <2>4, <2>5 DEF DockerCommand, DockerStep
  <1>5. CASE Others
    <2>1. CASE command = "host" /\ UNCHANGED <<docker, vars>> /\ ClientActs
      BY <2>1, GateClient
    <2>2. CASE command = "host" /\ UNCHANGED <<docker, vars>> /\ EditsBound /\ HostEdit
      BY <2>2, GateHostEdit
    <2>3. CASE command = "docker" /\ UNCHANGED host /\ (InterruptRun \/ TimePasses)
      BY <2>3, GateStopped
    <2>4. CASE command = "docker" /\ UNCHANGED host /\ Surroundings
      BY <2>4, GateSurroundings
    <2>5. CASE command = "docker" /\ UNCHANGED host /\ EditsBound /\ DockerEdit
      BY <2>5, GateDockerEdit
    <2> QED
      BY <1>5, <2>1, <2>2, <2>3, <2>4, <2>5 DEF Others
  <1>6. CASE UNCHANGED all
    BY <1>6, GateIdle
  <1> QED
    BY <1>1, <1>2, <1>3, <1>4, <1>5, <1>6 DEF PreflightNext

\* The invariant of the three commands holds in every state.
THEOREM GateInvariant == PreflightSpec => [](IInv /\ ProbeInv)
  <1>1. PreflightInit => IInv
    BY GateInit
  <1>2. IInv /\ ProbeInv /\ [PreflightNext]_all => IInv'
    BY GateStep
  <1> QED
    BY <1>1, <1>2, ProbeInvariant, PTL DEF PreflightSpec

\* Every variable of the three commands and of the probe run has its type, and
\* only the Docker preflight starts a container.
THEOREM PreflightTypes == PreflightSpec => []PreflightTypeOK
  <1>1. IInv /\ ProbeInv => PreflightTypeOK
    <2> SUFFICES ASSUME IInv, ProbeInv PROVE PreflightTypeOK
      OBVIOUS
    <2>1. TypeOK
      BY DEF ProbeInv
    <2>2. /\ command \in Commands /\ status \in {Missing, 0, 1, 2} /\ edits \in 0 .. MaxEdits
          /\ export \in [DOMAIN Exported -> EntryKinds]
          /\ findings # Missing => findings \in [Controls -> {"PASS", "FAIL", "UNAVAILABLE"}]
      BY DEF IInv, CommandTypes, ProbeStatus
    <2>3. /\ denied \subseteq Boundaries /\ altered \subseteq Files
          /\ Len(queue) <= Backlog /\ attempted \in 0 .. Len(Attempts)
      BY DEF IInv, HostTypes
    <2>4. metadata \in Metadata /\ ran.cli \subseteq Contents
      BY DEF IInv, DockerTypes
    <2>5. command # "docker" => pc = "starting" /\ container = "absent"
      BY DEF IInv, CourseInv
    <2> QED
      BY <2>1, <2>2, <2>3, <2>4, <2>5 DEF PreflightTypeOK
  <1> QED
    BY <1>1, GateInvariant, PTL

\* A gate that passed was passed by every control but the review.
LEMMA GatePasses ==
    ASSUME NEW r, NEW m, NEW d, NEW b \in BOOLEAN, BackendGatePassed(DockerFindings(r, m, d, b)),
           NEW c \in Controls \ {"INDEPENDENT_REVIEW"}
    PROVE  Passes(c, r, m, d, b)
  <1>1. DockerFindings(r, m, d, b)[c] = "PASS"
    BY DEF BackendGatePassed
  <1>2. DockerFindings(r, m, d, b)[c] = IF Passes(c, r, m, d, b) THEN "PASS" ELSE "FAIL"
    BY DEF DockerFindings
  <1> HIDE DEF Passes
  <1> QED
    BY <1>1, <1>2

\* When a receipt is made, the gate judged the answer, the export, image and
\* engine; a probe it found unchanged was the one that ran.
LEMMA Judgement ==
    ASSUME IInv, command = "docker", outcome = "receipt", BackendGatePassed(findings)
    PROVE  /\ response \in Responses /\ decision = ExportDecision(export)
           /\ \E unchanged \in BOOLEAN :
                 /\ \A c \in Controls \ {"INDEPENDENT_REVIEW"} :
                       Passes(c, response, metadata, decision, unchanged)
                 /\ unchanged /\ edits <= 1 => ran.probe = expected.probe
  <1>1. Judging /\ at \notin {"running", "parse", "export", "observe"}
    BY DEF Judging, IInv, CourseInv, Receipting
  <1>2. response \in Responses /\ decision = ExportDecision(export)
    BY <1>1 DEF IInv, DockerJudged
  <1>3. PICK unchanged \in BOOLEAN :
           /\ findings = DockerFindings(response, metadata, decision, unchanged)
           /\ unchanged /\ edits <= 1 => ran.probe = expected.probe
    BY <1>1 DEF IInv, DockerJudged
  <1>4. \A c \in Controls \ {"INDEPENDENT_REVIEW"} :
           Passes(c, response, metadata, decision, unchanged)
    BY <1>3, GatePasses
  <1> QED
    BY <1>2, <1>3, <1>4

\* run_docker_isolation_preflight: one change of a file at any moment can not
\* make the receipt name another CLI than was used, or pass a gate for another
\* probe than the one whose digest it holds.
THEOREM OneTamper == PreflightSpec => []OneTamperIsCaught
  <1>1. IInv => OneTamperIsCaught
    <2> SUFFICES ASSUME IInv, command = "docker", outcome = "receipt", edits <= 1
                 PROVE  /\ ran.cli = {expected.cli}
                        /\ BackendGatePassed(findings) => ran.probe = expected.probe
      BY DEF OneTamperIsCaught
    <2>1. ran.cli # {} /\ ran.cli \subseteq {expected.cli}
      BY DEF IInv, CliInv
    <2>2. ASSUME BackendGatePassed(findings) PROVE ran.probe = expected.probe
      <3>1. PICK unchanged \in BOOLEAN :
               /\ \A c \in Controls \ {"INDEPENDENT_REVIEW"} :
                     Passes(c, response, metadata, decision, unchanged)
               /\ unchanged /\ edits <= 1 => ran.probe = expected.probe
        BY <2>2, Judgement
      <3>2. "VERIFIER_PROTECTED" \in Controls \ {"INDEPENDENT_REVIEW"}
        BY DEF Controls
      <3>3. Passes("VERIFIER_PROTECTED", response, metadata, decision, unchanged)
        BY <3>1, <3>2
      <3>4. unchanged
        BY <3>3 DEF Passes
      <3> QED
        BY <3>1, <3>4
    <2> QED
      BY <2>1, <2>2
  <1> QED
    BY <1>1, GateInvariant, PTL

(***************************************************************************)
(* What a passed Docker gate says                                          *)
(***************************************************************************)
LEMMA FieldKinds ==
    /\ ResponseFields = Digests \cup Flags \cup Mounts \cup Optional \cup Required
    /\ Digests \cap (Flags \cup Mounts \cup Optional \cup Required) = {}
    /\ Flags \cap (Mounts \cup Optional \cup Required) = {}
    /\ Mounts \cap (Optional \cup Required) = {}
  <1>1. Digests \cap (Flags \cup Mounts \cup Optional \cup Required) = {}
    BY DEF Digests, Flags, Mounts, Optional, Required
  <1>2. Flags \cap (Mounts \cup Optional \cup Required) = {}
    BY DEF Flags, Mounts, Optional, Required
  <1>3. Mounts \cap (Optional \cup Required) = {}
    BY DEF Mounts, Optional, Required
  <1> QED
    BY <1>1, <1>2, <1>3 DEF ResponseFields

\* What the policy's own answer is, field by field.
LEMMA ConfirmingFields ==
    /\ DOMAIN Confirming = ResponseFields
    /\ \A f \in Digests : Confirming[f] = "null"
    /\ \A f \in Flags : Confirming[f] = IF f = "workspace_write_succeeded" THEN "true" ELSE "false"
    /\ \A f \in Mounts :
          Confirming[f] = IF f \in {"workspace_mount_read_only", "export_mount_read_only"}
                          THEN "false" ELSE "true"
    /\ \A f \in Optional \cup Required : Confirming[f] = "policy"
  <1> USE FieldKinds
  <1>1. \A f \in Digests : Confirming[f] = "null"
    BY DEF Confirming
  <1>2. \A f \in Flags : Confirming[f] = IF f = "workspace_write_succeeded" THEN "true" ELSE "false"
    BY DEF Confirming
  <1>3. \A f \in Mounts :
          Confirming[f] = IF f \in {"workspace_mount_read_only", "export_mount_read_only"}
                          THEN "false" ELSE "true"
    BY DEF Confirming
  <1>4. \A f \in Optional \cup Required : Confirming[f] = "policy"
    BY DEF Confirming
  <1>5. DOMAIN Confirming = ResponseFields
    BY DEF Confirming
  <1> QED
    BY <1>1, <1>2, <1>3, <1>4, <1>5

\* Together the controls look at every field of the answer.
LEMMA EveryFieldJudged ==
    ASSUME NEW r, NEW m, NEW d, NEW b \in BOOLEAN,
           \A c \in Controls \ {"INDEPENDENT_REVIEW"} : Passes(c, r, m, d, b)
    PROVE  \A f \in ResponseFields : r[f] = Confirming[f]
  <1>1. Confined(r) /\ r.history_sha256 = "null" /\ r.credential_sha256 = "null"
    <2>1. /\ Passes("WORKSPACE_CONFINEMENT", r, m, d, b) /\ Passes("HISTORY_HIDDEN", r, m, d, b)
          /\ Passes("CREDENTIAL_SENTINEL_HIDDEN", r, m, d, b)
      BY DEF Controls
    <2> QED
      BY <2>1 DEF Passes
  <1>2. r.verifier_mutation_succeeded = "false" /\ r.probe_mount_read_only = "true"
    <2>1. Passes("VERIFIER_PROTECTED", r, m, d, b)
      BY DEF Controls
    <2> QED
      BY <2>1 DEF Passes
  <1>3. /\ r.network_connection_succeeded = "false" /\ r.network_interfaces = "policy"
        /\ r.foreign_cache_sha256 = "null" /\ r.environment_keys = "policy"
    <2>1. /\ Passes("NETWORK_DENIED", r, m, d, b) /\ Passes("CACHE_ISOLATED", r, m, d, b)
          /\ Passes("PARENT_ENVIRONMENT_REPLACED", r, m, d, b)
      BY DEF Controls
    <2> QED
      BY <2>1 DEF Passes
  <1>4. Limited(r) /\ Unprivileged(r)
    <2>1. /\ Passes("CPU_MEMORY_PID_LIMITS", r, m, d, b) /\ Passes("UNPRIVILEGED_IDENTITY", r, m, d, b)
      BY DEF Controls
    <2> QED
      BY <2>1 DEF Passes
  <1>5. /\ r.seccomp_mode = "policy" /\ r.seccomp_filters = "policy"
        /\ r.sensitive_paths_visible = "policy"
    <2>1. /\ Passes("KERNEL_ISOLATION", r, m, d, b)
          /\ Passes("HOST_CREDENTIAL_BROKER_ISOLATION", r, m, d, b)
      BY DEF Controls
    <2> QED
      BY <2>1 DEF Passes, KernelIsolated
  <1>6. ASSUME NEW f \in Digests PROVE r[f] = "null"
    BY <1>1, <1>3 DEF Digests
  <1>7. ASSUME NEW f \in Flags
        PROVE  r[f] = IF f = "workspace_write_succeeded" THEN "true" ELSE "false"
    BY <1>1, <1>2, <1>3 DEF Flags, Confined
  <1>8. ASSUME NEW f \in Mounts
        PROVE  r[f] = IF f \in {"workspace_mount_read_only", "export_mount_read_only"}
                      THEN "false" ELSE "true"
    BY <1>1, <1>2 DEF Mounts, Confined
  <1>9. ASSUME NEW f \in Optional PROVE r[f] = "policy"
    BY <1>4, <1>5 DEF Optional, Limited, Unprivileged
  <1>10. ASSUME NEW f \in Required PROVE r[f] = "policy"
    BY <1>3, <1>4, <1>5 DEF Required, Limited, Unprivileged
  <1> QED
    BY <1>6, <1>7, <1>8, <1>9, <1>10, ConfirmingFields, FieldKinds

\* So an answer that passes is the policy's own.
LEMMA ConfirmedResponse ==
    ASSUME NEW r \in Responses, \A f \in ResponseFields : r[f] = Confirming[f]
    PROVE  r = Confirming
  <1>1. PICK f \in ResponseFields : \E value \in Typed(f) \cup {"malformed"} :
           r = [Confirming EXCEPT ![f] = value]
    BY DEF Responses
  <1>2. PICK value : r = [Confirming EXCEPT ![f] = value]
    BY <1>1
  <1>3. Confirming = [g \in ResponseFields |-> Confirming[g]]
    BY DEF Confirming
  <1>4. r[f] = value
    BY ONLY <1>2, <1>3, f \in ResponseFields
  <1>5. r = [Confirming EXCEPT ![f] = Confirming[f]]
    BY <1>2, <1>4
  <1> QED
    BY ONLY <1>3, <1>5, f \in ResponseFields

\* Image and engine that pass are those the policy asks for, in a version that
\* is supported.
LEMMA ConfirmedMetadata ==
    ASSUME NEW m \in Metadata, NEW r, NEW d, NEW b \in BOOLEAN,
           \A c \in Controls \ {"INDEPENDENT_REVIEW"} : Passes(c, r, m, d, b)
    PROVE  m \in {Favourable, Newer}
  <1>1. KernelIsolated(r, m) /\ m.environment_keys = "policy"
    <2>1. /\ Passes("KERNEL_ISOLATION", r, m, d, b)
          /\ Passes("PARENT_ENVIRONMENT_REPLACED", r, m, d, b)
      BY DEF Controls
    <2> QED
      BY <2>1 DEF Passes
  <1>2. /\ m.image_os = "linux" /\ m.engine_os = "linux"
        /\ m.image_architecture = m.engine_architecture
        /\ m.version.parses /\ m.version.major = 29
        /\ m.version.minor > 4 \/ (m.version.minor = 4 /\ m.version.patch >= 3)
        /\ m.engine_architecture = "arm64" \/ m.options \cap {"apparmor", "selinux"} # {}
        /\ {"seccomp", "cgroupns"} \subseteq m.options
        /\ m.cgroup_version = "2" /\ m.storage_driver # ""
    BY <1>1 DEF KernelIsolated, EngineVersionSupported, EngineLsmSupported
  <1>v. m.version.major = 29 /\ (m.version.minor > 4 \/ m.version.patch >= 3)
    BY <1>2
  <1>3. m # [Favourable EXCEPT !.image_os = "windows"]
    BY <1>2 DEF Favourable
  <1>4. m # [Favourable EXCEPT !.environment_keys = "other"]
    BY <1>1 DEF Favourable
  <1>5. m # [Favourable EXCEPT !.image_architecture = "arm64"]
    BY <1>2 DEF Favourable
  <1>6. m # [Favourable EXCEPT !.engine_os = "windows"]
    BY <1>2 DEF Favourable
  <1>7. m # [Favourable EXCEPT !.version.patch = 2]
    <2> SUFFICES ASSUME m = [Favourable EXCEPT !.version.patch = 2] PROVE FALSE
      OBVIOUS
    <2>1. m.version = [parses |-> TRUE, major |-> 29, minor |-> 4, patch |-> 2]
      BY DEF Favourable
    <2>2. m.version.major = 29 /\ m.version.minor = 4 /\ m.version.patch = 2
      BY ONLY <2>1
    <2> QED
      BY ONLY <1>v, <2>2
  <1>8. m # [Favourable EXCEPT !.version.major = 30]
    <2> SUFFICES ASSUME m = [Favourable EXCEPT !.version.major = 30] PROVE FALSE
      OBVIOUS
    <2>1. m.version = [parses |-> TRUE, major |-> 30, minor |-> 4, patch |-> 3]
      BY DEF Favourable
    <2>2. m.version.major = 30 /\ m.version.minor = 4 /\ m.version.patch = 3
      BY ONLY <2>1
    <2> QED
      BY ONLY <1>v, <2>2
  <1>9. m # [Favourable EXCEPT !.version.parses = FALSE]
    BY ZenonT(40), <1>2 DEF Favourable
  <1>10. m # [Favourable EXCEPT !.options = @ \ {"apparmor"}]
    BY ZenonT(40), <1>2 DEF Favourable
  <1>11. m # [Favourable EXCEPT !.options = @ \ {"seccomp"}]
    BY ZenonT(40), <1>2 DEF Favourable
  <1>12. m # [Favourable EXCEPT !.options = @ \ {"cgroupns"}]
    BY ZenonT(40), <1>2 DEF Favourable
  <1>13. m # [Favourable EXCEPT !.cgroup_version = "1"]
    BY <1>2 DEF Favourable
  <1>14. m # [Favourable EXCEPT !.storage_driver = ""]
    BY <1>2 DEF Favourable
  <1> QED
    BY <1>3, <1>4, <1>5, <1>6, <1>7, <1>8, <1>9, <1>10, <1>11, <1>12, <1>13, <1>14 DEF Metadata

\* An export that is rejected as it should be holds a file that is not allowed.
LEMMA RejectedExport ==
    ASSUME NEW e \in [DOMAIN Exported -> EntryKinds], ExportDecision(e) = ExpectedRejection
    PROVE  \E name \in DOMAIN Exported \ (AllowedExports \cup {"root"}) : e[name] \in {"regular", "large"}
  <1> DEFINE S == Objections(e)
             i == Min(S)
  <1>1. DOMAIN EntryNames = 1 .. 4 /\ S \subseteq 1 .. 4
    BY DEF EntryNames, Objections
  <1>2. /\ EntryNames[1] = ".early" /\ EntryNames[2] = "artifact.json"
        /\ EntryNames[3] = "extra.txt" /\ EntryNames[4] = "late"
    BY DEF EntryNames
  <1>3. S # {} /\ Objection(EntryNames[i], e[EntryNames[i]]) = ExpectedRejection
    BY DEF ExportDecision, ExpectedRejection
  <1>4. i \in S
    <2>1. \E x \in S : \A y \in S : x <= y
      <3>1. CASE 1 \in S
        BY <1>1, <3>1
      <3>2. CASE 1 \notin S /\ 2 \in S
        BY <1>1, <3>2
      <3>3. CASE 1 \notin S /\ 2 \notin S /\ 3 \in S
        BY <1>1, <3>3
      <3>4. CASE 1 \notin S /\ 2 \notin S /\ 3 \notin S
        BY <1>1, <1>3, <3>4
      <3> QED
        BY <3>1, <3>2, <3>3, <3>4
    <2> QED
      BY <2>1 DEF Min
  <1> HIDE DEF i, S
  <1>5. i = 1 \/ i = 2 \/ i = 3 \/ i = 4
    BY <1>1, <1>4
  <1> DEFINE name == EntryNames[i]
  <1>6. name \in DOMAIN Exported \ {"root"}
    BY ONLY <1>2, <1>5, ExportedNames
  <1> HIDE DEF name
  <1>7. Objection(name, e[name]) = "unauthorized export path rejected"
    BY <1>3 DEF ExpectedRejection, name
  <1>8. e[name] \in {"regular", "large"} /\ name \notin AllowedExports
    BY <1>7 DEF Objection
  <1> QED
    BY <1>6, <1>8

\* run_docker_isolation_preflight and docker-isolation-preflight: status 0
\* means that the policy held in every respect that is looked at.
THEOREM DockerGate == PreflightSpec => []DockerGateIsEarned
  <1>1. IInv /\ ProbeInv => DockerGateIsEarned
    <2> SUFFICES ASSUME IInv, ProbeInv, command = "docker", status = 0
                 PROVE  /\ response = Confirming /\ outcome = "receipt" /\ container # "running"
                        /\ metadata \in {Favourable, Newer}
                        /\ \E name \in DOMAIN Exported \ (AllowedExports \cup {"root"}) :
                              export[name] \in {"regular", "large"}
      BY DEF DockerGateIsEarned
    <2>1. outcome = "receipt" /\ BackendGatePassed(findings)
      BY DEF IInv, DockerJudged
    <2>2. container # "running"
      BY <2>1 DEF ProbeInv, StageInv, ExitInv
    <2>3. response \in Responses /\ decision = ExportDecision(export)
      BY <2>1, Judgement
    <2>4. PICK unchanged \in BOOLEAN :
             \A c \in Controls \ {"INDEPENDENT_REVIEW"} :
                Passes(c, response, metadata, decision, unchanged)
      BY <2>1, Judgement
    <2>5. response = Confirming
      BY <2>3, <2>4, EveryFieldJudged, ConfirmedResponse
    <2>6. metadata \in Metadata /\ export \in [DOMAIN Exported -> EntryKinds]
      BY DEF IInv, DockerTypes, CommandTypes
    <2>7. metadata \in {Favourable, Newer}
      BY <2>4, <2>6, ConfirmedMetadata
    <2>8. decision = ExpectedRejection
      <3>1. Passes("EXPORT_ALLOWLIST", response, metadata, decision, unchanged)
        BY <2>4 DEF Controls
      <3> QED
        BY <3>1 DEF Passes
    <2> QED
      BY <2>1, <2>2, <2>3, <2>5, <2>6, <2>7, <2>8, RejectedExport
  <1> QED
    BY <1>1, GateInvariant, PTL

\* run_host_process_negative_control: status 0 means that the probe broke out
\* wherever the host did not deny it, and that a recorded connection was its own.
THEOREM NegativeControl == PreflightSpec => []NegativeControlIsTrue
  <1>1. IInv => NegativeControlIsTrue
    <2> SUFFICES ASSUME IInv, command = "host", status = 0
                 PROVE  /\ edits = 0 => /\ denied \subseteq {"network"} /\ outside
                                        /\ "verifier" \in altered
                        /\ findings["NETWORK_DENIED"] = "FAIL" => "network" \notin denied /\ listening
      BY DEF NegativeControlIsTrue
    <2>1. /\ findings = HostFindings(response, seen, decision) /\ HarnessPassed(findings)
          /\ attempted = Len(Attempts)
          /\ edits = 0 => /\ seen.outside_written = TRUE => outside = TRUE
                          /\ seen.verifier_changed = TRUE => "verifier" \in altered
      BY DEF IInv, HostJudged
    <2>2. \A c \in Controls : findings[c] = HostStatus(c, response, seen, decision)
      BY <2>1 DEF HostFindings
    <2>3. /\ findings["WORKSPACE_CONFINEMENT"] = "FAIL" /\ findings["HISTORY_HIDDEN"] = "FAIL"
          /\ findings["VERIFIER_PROTECTED"] = "FAIL"
          /\ findings["CREDENTIAL_SENTINEL_HIDDEN"] = "FAIL" /\ findings["CACHE_ISOLATED"] = "FAIL"
      BY <2>1 DEF HarnessPassed, Controls, Unavailable
    <2>4. /\ response.history_sha256 = "sentinel" /\ response.credential_sha256 = "sentinel"
          /\ response.foreign_cache_sha256 = "sentinel"
      BY <2>2, <2>3 DEF Controls, HostStatus, Fails
    <2>5. seen.outside_written /\ seen.verifier_changed
      BY <2>2, <2>3 DEF Controls, HostStatus, Fails
    <2>6. findings["NETWORK_DENIED"] = "FAIL" => seen.connected
      BY <2>2 DEF Controls, HostStatus, Fails
    <2>7. seen \in Observed
      BY DEF IInv, HostFlags
    <2>8. seen.outside_written \in BOOLEAN /\ seen.verifier_changed \in BOOLEAN /\ seen.connected \in BOOLEAN
      BY ONLY <2>7 DEF Observed
    <2>9. /\ seen.outside_written = TRUE /\ seen.verifier_changed = TRUE
          /\ findings["NETWORK_DENIED"] = "FAIL" => seen.connected = TRUE
      BY ONLY <2>5, <2>6, <2>8, Zenon
    <2>10. findings["NETWORK_DENIED"] = "FAIL" => "network" \notin denied /\ listening = TRUE
      BY <2>9 DEF IInv, AttemptsInv
    <2>11. /\ DOMAIN Sentinels = {"history", "credential", "cache"}
           /\ Sentinels["history"] = "history_sha256" /\ Sentinels["credential"] = "credential_sha256"
           /\ Sentinels["cache"] = "foreign_cache_sha256"
      BY DEF Sentinels
    <2>12. {"history", "credential", "cache"} \cap denied = {}
      <3>1. attempted >= 2
        BY <2>1 DEF Attempts
      <3>2. \A s \in DOMAIN Sentinels : response[Sentinels[s]] = "sentinel" => s \notin denied
        BY <3>1 DEF IInv, AttemptsInv
      <3> QED
        BY <2>4, <2>11, <3>2
    <2>13. edits = 0 => /\ outside = TRUE /\ "verifier" \in altered
                        /\ "outside" \notin denied /\ "verifier" \notin denied
      BY <2>1, <2>9 DEF IInv, AttemptsInv
    <2>14. denied \subseteq {"history", "credential", "cache", "outside", "verifier", "network"}
      BY <2>11 DEF IInv, HostTypes, Boundaries
    <2>15. edits = 0 => denied \subseteq {"network"}
      BY ONLY <2>12, <2>13, <2>14
    <2> QED
      BY ONLY <2>10, <2>13, <2>15, Zenon
  <1> QED
    BY <1>1, GateInvariant, PTL

(***************************************************************************)
(* No command goes on for ever                                             *)
(***************************************************************************)
\* The three numbers RunLeft is made of.
LEMMA RunLeftType ==
    ASSUME ProbeInv
    PROVE  /\ MaxOutput - Total(kept) \in Nat /\ OpenStreams \in Nat /\ CallLeft \in Nat
           /\ RunLeft \in Nat
  <1>1. MaxOutput - Total(kept) \in Nat
    <2>1. kept["stdout"] \in Nat /\ kept["stderr"] \in Nat /\ Total(kept) <= MaxOutput
      BY TypeParts, CountsAt DEF ProbeInv, Counts, Streams
    <2> QED
      BY <2>1, ProbeConstants DEF Total
  <1>2. OpenStreams \in Nat
    BY DEF OpenStreams, Total, Streams
  <1>3. CallLeft \in Nat
    <2>1. pc \in Stages
      BY TypeParts DEF ProbeInv, Scalars
    <2> QED
      BY <2>1 DEF CallLeft, Stages, InCall
  <1>4. RunLeft = (MaxOutput - Total(kept)) + OpenStreams + CallLeft
    BY DEF RunLeft
  <1> QED
    BY ONLY <1>1, <1>2, <1>3, <1>4

LEMMA RunLeftNext == ProbeInv' => RunLeft' \in Nat
  <1> SUFFICES ASSUME ProbeInv' PROVE RunLeft' \in Nat
    OBVIOUS
  <1>1. MaxOutput - Total(kept') \in Nat
    <2>1. Counts' /\ kept' \in [Streams -> 0 .. MaxWritten] /\ Total(kept') <= MaxOutput
      BY TypeParts DEF ProbeInv, Counts, Total
    <2>2. kept'["stdout"] \in Nat /\ kept'["stderr"] \in Nat
      BY <2>1, ProbeConstants DEF Streams
    <2> QED
      BY <2>1, <2>2, ProbeConstants DEF Total
  <1>2. OpenStreams' \in Nat
    BY DEF OpenStreams, Total, Streams
  <1>3. CallLeft' \in Nat
    <2>1. pc' \in Stages
      BY TypeParts DEF ProbeInv, Scalars
    <2> QED
      BY <2>1 DEF CallLeft, Stages, InCall
  <1>4. RunLeft' = (MaxOutput - Total(kept')) + OpenStreams' + CallLeft'
    BY DEF RunLeft, Total
  <1> QED
    BY ONLY <1>1, <1>2, <1>3, <1>4

\* A step of the caller reads something, gives up a stream, or gets on.
LEMMA SupervisionLeft == ASSUME ProbeInv, Supervision PROVE RunLeft' < RunLeft
  <1>0. /\ MaxOutput - Total(kept) \in Nat /\ OpenStreams \in Nat /\ CallLeft \in Nat
        /\ Scalars /\ Counts
    BY RunLeftType, TypeParts DEF ProbeInv
  <1>1. CASE ReadChunk
    <2>1. pc = "reading" /\ UNCHANGED open
      BY <1>1 DEF ReadChunk
    <2>2. OpenStreams' = OpenStreams
      BY <2>1 DEF OpenStreams, Total
    <2>3. CASE pc' = "killing" /\ UNCHANGED kept
      <3>1. CallLeft = 5 /\ CallLeft' = 3
        BY <2>1, <2>3 DEF CallLeft
      <3>2. Total(kept)' = Total(kept)
        BY <2>3 DEF Total
      <3> QED
        BY <1>0, <2>2, <3>1, <3>2 DEF RunLeft
    <2>4. CASE UNCHANGED pc /\ \E s \in open :
                  Available(s) > 0 /\ kept' = [kept EXCEPT ![s] = @ + Available(s)]
      <3>1. PICK s \in open :
                  Available(s) > 0 /\ kept' = [kept EXCEPT ![s] = @ + Available(s)]
        BY <2>4
      <3> DEFINE n == Available(s)
      <3>2. s \in Streams /\ kept \in [Streams -> 0 .. MaxWritten]
        BY <1>0 DEF Scalars, Counts
      <3>3. n \in Nat /\ n > 0
        <4>1. kept[s] \in Nat /\ written[s] \in Nat /\ kept[s] <= written[s]
          BY <1>0, <3>2, CountsAt DEF Counts
        <4> QED
          BY <3>1, <4>1, ProbeConstants DEF Available, Least, Piped
      <3>4. kept' = [kept EXCEPT ![s] = kept[s] + n]
        BY <3>1
      <3> HIDE DEF n
      <3>5. Total(kept)' = Total(kept) + n /\ Total(kept) \in Nat
        <4>1. kept["stdout"] \in Nat /\ kept["stderr"] \in Nat
          BY <1>0, CountsAt DEF Streams
        <4> QED
          BY <3>2, <3>3, <3>4, <4>1 DEF Total, Streams
      <3>6. CallLeft' = CallLeft
        BY <2>1, <2>4 DEF CallLeft
      <3> QED
        BY <1>0, <2>2, <3>3, <3>5, <3>6, ProbeConstants DEF RunLeft
    <2> QED
      BY <1>1, <2>3, <2>4 DEF ReadChunk, Goto
  <1>2. CASE ReadEnd
    <2>1. PICK s \in open : open' = open \ {s}
      BY <1>2 DEF ReadEnd
    <2>2. s \in Streams
      BY <1>0, <2>1 DEF Scalars
    <2>3. OpenStreams' < OpenStreams /\ OpenStreams' \in Nat
      BY <2>1, <2>2 DEF OpenStreams, Total, Streams
    <2>4. pc = "reading" /\ UNCHANGED <<pc, kept>>
      BY <1>2 DEF ReadEnd
    <2>5. CallLeft' = CallLeft /\ Total(kept)' = Total(kept)
      BY <2>4 DEF CallLeft, Total
    <2> QED
      BY <1>0, <2>3, <2>5 DEF RunLeft
  <1>3. CASE ~ReadChunk /\ ~ReadEnd
    <2>1. UNCHANGED <<kept, open>>
      BY <1>3 DEF Supervision, Spawn, Feed, DeadlinePassed, LeaveLoop, WaitForExit, Killed,
                  CheckStatus, SendRemove, RemoveReturns
    <2>2. OpenStreams' = OpenStreams /\ Total(kept)' = Total(kept)
      BY <2>1 DEF OpenStreams, Total
    <2>3. \/ pc = "starting" /\ pc' = "feeding"
          \/ pc = "starting" /\ pc' = "removing"
          \/ pc = "feeding" /\ pc' \in {"reading", "removing"}
          \/ pc = "reading" /\ pc' \in {"killing", "waiting"}
          \/ pc = "waiting" /\ pc' \in {"checking", "killing"}
          \/ pc = "killing" /\ pc' = "removing"
          \/ pc = "checking" /\ pc' \in {"validating", "removing"}
          \/ pc = "removing" /\ pc' = "removing" /\ rm = "none" /\ rm' = "sent"
          \/ pc = "removing" /\ pc' = "ended"
      BY <1>3 DEF Supervision, Spawn, Feed, DeadlinePassed, LeaveLoop, WaitForExit, Killed,
                  CheckStatus, SendRemove, RemoveReturns, Goto, CleansUp
    <2>4. CallLeft' < CallLeft /\ CallLeft' \in Nat
      BY <2>3 DEF CallLeft
    <2> QED
      BY <1>0, <2>2, <2>4 DEF RunLeft
  <1> QED
    BY <1>1, <1>2, <1>3

\* Nobody else gives the caller more to do.
LEMMA OthersLeft ==
    ASSUME ProbeInv, Validate \/ Interrupt \/ Environment \/ DeadlineExpires \/ UNCHANGED vars
    PROVE  RunLeft' <= RunLeft
  <1>0. /\ MaxOutput - Total(kept) \in Nat /\ OpenStreams \in Nat /\ CallLeft \in Nat
    BY RunLeftType
  <1>1. /\ UNCHANGED <<kept, open>>
        /\ \/ pc' = "ended"
           \/ UNCHANGED pc /\ (rm' = rm \/ (rm = "sent" /\ rm' = "done"))
    <2>1. CASE Validate \/ Interrupt
      BY <2>1 DEF Validate, Interrupt, Ends, Goto
    <2>2. CASE Environment
      BY <2>2 DEF Environment, CliAsks, CliWrites, CliExits, DaemonActs, DaemonRemoves,
                  ContainerExits, caller
    <2>3. CASE DeadlineExpires \/ UNCHANGED vars
      BY <2>3 DEF DeadlineExpires, vars, caller
    <2> QED
      BY <2>1, <2>2, <2>3
  <1>2. OpenStreams' = OpenStreams /\ Total(kept)' = Total(kept)
    BY <1>1 DEF OpenStreams, Total
  <1>3. CallLeft' <= CallLeft /\ CallLeft' \in Nat
    <2>1. CASE pc' = "ended"
      <3>1. CallLeft' = 0
        BY <2>1 DEF CallLeft
      <3> QED
        BY <1>0, <3>1
    <2>2. CASE UNCHANGED pc /\ (rm' = rm \/ (rm = "sent" /\ rm' = "done"))
      <3>1. CallLeft' = CallLeft
        BY <2>2 DEF CallLeft
      <3> QED
        BY <1>0, <3>1
    <2> QED
      BY <1>1, <2>1, <2>2
  <1> QED
    BY <1>0, <1>2, <1>3 DEF RunLeft

\* The values of the measure over the stages.
LEMMA ReceiptStagesLeft ==
    /\ (at = "exists" => StageLeft = 18) /\ (at' = "exists" => StageLeft' = 18)
    /\ (at = "plan" => StageLeft = 4) /\ (at' = "plan" => StageLeft' = 4)
    /\ (at = "open receipt" => StageLeft = 3) /\ (at' = "open receipt" => StageLeft' = 3)
    /\ (at = "write receipt" => StageLeft = 2) /\ (at' = "write receipt" => StageLeft' = 2)
    /\ (at = "print" => StageLeft = 1) /\ (at' = "print" => StageLeft' = 1)
    /\ (at = "ended" => StageLeft = 0) /\ (at' = "ended" => StageLeft' = 0)
  BY DEF StageLeft

LEMMA HostStagesLeft ==
    /\ (at = "prepare" => StageLeft = 17) /\ (at' = "prepare" => StageLeft' = 17)
    /\ (at = "hash files" => StageLeft = 16) /\ (at' = "hash files" => StageLeft' = 16)
    /\ (at = "listen" => StageLeft = 15) /\ (at' = "listen" => StageLeft' = 15)
    /\ (at = "probe" => StageLeft = 14) /\ (at' = "probe" => StageLeft' = 14)
    /\ (at = "accept" => StageLeft = 13) /\ (at' = "accept" => StageLeft' = 13)
    /\ (at = "receive" => StageLeft = 12) /\ (at' = "receive" => StageLeft' = 12)
    /\ (at = "evaluate" => StageLeft = 11) /\ (at' = "evaluate" => StageLeft' = 11)
    /\ (at = "hash verifier" => StageLeft = 10) /\ (at' = "hash verifier" => StageLeft' = 10)
    /\ (at = "look outside" => StageLeft = 9) /\ (at' = "look outside" => StageLeft' = 9)
    /\ (at = "open receipt" => StageLeft = 3) /\ (at' = "open receipt" => StageLeft' = 3)
    /\ (at = "ended" => StageLeft = 0) /\ (at' = "ended" => StageLeft' = 0)
  BY DEF StageLeft

LEMMA InspectionsLeft ==
    /\ (at = "hash cli" => StageLeft = 17) /\ (at' = "hash cli" => StageLeft' = 17)
    /\ (at = "endpoint" => StageLeft = 16) /\ (at' = "endpoint" => StageLeft' = 16)
    /\ (at = "image" => StageLeft = 15) /\ (at' = "image" => StageLeft' = 15)
    /\ (at = "engine version" => StageLeft = 14) /\ (at' = "engine version" => StageLeft' = 14)
    /\ (at = "engine info" => StageLeft = 13) /\ (at' = "engine info" => StageLeft' = 13)
    /\ (at = "accept engine" => StageLeft = 12) /\ (at' = "accept engine" => StageLeft' = 12)
    /\ (at = "copy probe" => StageLeft = 11) /\ (at' = "copy probe" => StageLeft' = 11)
    /\ (at = "hash probe" => StageLeft = 10) /\ (at' = "hash probe" => StageLeft' = 10)
    /\ (at = "compare copy" => StageLeft = 9) /\ (at' = "compare copy" => StageLeft' = 9)
    /\ (at = "running" => StageLeft = 8) /\ (at' = "running" => StageLeft' = 8)
    /\ (at = "ended" => StageLeft = 0) /\ (at' = "ended" => StageLeft' = 0)
  BY DEF StageLeft

LEMMA JudgementsLeft ==
    /\ (at = "running" => StageLeft = 8) /\ (at' = "running" => StageLeft' = 8)
    /\ (at = "parse" => StageLeft = 7) /\ (at' = "parse" => StageLeft' = 7)
    /\ (at = "export" => StageLeft = 6) /\ (at' = "export" => StageLeft' = 6)
    /\ (at = "observe" => StageLeft = 5) /\ (at' = "observe" => StageLeft' = 5)
    /\ (at = "check cli" => StageLeft = 4) /\ (at' = "check cli" => StageLeft' = 4)
    /\ (at = "open receipt" => StageLeft = 3) /\ (at' = "open receipt" => StageLeft' = 3)
    /\ (at = "ended" => StageLeft = 0) /\ (at' = "ended" => StageLeft' = 0)
  BY DEF StageLeft

\* Every stage but the last is ahead of the end.
LEMMA StageAhead == IInv => StageLeft \in Nat
  <1> SUFFICES ASSUME IInv PROVE StageLeft \in Nat
    OBVIOUS
  <1>1. at \in {"exists", "plan", "ended"} \cup Receipting \cup HostStages \cup DockerStages
    BY DEF IInv, CommandTypes
  <1>2. at \in {"exists", "plan", "ended"} \cup Receipting => StageLeft \in {18, 4, 3, 2, 1, 0}
    BY ReceiptStagesLeft DEF Receipting
  <1>3. at \in HostStages => StageLeft \in {17, 16, 15, 14, 13, 12, 11, 10, 9}
    BY HostStagesLeft DEF HostStages, BeforeProbe, AfterProbe
  <1>4. at \in BeforeRun => StageLeft \in {17, 16, 15, 14, 13, 12, 11, 10, 9}
    BY InspectionsLeft DEF BeforeRun
  <1>5. at \in {"running"} \cup AfterRun => StageLeft \in {8, 7, 6, 5, 4}
    BY JudgementsLeft DEF AfterRun
  <1>6. StageLeft \in {18, 17, 16, 15, 14, 13, 12, 11, 10, 9, 8, 7, 6, 5, 4, 3, 2, 1, 0}
    BY <1>1, <1>2, <1>3, <1>4, <1>5 DEF DockerStages
  <1> QED
    BY ONLY <1>6

LEMMA StageAheadNext == IInv' => StageLeft' \in Nat
  <1> SUFFICES ASSUME IInv' PROVE StageLeft' \in Nat
    OBVIOUS
  <1>1. at' \in {"exists", "plan", "ended"} \cup Receipting \cup HostStages \cup DockerStages
    BY DEF IInv, CommandTypes
  <1>2. at' \in {"exists", "plan", "ended"} \cup Receipting => StageLeft' \in {18, 4, 3, 2, 1, 0}
    BY ReceiptStagesLeft DEF Receipting
  <1>3. at' \in HostStages => StageLeft' \in {17, 16, 15, 14, 13, 12, 11, 10, 9}
    BY HostStagesLeft DEF HostStages, BeforeProbe, AfterProbe
  <1>4. at' \in BeforeRun => StageLeft' \in {17, 16, 15, 14, 13, 12, 11, 10, 9}
    BY InspectionsLeft DEF BeforeRun
  <1>5. at' \in {"running"} \cup AfterRun => StageLeft' \in {8, 7, 6, 5, 4}
    BY JudgementsLeft DEF AfterRun
  <1>6. StageLeft' \in {18, 17, 16, 15, 14, 13, 12, 11, 10, 9, 8, 7, 6, 5, 4, 3, 2, 1, 0}
    BY <1>1, <1>2, <1>3, <1>4, <1>5 DEF DockerStages
  <1> QED
    BY ONLY <1>6

LEMMA StageIdle == at' = at => StageLeft' = StageLeft
  BY DEF StageLeft

\* The three numbers StepsLeft is made of, before and after a step.
LEMMA StepsLeftType ==
    ASSUME IInv, ProbeInv, IInv', ProbeInv'
    PROVE  /\ StageLeft \in Nat /\ StageLeft' \in Nat /\ RunLeft \in Nat /\ RunLeft' \in Nat
           /\ Len(Attempts) - attempted \in Nat /\ Len(Attempts) - attempted' \in Nat
           /\ attempted \in Nat /\ attempted' \in Nat
  <1>1. StageLeft \in Nat /\ StageLeft' \in Nat
    BY StageAhead, StageAheadNext
  <1>2. RunLeft \in Nat /\ RunLeft' \in Nat
    BY RunLeftType, RunLeftNext
  <1>3. attempted \in 0 .. Len(Attempts) /\ attempted' \in 0 .. Len(Attempts) /\ Len(Attempts) \in Nat
    <2>1. Len(Attempts) = 5
      BY DEF Attempts
    <2> QED
      BY <2>1 DEF IInv, HostTypes
  <1> QED
    BY <1>1, <1>2, <1>3

\* When the probe run does not move, it has as much left to do as before.
LEMMA RunIdle == UNCHANGED vars => RunLeft' = RunLeft
  <1> SUFFICES ASSUME UNCHANGED vars PROVE RunLeft' = RunLeft
    OBVIOUS
  <1>1. pc' = pc /\ rm' = rm /\ kept' = kept /\ open' = open
    BY DEF vars, caller
  <1>2. Total(kept)' = Total(kept) /\ OpenStreams' = OpenStreams
    BY <1>1 DEF OpenStreams, Total
  <1>3. CallLeft' = CallLeft
    BY <1>1 DEF CallLeft
  <1> QED
    BY <1>2, <1>3 DEF RunLeft

\* A step the commands share, and an error, are steps to a later stage.
LEMMA SharedAdvances ==
    ASSUME IInv, SharedStep
    PROVE  StageLeft' < StageLeft /\ UNCHANGED attempted /\ UNCHANGED vars
  <1>1. UNCHANGED attempted /\ UNCHANGED vars
    BY DEF SharedStep, host
  <1>2. \/ at = "exists" /\ (at' = "ended" \/ at' = First[command])
        \/ at = "plan" /\ at' = "open receipt"
        \/ at = "open receipt" /\ at' = "write receipt"
        \/ at = "write receipt" /\ at' = "print"
        \/ at = "print" /\ at' = "ended"
    BY DEF SharedStep, CheckOutput, MakePlan, OpenReceipt, WriteReceipt, PrintReceipt, Advance, Exit
  <1>3. First[command] \in {"prepare", "hash cli", "plan"}
    <2>1. First["host"] = "prepare" /\ First["docker"] = "hash cli" /\ First["plan"] = "plan"
      BY DEF First
    <2>2. command = "host" \/ command = "docker" \/ command = "plan"
      BY DEF IInv, CommandTypes, Commands
    <2> QED
      BY <2>1, <2>2
  <1>4. /\ at' = "prepare" => StageLeft' = 17
        /\ at' = "hash cli" => StageLeft' = 17
    BY HostStagesLeft, InspectionsLeft
  <1>5. \/ StageLeft = 18 /\ (StageLeft' = 17 \/ StageLeft' = 4 \/ StageLeft' = 0)
        \/ StageLeft = 4 /\ StageLeft' = 3
        \/ StageLeft = 3 /\ StageLeft' = 2
        \/ StageLeft = 2 /\ StageLeft' = 1
        \/ StageLeft = 1 /\ StageLeft' = 0
    BY <1>2, <1>3, <1>4, ReceiptStagesLeft
  <1>6. StageLeft' < StageLeft
    BY ONLY <1>5
  <1> QED
    BY <1>1, <1>6

LEMMA ErrorAdvances ==
    ASSUME IInv, ProbeInv, ErrorStep
    PROVE  StageLeft' <= StageLeft /\ UNCHANGED attempted /\ RunLeft' <= RunLeft
  <1>1. UNCHANGED attempted /\ at' = "ended"
    BY DEF ErrorStep, Fail, Exit, host
  <1>2. StageLeft \in Nat
    BY StageAhead
  <1>3. StageLeft' <= StageLeft
    <2>1. StageLeft' = 0
      BY <1>1, ReceiptStagesLeft
    <2> QED
      BY ONLY <1>2, <2>1
  <1>4. RunLeft' <= RunLeft
    <2>1. Validate \/ UNCHANGED vars
      BY DEF ErrorStep
    <2> QED
      BY <2>1, OthersLeft
  <1> QED
    BY <1>1, <1>3, <1>4

\* A step of the host preflight is one of its probe, or leads to a later stage.
LEMMA HostAdvances ==
    ASSUME IInv, HostCommand
    PROVE  /\ UNCHANGED vars
           /\ \/ StageLeft' < StageLeft /\ UNCHANGED attempted
              \/ StageLeft' = StageLeft /\ attempted' = attempted + 1
  <1>1. command = "host" /\ HostStep /\ UNCHANGED vars
    BY DEF HostCommand
  <1>2. CASE ProbeAttempts
    BY <1>1, <1>2, StageIdle DEF ProbeAttempts
  <1>3. CASE ~ProbeAttempts
    <2>1. UNCHANGED attempted /\ (at = "probe" => at' # "probe")
      BY <1>1, <1>3 DEF HostStep, Prepare, HashFiles, Listen, ProbeBreaks, ProbeAnswers, Accept, Receive,
         EvaluateExport, HashVerifier, LookOutside, Advance, Exit, host
    <2>2. StageLeft' < StageLeft
      <3>1. \/ StageLeft = 17 /\ StageLeft' = 16
            \/ StageLeft = 16 /\ StageLeft' = 15
            \/ StageLeft = 15 /\ StageLeft' = 14
            \/ StageLeft = 14 /\ (StageLeft' = 13 \/ StageLeft' = 11 \/ StageLeft' = 0)
            \/ StageLeft = 13 /\ (StageLeft' = 12 \/ StageLeft' = 11)
            \/ StageLeft = 12 /\ StageLeft' = 11
            \/ StageLeft = 11 /\ StageLeft' = 10
            \/ StageLeft = 10 /\ StageLeft' = 9
            \/ StageLeft = 9 /\ StageLeft' = 3
        BY <1>1, <2>1, HostMoves, HostStagesLeft
      <3> QED
        BY ONLY <3>1
    <2> QED
      BY <1>1, <2>1, <2>2
  <1> QED
    BY <1>2, <1>3

\* A step of the Docker preflight is one of its call, or leads to a later stage.
LEMMA DockerAdvances ==
    ASSUME IInv, ProbeInv, DockerCommand
    PROVE  /\ UNCHANGED attempted
           /\ \/ StageLeft' < StageLeft /\ RunLeft' <= RunLeft
              \/ StageLeft' = StageLeft /\ RunLeft' < RunLeft
  <1>0. command = "docker" /\ DockerStep /\ UNCHANGED attempted
    BY DEF DockerCommand, host
  <1>1. CASE HashCli \/ Inspect \/ AcceptEngine \/ CopyProbe \/ HashProbe \/ CompareCopy
    <2>1. UNCHANGED vars
      BY <1>1 DEF HashCli, Inspect, AcceptEngine, CopyProbe, HashProbe, CompareCopy
    <2>2. RunLeft' <= RunLeft
      BY <2>1, OthersLeft
    <2>3. /\ at \in BeforeRun
          /\ \/ at' = "ended"
             \/ at = "hash cli" /\ at' = "endpoint"
             \/ at = "endpoint" /\ at' = "image"
             \/ at = "image" /\ at' = "engine version"
             \/ at = "engine version" /\ at' = "engine info"
             \/ at = "engine info" /\ at' = "accept engine"
             \/ at = "accept engine" /\ at' = "copy probe"
             \/ at = "copy probe" /\ at' = "hash probe"
             \/ at = "hash probe" /\ at' = "compare copy"
             \/ at = "compare copy" /\ at' = "running"
      BY <1>0, <1>1, <2>1, DockerBefore
    <2>4. StageLeft' < StageLeft
      <3>1. \/ StageLeft \in {17, 16, 15, 14, 13, 12, 11, 10, 9} /\ StageLeft' = 0
            \/ StageLeft = 17 /\ StageLeft' = 16
            \/ StageLeft = 16 /\ StageLeft' = 15
            \/ StageLeft = 15 /\ StageLeft' = 14
            \/ StageLeft = 14 /\ StageLeft' = 13
            \/ StageLeft = 13 /\ StageLeft' = 12
            \/ StageLeft = 12 /\ StageLeft' = 11
            \/ StageLeft = 11 /\ StageLeft' = 10
            \/ StageLeft = 10 /\ StageLeft' = 9
            \/ StageLeft = 9 /\ StageLeft' = 8
        BY <2>3, InspectionsLeft DEF BeforeRun
      <3> QED
        BY ONLY <3>1
    <2> QED
      BY <1>0, <2>2, <2>4
  <1>2. CASE Supervise
    <2>1. at' = at /\ Supervision
      BY <1>2 DEF Supervise, preflight
    <2> QED
      BY <1>0, <2>1, SupervisionLeft, StageIdle
  <1>3. CASE Raised \/ LeaveRun \/ ParseResponse \/ JudgeExport \/ Observe \/ CheckCli
    <2>1. Validate \/ UNCHANGED vars
      BY <1>3 DEF Raised, LeaveRun, ParseResponse, JudgeExport, Observe, CheckCli, Invalid
    <2>2. RunLeft' <= RunLeft
      BY <2>1, OthersLeft
    <2>3. \/ at \in {"running"} \cup AfterRun /\ at' = "ended"
          \/ at = "running" /\ at' = "parse"
          \/ at = "parse" /\ at' = "export"
          \/ at = "export" /\ at' = "observe"
          \/ at = "observe" /\ at' = "check cli"
          \/ at = "check cli" /\ at' = "open receipt"
      BY <1>3 DEF Raised, LeaveRun, ParseResponse, JudgeExport, Observe, CheckCli, Invalid, Advance, Exit,
         AfterRun
    <2>4. StageLeft' < StageLeft
      <3>1. \/ StageLeft \in {8, 7, 6, 5, 4} /\ StageLeft' = 0
            \/ StageLeft = 8 /\ StageLeft' = 7
            \/ StageLeft = 7 /\ StageLeft' = 6
            \/ StageLeft = 6 /\ StageLeft' = 5
            \/ StageLeft = 5 /\ StageLeft' = 4
            \/ StageLeft = 4 /\ StageLeft' = 3
        BY <2>3, JudgementsLeft DEF AfterRun
      <3> QED
        BY ONLY <3>1
    <2> QED
      BY <1>0, <2>2, <2>4
  <1> QED
    BY <1>0, <1>1, <1>2, <1>3 DEF DockerStep

\* What surrounds a command moves no stage and makes no attempt of the probe.
LEMMA OthersIdle ==
    ASSUME IInv, ProbeInv, Others \/ UNCHANGED all
    PROVE  UNCHANGED <<at, attempted>> /\ RunLeft' <= RunLeft
  <1>1. UNCHANGED <<at, attempted>> /\ (Interrupt \/ Environment \/ DeadlineExpires \/ UNCHANGED vars)
    <2>1. CASE command = "host" /\ UNCHANGED vars /\ (ClientActs \/ HostEdit)
      BY <2>1 DEF ClientActs, HostEdit, preflight
    <2>2. CASE UNCHANGED host /\ (InterruptRun \/ Surroundings \/ TimePasses)
      BY <2>2 DEF InterruptRun, Surroundings, TimePasses, preflight, host
    <2>3. CASE UNCHANGED host /\ DockerEdit
      BY <2>3 DEF DockerEdit, host
    <2>4. CASE UNCHANGED all
      BY <2>4 DEF all, preflight, host
    <2> QED
      BY <2>1, <2>2, <2>3, <2>4 DEF Others
  <1> QED
    BY <1>1, OthersLeft

\* Every step of a command lowers StepsLeft, and no other step raises it: what is
\* left of CommandEnds is that a command which can go on does.
THEOREM AdvancesTheorem == PreflightSpec => CommandAdvances
  <1> DEFINE Body == /\ StepsLeft' \in 0 .. StepsLeft
                     /\ SharedStep \/ HostCommand \/ DockerCommand => StepsLeft' < StepsLeft
  <1>1. IInv /\ ProbeInv /\ (IInv /\ ProbeInv)' /\ [PreflightNext]_all => [Body]_all
    <2> SUFFICES ASSUME IInv, ProbeInv, IInv', ProbeInv', [PreflightNext]_all
                 PROVE  Body
      OBVIOUS
    <2> DEFINE stage == StageLeft
               stage_ == StageLeft'
               run == RunLeft
               run_ == RunLeft'
               tries == Len(Attempts) - attempted
               tries_ == Len(Attempts) - attempted'
               own == SharedStep \/ HostCommand \/ DockerCommand
    <2>1. /\ stage \in Nat /\ stage_ \in Nat /\ run \in Nat /\ run_ \in Nat
          /\ tries \in Nat /\ tries_ \in Nat
      BY StepsLeftType
    <2>2. StepsLeft = stage + run + tries /\ StepsLeft' = stage_ + run_ + tries_
      BY DEF StepsLeft
    <2>3. own => \/ stage_ < stage /\ run_ <= run /\ tries_ = tries
                 \/ stage_ = stage /\ run_ < run /\ tries_ = tries
                 \/ stage_ = stage /\ run_ = run /\ tries_ < tries
      <3>1. CASE SharedStep
        BY <2>1, <3>1, SharedAdvances, RunIdle
      <3>2. CASE HostCommand
        <4>1. attempted' = attempted + 1 => tries_ < tries
          <5>1. Len(Attempts) = 5 /\ attempted \in Nat
            BY StepsLeftType DEF Attempts
          <5> QED
            BY <5>1
        <4>2. /\ run_ = run
              /\ \/ stage_ < stage /\ tries_ = tries
                 \/ stage_ = stage /\ attempted' = attempted + 1
          BY <3>2, HostAdvances, RunIdle
        <4> QED
          BY <2>1, <4>1, <4>2
      <3>3. CASE DockerCommand
        <4>1. /\ tries_ = tries
              /\ \/ stage_ < stage /\ run_ <= run
                 \/ stage_ = stage /\ run_ < run
          BY <3>3, DockerAdvances
        <4> QED
          BY <4>1
      <3> QED
        BY <3>1, <3>2, <3>3
    <2>4. ~own => stage_ <= stage /\ run_ <= run /\ tries_ = tries
      <3>1. CASE ErrorStep
        BY <3>1, ErrorAdvances
      <3>2. CASE Others \/ UNCHANGED all
        BY <2>1, <3>2, OthersIdle, StageIdle
      <3> QED
        BY <3>1, <3>2 DEF PreflightNext
    <2>5. StepsLeft' \in Nat /\ StepsLeft \in Nat /\ StepsLeft' <= StepsLeft /\ (own => StepsLeft' < StepsLeft)
      <3> HIDE DEF stage, stage_, run, run_, tries, tries_, own
      <3> QED
        BY ONLY <2>1, <2>2, <2>3, <2>4
    <2> QED
      BY <2>5
  <1> QED
    BY <1>1, GateInvariant, PTL DEF PreflightSpec, CommandAdvances
=============================================================================
