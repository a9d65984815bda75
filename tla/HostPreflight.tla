--------------------------- MODULE HostPreflight ---------------------------
(***************************************************************************)
(* run_host_process_negative_control of src/src/reposeal/isolation.py: a   *)
(* plain subprocess, isolation_probe.py, is expected to break out of a     *)
(* workspace that confines nothing.  What surrounds the host may deny the  *)
(* probe some of its attempts, another program may change the files the    *)
(* parent compares, and other clients may connect to its listener.         *)
(***************************************************************************)
EXTENDS PreflightCommand

CONSTANTS
    Backlog,     \* connections the listener holds before it refuses
    MaxClients   \* bound: connections of other clients

ASSUME HostConstants == Backlog \in Nat \ {0} /\ MaxClients \in Nat

VARIABLES
    denied,     \* what the host's surroundings deny the probe
    altered,    \* files that differ from what the parent hashed
    outside,    \* does outside/escaped.txt exist?
    listening,  \* is there a listener?
    queue,      \* connections not accepted yet, or accepted and being read
    attempted,  \* attempts the probe has made
    seen        \* what the parent observed itself
host == <<denied, altered, outside, listening, queue, attempted, seen>>

Sentinels == [history |-> "history_sha256", credential |-> "credential_sha256",
              cache |-> "foreign_cache_sha256"]
Boundaries == DOMAIN Sentinels \cup {"outside", "verifier", "network"}
Files == DOMAIN Sentinels \cup {"verifier"}

\* The order in which main() of the probe does things.
Attempts == <<"export", "read", "outside", "verifier", "network">>

HostInit ==
    /\ denied \in SUBSET Boundaries /\ altered = {} /\ outside = FALSE
    /\ listening = FALSE /\ queue = <<>> /\ attempted = 0
    /\ seen = [outside_written |-> FALSE, verifier_changed |-> FALSE, connected |-> FALSE]

(***************************************************************************)
(* The parent, before the probe                                            *)
(***************************************************************************)
\* The directories and sentinels are made, then hashed.
Prepare ==
    /\ at = "prepare" /\ Advance("hash files")
    /\ UNCHANGED <<observed, findings, out, edits, host>>

HashFiles ==
    /\ at = "hash files" /\ altered' = {} /\ Advance("listen")
    /\ UNCHANGED <<observed, findings, out, edits, denied, outside, listening, queue, attempted, seen>>

\* Without a listener the network attempt is left out.
Listen ==
    /\ at = "listen" /\ listening' \in BOOLEAN /\ Advance("probe")
    /\ UNCHANGED <<observed, findings, out, edits, denied, altered, outside, queue, attempted, seen>>

(***************************************************************************)
(* The probe, under a timeout of five seconds (see Fail)                   *)
(***************************************************************************)
\* A link, or a file with other attributes, is written through and stays.
Written(kind) == IF kind = "absent" THEN "regular" ELSE kind

Attempt(what) ==
    CASE what = "export" ->
            /\ export' = [export EXCEPT !["root"] = IF @ = "absent" THEN "directory" ELSE @,
                                        !["artifact.json"] = Written(@),
                                        !["extra.txt"] = Written(@)]
            /\ UNCHANGED <<response, altered, outside, queue>>
      [] what = "read" ->
            /\ response' = [field \in ResponseFields |->
                   IF \E s \in DOMAIN Sentinels : Sentinels[s] = field
                   THEN LET s == CHOOSE s \in DOMAIN Sentinels : Sentinels[s] = field
                        IN IF s \in denied THEN "null"
                           ELSE IF s \in altered THEN "other" ELSE "sentinel"
                   ELSE IF field = "environment_keys" THEN "policy"
                   ELSE CHOOSE value \in Typed(field) : TRUE]
            /\ UNCHANGED <<export, altered, outside, queue>>
      [] what = "outside" ->
            /\ outside' = (outside \/ "outside" \notin denied)
            /\ UNCHANGED <<export, response, altered, queue>>
      [] what = "verifier" ->
            /\ altered' = altered \cup ({"verifier"} \ denied)
            /\ UNCHANGED <<export, response, outside, queue>>
      [] what = "network" ->
            /\ queue' = IF listening /\ "network" \notin denied /\ Len(queue) < Backlog
                          THEN Append(queue, "probe") ELSE queue
            /\ UNCHANGED <<export, response, altered, outside>>

\* Only the writes to the export directory, which is made if it is gone, are
\* unguarded: an error there ends the probe, and that the command.
ExportWritable ==
    /\ export["root"] \in {"absent", "directory", "unsafe"}
    /\ "directory" \notin {export["artifact.json"], export["extra.txt"]}

ProbeBreaks ==
    /\ at = "probe" /\ attempted = 0 /\ ~ExportWritable
    /\ Exit(1)
    /\ UNCHANGED <<observed, findings, out, edits, host>>

ProbeAttempts ==
    /\ at = "probe" /\ attempted < Len(Attempts)
    /\ attempted = 0 => ExportWritable
    /\ attempted' = attempted + 1 /\ Attempt(Attempts[attempted'])
    /\ UNCHANGED <<command, at, status, decision, findings, out, edits, denied, listening, seen>>

\* It answers, possibly with more in its environment than it was given.
ProbeAnswers ==
    /\ at = "probe" /\ attempted = Len(Attempts)
    /\ response' \in {response, [response EXCEPT !["environment_keys"] = "other"]}
    /\ Advance(IF listening THEN "accept" ELSE "evaluate")
    /\ UNCHANGED <<export, decision, findings, out, edits, host>>

(***************************************************************************)
(* The parent, after the probe                                             *)
(***************************************************************************)
\* accept waits for 0.2 seconds ...
Accept ==
    /\ at = "accept"
    /\ Advance(IF queue = <<>> THEN "evaluate" ELSE "receive")
    /\ UNCHANGED <<observed, findings, out, edits, host>>

\* Mutant of Receive: whoever was accepted is taken for the probe.
AnyClient ==
    /\ at = "receive" /\ Head(queue) # "silent"
    /\ seen' = [seen EXCEPT !.connected = TRUE]
    /\ Advance("evaluate")
    /\ UNCHANGED <<observed, findings, out, edits, denied, altered, outside, listening, queue, attempted>>

\* ... but the accepted socket has no timeout: recv waits for as long as the
\* other side neither writes nor closes.
Receive ==
    /\ at = "receive" /\ Head(queue) # "silent"
    /\ seen' = [seen EXCEPT !.connected = Head(queue) = "probe"]
    /\ Advance("evaluate")
    /\ UNCHANGED <<observed, findings, out, edits, denied, altered, outside, listening, queue, attempted>>

EvaluateExport ==
    /\ at = "evaluate" /\ decision' = ExportDecision(export)
    /\ Advance("hash verifier")
    /\ UNCHANGED <<export, response, findings, out, edits, host>>

HashVerifier ==
    /\ at = "hash verifier"
    /\ seen' = [seen EXCEPT !.verifier_changed = "verifier" \in altered]
    /\ Advance("look outside")
    /\ UNCHANGED <<observed, findings, out, edits, denied, altered, outside, listening, queue, attempted>>

LookOutside ==
    /\ at = "look outside"
    /\ seen' = [seen EXCEPT !.outside_written = outside]
    /\ findings' = HostFindings(response, seen', decision)
    /\ Advance("open receipt")
    /\ UNCHANGED <<observed, out, edits, denied, altered, outside, listening, queue, attempted>>

HostStep == \/ Prepare \/ HashFiles \/ Listen
            \/ ProbeBreaks \/ ProbeAttempts \/ ProbeAnswers
            \/ Accept \/ Receive
            \/ EvaluateExport \/ HashVerifier \/ LookOutside

(***************************************************************************)
(* Others                                                                  *)
(***************************************************************************)
\* Another program changes a file, or changes it back, creates or removes
\* outside/escaped.txt, or changes one entry of the export directory.
HostEdit ==
    /\ at \notin {"exists", "prepare", "open receipt", "write receipt", "print", "ended"}
    /\ edits' = edits + 1
    /\ \/ \E f \in Files : altered' = (altered \ {f}) \cup ({f} \ altered)
          /\ UNCHANGED <<outside, export>>
       \/ outside' = ~outside /\ UNCHANGED <<altered, export>>
       \/ \E name \in DOMAIN export, kind \in EntryKinds :
             /\ export[name] # kind /\ export' = [export EXCEPT ![name] = kind]
             /\ UNCHANGED <<altered, outside>>
    /\ UNCHANGED <<command, at, status, response, decision, findings, out,
                   denied, listening, queue, attempted, seen>>

Clients == Cardinality({i \in DOMAIN queue : queue[i] # "probe"})

\* Another client connects, writes something or closes its connection.
ClientActs ==
    /\ listening /\ at \in {"probe", "accept", "receive"}
    /\ \/ /\ Clients < MaxClients /\ Len(queue) < Backlog
          /\ queue' = Append(queue, "silent")
       \/ \E i \in DOMAIN queue : queue[i] = "silent" /\ queue' = [queue EXCEPT ![i] = "done"]
    /\ UNCHANGED <<preflight, denied, altered, outside, listening, attempted, seen>>

\* The connection that was accepted belongs to a client that does not act.
HeldUp == at = "receive" /\ Head(queue) = "silent"
=============================================================================
