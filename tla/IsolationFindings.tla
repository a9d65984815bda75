-------------------------- MODULE IsolationFindings --------------------------
(***************************************************************************)
(* How the two isolation preflights judge: parse_probe_response,           *)
(* evaluate_export, the findings of the host and of the Docker backend and *)
(* the gates (src/src/reposeal/isolation.py, docker_backend.py).           *)
(*                                                                         *)
(* A response is a function from its fields to values: "policy" stands for *)
(* what the policy asks for (the loopback interface alone, no sensitive    *)
(* path, no capability, the configured limits, ...), "sentinel" for the    *)
(* digest of the sentinel, "other" for any other value of the right type,  *)
(* "null" for null and "malformed" for a value of a wrong type.            *)
(***************************************************************************)
EXTENDS Integers, Sequences, FiniteSets, SequencesExt

Controls == {"WORKSPACE_CONFINEMENT", "HISTORY_HIDDEN", "VERIFIER_PROTECTED",
             "CREDENTIAL_SENTINEL_HIDDEN", "NETWORK_DENIED", "CACHE_ISOLATED",
             "PARENT_ENVIRONMENT_REPLACED", "EXPORT_ALLOWLIST", "WALL_TIMEOUT",
             "STREAMING_OUTPUT_LIMIT", "CPU_MEMORY_PID_LIMITS",
             "UNPRIVILEGED_IDENTITY", "KERNEL_ISOLATION",
             "HOST_CREDENTIAL_BROKER_ISOLATION", "INDEPENDENT_REVIEW"}

(***************************************************************************)
(* ProbeResponse and parse_probe_response                                  *)
(***************************************************************************)
Digests == {"history_sha256", "credential_sha256", "foreign_cache_sha256"}
Flags == {"outside_write_succeeded", "verifier_mutation_succeeded",
          "network_connection_succeeded", "root_write_succeeded",
          "workspace_write_succeeded"}
Mounts == {"root_mount_read_only", "probe_mount_read_only",
           "workspace_mount_read_only", "export_mount_read_only",
           "tmp_noexec", "tmp_nosuid", "tmp_nodev"}
Optional == {"capability_effective", "no_new_privileges", "seccomp_mode",
             "seccomp_filters", "cgroup_memory_max", "cgroup_pids_max",
             "cgroup_cpu_max"}
Required == {"network_interfaces", "sensitive_paths_visible", "identity_uid",
             "identity_gid", "limit_nofile", "limit_fsize", "limit_core",
             "environment_keys"}
ResponseFields == Digests \cup Flags \cup Mounts \cup Optional \cup Required

Typed(field) ==
    CASE field \in Digests -> {"sentinel", "other", "null"}
      [] field \in Flags -> {"true", "false"}
      [] field \in Mounts -> {"true", "false", "null"}
      [] field \in Optional -> {"policy", "other", "null"}
      [] field \in Required -> {"policy", "other"}

\* A field of a wrong type raises IsolationProbeError.
Parses(r) == \A field \in ResponseFields : r[field] \in Typed(field)

(***************************************************************************)
(* evaluate_export                                                         *)
(***************************************************************************)
\* The entries of the export directory, in the order of their paths, and its
\* root.  "unsafe" is a symbolic link or a path with a component named .git.
EntryNames == <<".early", "artifact.json", "extra.txt", "late">>
EntryKinds == {"absent", "regular", "directory", "unsafe", "special", "hardlink",
               "executable", "large"}
AllowedExports == {"artifact.json"}

\* What evaluate_export objects to in one entry; the first objection decides.
Objection(name, kind) ==
    CASE kind = "unsafe" -> "unsafe export entry rejected"
      [] kind = "special" -> "non-regular export entry rejected"
      [] kind = "hardlink" -> "hard-linked export entry rejected"
      [] kind = "executable" -> "executable export entry rejected"
      [] kind \in {"regular", "large"} /\ name \notin AllowedExports ->
            "unauthorized export path rejected"
      [] kind = "large" /\ name \in AllowedExports -> "export byte limit exceeded"
      [] OTHER -> "none"  \* absent, a directory or an allowed file

\* The entries it objects to.
Objections(export) ==
    {i \in DOMAIN EntryNames : Objection(EntryNames[i], export[EntryNames[i]]) # "none"}

ExportDecision(export) ==
    IF export["root"] # "directory" THEN "export root is not a regular directory"
    ELSE IF Objections(export) # {}
         THEN LET i == Min(Objections(export)) IN Objection(EntryNames[i], export[EntryNames[i]])
    ELSE IF \E name \in AllowedExports : export[name] # "regular"
         THEN "required export artifact missing"
         ELSE "accepted"

\* What the probe leaves there, and how it should be rejected.
Exported == [name \in ToSet(EntryNames) \cup {"root"} |->
                 CASE name = "root" -> "directory"
                   [] name \in {"artifact.json", "extra.txt"} -> "regular"
                   [] OTHER -> "absent"]
ExpectedRejection == "unauthorized export path rejected"

(***************************************************************************)
(* The findings of the host                                                *)
(***************************************************************************)
Unavailable == {"STREAMING_OUTPUT_LIMIT", "CPU_MEMORY_PID_LIMITS",
                "UNPRIVILEGED_IDENTITY", "KERNEL_ISOLATION",
                "HOST_CREDENTIAL_BROKER_ISOLATION", "INDEPENDENT_REVIEW"}

Fails(condition) == IF condition THEN "FAIL" ELSE "PASS"

\* seen is what the parent observes itself.
HostStatus(control, r, seen, decision) ==
    CASE control = "WORKSPACE_CONFINEMENT" -> Fails(seen.outside_written)
      [] control = "HISTORY_HIDDEN" -> Fails(r.history_sha256 = "sentinel")
      [] control = "VERIFIER_PROTECTED" -> Fails(seen.verifier_changed)
      [] control = "CREDENTIAL_SENTINEL_HIDDEN" -> Fails(r.credential_sha256 = "sentinel")
      [] control = "NETWORK_DENIED" -> IF seen.connected THEN "FAIL" ELSE "UNAVAILABLE"
      [] control = "CACHE_ISOLATED" -> Fails(r.foreign_cache_sha256 = "sentinel")
      [] control = "PARENT_ENVIRONMENT_REPLACED" -> Fails(r.environment_keys # "policy")
      [] control = "EXPORT_ALLOWLIST" -> Fails(decision # ExpectedRejection)
      [] control = "WALL_TIMEOUT" -> "PASS"
      [] control \in Unavailable -> "UNAVAILABLE"

HostFindings(r, seen, decision) ==
    [control \in Controls |-> HostStatus(control, r, seen, decision)]

\* HOST_NEGATIVE_EXPECTATIONS and probe_harness_passed.
HarnessPassed(findings) ==
    \A control \in Controls :
        findings[control] \in
            CASE control \in Unavailable -> {"UNAVAILABLE"}
              [] control = "NETWORK_DENIED" -> {"FAIL", "UNAVAILABLE"}
              [] control \in {"PARENT_ENVIRONMENT_REPLACED", "EXPORT_ALLOWLIST",
                              "WALL_TIMEOUT"} -> {"PASS"}
              [] OTHER -> {"FAIL"}

(***************************************************************************)
(* The findings of the Docker backend                                      *)
(***************************************************************************)
\* _engine_version_supported: 29.4.3 through 29.x; a version that does not
\* parse is not.
EngineVersionSupported(v) ==
    /\ v.parses /\ v.major = 29
    /\ v.minor > 4 \/ (v.minor = 4 /\ v.patch >= 3)

EngineLsmSupported(architecture, options) ==
    architecture = "arm64" \/ options \cap {"apparmor", "selinux"} # {}

Confined(r) ==
    /\ r.outside_write_succeeded = "false" /\ r.root_write_succeeded = "false"
    /\ r.workspace_write_succeeded = "true"
    /\ r.root_mount_read_only = "true" /\ r.workspace_mount_read_only = "false"
    /\ r.export_mount_read_only = "false"
    /\ r.tmp_noexec = "true" /\ r.tmp_nosuid = "true" /\ r.tmp_nodev = "true"

\* Mutant of Limited: the limits the container sets itself are not compared.
LimitedByCgroup(r) ==
    \A field \in {"cgroup_memory_max", "cgroup_pids_max", "cgroup_cpu_max"} :
        r[field] = "policy"

Limited(r) ==
    \A field \in {"cgroup_memory_max", "cgroup_pids_max", "cgroup_cpu_max",
                  "limit_nofile", "limit_fsize", "limit_core"} : r[field] = "policy"

Unprivileged(r) ==
    \A field \in {"identity_uid", "identity_gid", "capability_effective",
                  "no_new_privileges"} : r[field] = "policy"

\* m is the metadata of image and engine that was inspected before the run.
KernelIsolated(r, m) ==
    /\ m.image_os = "linux" /\ m.engine_os = "linux"
    /\ m.image_architecture = m.engine_architecture
    /\ EngineVersionSupported(m.version)
    /\ EngineLsmSupported(m.engine_architecture, m.options)
    /\ {"seccomp", "cgroupns"} \subseteq m.options
    /\ m.cgroup_version = "2" /\ m.storage_driver # ""
    /\ r.seccomp_mode = "policy" /\ r.seccomp_filters = "policy"
    /\ r.root_mount_read_only = "true"

Passes(control, r, m, decision, probe_unchanged) ==
    CASE control = "WORKSPACE_CONFINEMENT" -> Confined(r)
      [] control = "HISTORY_HIDDEN" -> r.history_sha256 = "null"
      [] control = "VERIFIER_PROTECTED" ->
            /\ r.verifier_mutation_succeeded = "false" /\ probe_unchanged
            /\ r.probe_mount_read_only = "true"
      [] control = "CREDENTIAL_SENTINEL_HIDDEN" -> r.credential_sha256 = "null"
      [] control = "NETWORK_DENIED" ->
            r.network_connection_succeeded = "false" /\ r.network_interfaces = "policy"
      [] control = "CACHE_ISOLATED" -> r.foreign_cache_sha256 = "null"
      [] control = "PARENT_ENVIRONMENT_REPLACED" ->
            m.environment_keys = "policy" /\ r.environment_keys = "policy"
      [] control = "EXPORT_ALLOWLIST" -> decision = ExpectedRejection
      [] control \in {"WALL_TIMEOUT", "STREAMING_OUTPUT_LIMIT"} -> TRUE
      [] control = "CPU_MEMORY_PID_LIMITS" -> Limited(r)
      [] control = "UNPRIVILEGED_IDENTITY" -> Unprivileged(r)
      [] control = "KERNEL_ISOLATION" -> KernelIsolated(r, m)
      [] control = "HOST_CREDENTIAL_BROKER_ISOLATION" ->
            /\ r.credential_sha256 = "null" /\ Confined(r)
            /\ r.sensitive_paths_visible = "policy"

DockerFindings(r, m, decision, probe_unchanged) ==
    [control \in Controls |->
        IF control = "INDEPENDENT_REVIEW" THEN "UNAVAILABLE"
        ELSE IF Passes(control, r, m, decision, probe_unchanged) THEN "PASS" ELSE "FAIL"]

BackendGatePassed(findings) ==
    \A control \in Controls \ {"INDEPENDENT_REVIEW"} : findings[control] = "PASS"
SecurityGatePassed(findings) == \A control \in Controls : findings[control] = "PASS"
=============================================================================
