---------------------------- MODULE MCPatchApply ----------------------------
(***************************************************************************)
(* Small instances of PatchApply: two allowed files in one directory, a    *)
(* third file outside the allowlist, artifacts of one and two replacements.*)
(***************************************************************************)
EXTENDS PatchRefinement

CONSTANTS a, b, c, d, old, new, p, q

MCDirOf == [f \in Paths |-> d]
MCModes == {"600", "644", "755"}
MCStarts == {[f \in Paths |-> [content |-> old, mode |-> m]] : m \in {"644", "755"}}
Rep(f, from, to) == [path |-> f, expected |-> from, content |-> to]

\* Artifacts the adapter may answer with: good ones, a no-op, a path that is
\* not allowed, a wrong digest, a path named twice and one over max_files.
MCProposals ==
    {<<Rep(a, old, new), Rep(b, old, new)>>, <<Rep(b, old, new)>>,
     <<Rep(a, old, old)>>, <<Rep(a, old, new), Rep(c, old, new)>>,
     <<Rep(b, new, old)>>, <<Rep(a, old, new), Rep(a, old, new)>>,
     <<Rep(a, old, new), Rep(b, old, new), Rep(c, old, new)>>}
=============================================================================
