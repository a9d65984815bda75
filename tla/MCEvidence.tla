----------------------------- MODULE MCEvidence -----------------------------
(***************************************************************************)
(* Small instances of EvidenceValidation: two files, two tasks, one clean  *)
(* document of each, one held, one that no parser rejects and no float     *)
(* holds, and a clean one with too much white space behind it.             *)
(***************************************************************************)
EXTENDS EvidenceValidation

Of(doc, size) == [doc |-> doc, size |-> size]
HeldDoc == [Favourable(1) EXCEPT !.oracle_artifacts = {"answer"}]
HugeDoc == [Favourable(1) EXCEPT !.flake_rate = Huge]

MCLinkTarget == Of(Favourable(2), 1)
MCContents ==
    {Of(Favourable(1), 1), Of(Favourable(2), 1), Of(Favourable(1), MaxBytes + 2),
     Of(HeldDoc, 1), Of(HugeDoc, 1), Of(Garbage, 1), Of(Nested, 1)}
MCFewContents == {Of(Favourable(1), 1), Of(Favourable(2), 1)}

Entry(c) == [content |-> c, by |-> None]
\* The first file is a clean document, or not there yet.
MCStarts ==
    {[n \in Names |-> IF n = 1 THEN e ELSE Entry(Of(Favourable(2), 1))] :
        e \in {Missing, Entry(Of(Favourable(1), 1))}}

\* A validator and a drafter, or two validators and fewer contents.
MCBounds ==
    {[running |-> {"v", "d"}, edits |-> 2, contents |-> MCContents],
     [running |-> {"v", "w"}, edits |-> 2, contents |-> MCFewContents]}
MCOne == {[running |-> {"v"}, edits |-> 1, contents |-> MCContents]}
=============================================================================
