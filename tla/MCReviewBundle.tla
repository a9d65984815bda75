--------------------------- MODULE MCReviewBundle ---------------------------
(***************************************************************************)
(* Small instances of ReviewBundle: two scope files, one more file, two    *)
(* commits to begin with.                                                  *)
(***************************************************************************)
EXTENDS ReviewBundle

CONSTANTS f, g, h, old, new

MCHistory == <<[x \in Paths |-> old],
               [x \in Paths |-> IF x = h THEN old ELSE new]>>
=============================================================================
