--------------------------- MODULE MCDocumentImport ---------------------------
(***************************************************************************)
(* DocumentImport for TLC: an upload's own key is named by its source.       *)
(***************************************************************************)
EXTENDS DocumentImport, TLC

MCOwnKey == [s \in Sources |-> s]

\* No source, client or attempt is told apart from the others of its kind.
Symmetry == Permutations(Sources) \cup Permutations(Clients) \cup Permutations(Attempts)
==============================================================================
