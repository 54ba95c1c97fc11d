-------------------------- MODULE MCConfirmedCommit --------------------------
(* Small instances of ConfirmedCommit for TLC. *)
EXTENDS ConfirmedCommit, TLC

\* Safety runs only: the specification never distinguishes two members.
Symmetry ==
    Permutations(Configs) \cup Permutations(Reqs) \cup Permutations(Windows)
      \cup Permutations(Txns) \cup Permutations(Recs)

=============================================================================
