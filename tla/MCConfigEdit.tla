---------------------------- MODULE MCConfigEdit ----------------------------
\* ConfigEdit on a small instance, where requests and identifiers are
\* interchangeable.
EXTENDS ConfigEdit, TLC

Symmetry == Permutations(Requests) \cup Permutations(Ids)

=============================================================================
