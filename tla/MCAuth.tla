------------------------------- MODULE MCAuth -------------------------------
\* Auth on a small instance.  Requests and passwords are interchangeable.
EXTENDS Auth, TLC

Symmetry == Permutations(Requests) \cup Permutations(Passwords)

=============================================================================
