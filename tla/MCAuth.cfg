\* Two requests at a time, two tokens, two sessions, two failing writes and
\* one crash at any point.
SPECIFICATION Spec
CONSTANTS
    Requests = {r1, r2}
    Passwords = {p1, p2}
    Generated = gen
    NoFile = nofile
    MaxTokens = 2
    MaxSessions = 2
    MaxErrors = 2
    MaxCrashes = 1
SYMMETRY Symmetry
INVARIANTS RevocationFinal IssuedWorks PasswordKept RawTransient
