-------------------------------- MODULE Auth --------------------------------
(***************************************************************************)
(* Accounts, sessions and API tokens (router/internal/auth/auth.go), and   *)
(* the handlers of router/internal/api/server.go that use them.            *)
(*                                                                         *)
(* Manager.mu makes every operation one step, but a request makes several: *)
(* authOnly checks its credential in one and the handler acts in another,  *)
(* hPassword verifies the old password in one and sets the new one in the  *)
(* next, and CreateToken writes the database twice.  Between them other    *)
(* requests run, a write may fail, and the process may die.                *)
(*                                                                         *)
(* The only account the code creates is "admin", with role admin.  A       *)
(* password stands for its hash, a token for its hash and its identifier.  *)
(***************************************************************************)
EXTENDS Naturals

CONSTANTS
    Requests,     \* handlers in flight
    Passwords,    \* passwords a client may choose, or give on the command line
    Generated,    \* the password EnsureAdmin generates
    NoFile,       \* auth.json does not exist
    MaxTokens,    \* bound: API tokens ever created
    MaxSessions,  \* bound: sessions ever created
    MaxErrors,    \* bound: failing writes
    MaxCrashes    \* bound: deaths of the process

Tokens == 1..MaxTokens
Sessions == 1..MaxSessions
Words == Passwords \cup {Generated}
Roles == {"readonly", "admin"}

\* What save() writes: the admin's password, the tokens with their roles, and
\* those whose APIToken.Token is still set (the raw token, omitempty).
Database == [pass : Words, role : [Tokens -> Roles \cup {"none"}], raw : SUBSET Tokens]

ASSUME AuthAssumption ==
    /\ Generated \notin Passwords
    /\ NoFile \notin Database
    /\ MaxTokens \in Nat /\ MaxSessions \in Nat /\ MaxErrors \in Nat /\ MaxCrashes \in Nat

VARIABLES
    mode,      \* "down", "new" (EnsureAdmin has just made the account) or "up"
    db,        \* Manager.users and Manager.tokens
    sess,      \* Manager.sess
    expired,   \* those whose time is over
    disk,      \* auth.json
    initial,   \* initial-admin-password has been written
    req,       \* requests in flight
    holder,    \* the requests inside CreateToken, at most one (Manager.mu)
    created, logins,   \* tokens and sessions created so far
    issued,    \* history: tokens whose creation was answered with 201
    revoking,  \* history: tokens that some RevokeToken has removed
    revoked,   \* history: tokens whose revocation was answered with 200
    broken,    \* history: tokens whose creation met a fault
    password,  \* history: the password last set with success
    tried,     \* history: passwords since then that were set and not saved
    errors, crashes

history == <<issued, revoking, revoked, broken, password, tried>>
vars == <<mode, db, sess, expired, disk, initial, req, holder, created, logins, history,
          errors, crashes>>

NoTokens == [t \in Tokens |-> "none"]
Empty == [pass |-> Generated, role |-> NoTokens, raw |-> {}]

\* A request: the handler it has come to, the session it came with (0 for a
\* token), the token it creates, the password it sets.
Arrived(pc, s) == [pc |-> pc, sess |-> s, token |-> 0, new |-> Generated]
Idle == Arrived("idle", 0)

Init ==
    /\ mode = "down"
    /\ db = Empty /\ disk = NoFile /\ initial = FALSE
    /\ sess = {} /\ expired = {}
    /\ req = [r \in Requests |-> Idle] /\ holder = {}
    /\ created = 0 /\ logins = 0
    /\ issued = {} /\ revoking = {} /\ revoked = {} /\ broken = {}
    /\ password = Generated /\ tried = {}
    /\ errors = 0 /\ crashes = 0

\* save(): a temporary file, renamed over auth.json.
Saved(d) == disk' = d /\ UNCHANGED errors
SaveFails == errors < MaxErrors /\ errors' = errors + 1 /\ UNCHANGED disk

-----------------------------------------------------------------------------
(* New: Open, EnsureAdmin and the file with the initial password *)

\* auth.json is there: it holds the admin account.
OpenExisting ==
    /\ mode = "down" /\ disk # NoFile
    /\ db' = disk
    /\ mode' = "up"
    /\ UNCHANGED <<sess, expired, disk, initial, req, holder, created, logins, history,
                   errors, crashes>>

\* A first start, with the password of the command line or a generated one; an
\* error of save ends the process.
OpenNew(p) ==
    /\ mode = "down" /\ disk = NoFile
    /\ \/ /\ Saved([Empty EXCEPT !.pass = p])
          /\ db' = [Empty EXCEPT !.pass = p]
          /\ mode' = IF p = Generated THEN "new" ELSE "up"
          /\ password' = p
       \/ SaveFails /\ UNCHANGED <<db, mode, password>>
    /\ UNCHANGED <<sess, expired, initial, req, holder, created, logins, issued, revoking,
                   revoked, broken, tried, crashes>>

\* os.WriteFile, its error ignored.
WriteInitialPassword ==
    /\ mode = "new"
    /\ \/ initial' = TRUE /\ UNCHANGED errors
       \/ errors < MaxErrors /\ errors' = errors + 1 /\ UNCHANGED initial
    /\ mode' = "up"
    /\ UNCHANGED <<db, sess, expired, disk, req, holder, created, logins, history, crashes>>

\* Sessions and requests are gone; of the database, what was saved is left.
Crash ==
    /\ mode # "down" /\ crashes < MaxCrashes
    /\ crashes' = crashes + 1
    /\ mode' = "down" /\ db' = Empty /\ sess' = {} /\ expired' = {}
    /\ broken' = broken \cup {req[r].token : r \in holder}
    /\ req' = [r \in Requests |-> Idle] /\ holder' = {}
    /\ UNCHANGED <<disk, initial, created, logins, issued, revoking, revoked, password,
                   tried, errors>>

-----------------------------------------------------------------------------
(* Credentials *)

\* Manager.mu is free.
Free == mode = "up" /\ holder = {}

\* Login: a new session for whoever knows the password.
Login(p) ==
    /\ Free
    /\ \/ /\ p = db.pass /\ logins < MaxSessions
          /\ logins' = logins + 1
          /\ sess' = sess \cup {logins + 1}
       \/ p # db.pass /\ UNCHANGED <<logins, sess>>
    /\ UNCHANGED <<mode, db, expired, disk, initial, req, holder, created, history, errors,
                   crashes>>

\* Eight hours pass.
Expire(s) ==
    /\ s \in sess \ expired
    /\ expired' = expired \cup {s}
    /\ UNCHANGED <<mode, db, sess, disk, initial, req, holder, created, logins, history,
                   errors, crashes>>

Rank(role) == CASE role = "readonly" -> 1 [] role = "admin" -> 2 [] OTHER -> 0

AtLeast(have, want) == Rank(have) >= Rank(want) /\ Rank(have) > 0

\* The role each handler asks of authOnly; RoleAdminAll is any.
Handlers == {"logout", "password", "read", "create", "revoke"}
Needs(h) == CASE h \in {"logout", "password"} -> "any"
              [] h = "read" -> "readonly"
              [] OTHER -> "admin"

Admitted(role, h) == Needs(h) = "any" \/ AtLeast(role, Needs(h))

\* A request comes with a session: Check finds it, and drops it when it has expired.
CheckSession(r, s, h) ==
    /\ Free /\ req[r].pc = "idle"
    /\ s \in sess
    /\ IF s \in expired
       THEN sess' = sess \ {s} /\ expired' = expired \ {s} /\ UNCHANGED req
       ELSE /\ Admitted("admin", h)
            /\ req' = [req EXCEPT ![r] = Arrived(h, s)]
            /\ UNCHANGED <<sess, expired>>
    /\ UNCHANGED <<mode, db, disk, initial, holder, created, logins, history,
                   errors, crashes>>

\* A request comes with an API token: Check notes LastUsed and saves the database, an
\* error ignored.
CheckToken(r, t, h) ==
    /\ Free /\ req[r].pc = "idle"
    /\ db.role[t] # "none"
    /\ Saved(db) \/ SaveFails
    /\ req' = [req EXCEPT ![r] = IF Admitted(db.role[t], h) THEN Arrived(h, 0) ELSE Idle]
    /\ UNCHANGED <<mode, db, sess, expired, initial, holder, created, logins, history,
                   crashes>>

-----------------------------------------------------------------------------
(* Handlers *)

Answer(r) == req' = [req EXCEPT ![r] = Idle]

hRead(r) ==
    /\ Free /\ req[r].pc = "read"
    /\ Answer(r)
    /\ UNCHANGED <<mode, db, sess, expired, disk, initial, holder, created, logins, history,
                   errors, crashes>>

\* Logout of a token deletes no session.
hLogout(r) ==
    /\ Free /\ req[r].pc = "logout"
    /\ sess' = sess \ {req[r].sess} /\ expired' = expired \ {req[r].sess}
    /\ Answer(r)
    /\ UNCHANGED <<mode, db, disk, initial, holder, created, logins, history,
                   errors, crashes>>

\* hPassword: refused to tokens, then Login with the old password, which leaves
\* a session behind that nobody has.
hPassword(r, old, new) ==
    /\ Free /\ req[r].pc = "password"
    /\ IF req[r].sess # 0 /\ old = db.pass
       THEN /\ logins < MaxSessions
            /\ logins' = logins + 1
            /\ sess' = sess \cup {logins + 1}
            /\ req' = [req EXCEPT ![r].pc = "set", ![r].new = new]
       ELSE Answer(r) /\ UNCHANGED <<sess, logins>>
    /\ UNCHANGED <<mode, db, expired, disk, initial, holder, created, history, errors,
                   crashes>>

\* Mutant: SetPassword changes the account in memory only.
SetPasswordUnsaved(r) ==
    /\ Free /\ req[r].pc = "set"
    /\ db' = [db EXCEPT !.pass = req[r].new]
    /\ password' = req[r].new /\ tried' = {}
    /\ Answer(r)
    /\ UNCHANGED <<mode, sess, expired, disk, initial, holder, created, logins, issued,
                   revoking, revoked, broken, errors, crashes>>

\* ... and SetPassword.  A save that fails is answered with 400 and leaves the
\* new password in memory.
SetPassword(r) ==
    /\ Free /\ req[r].pc = "set"
    /\ LET d == [db EXCEPT !.pass = req[r].new]
       IN  /\ db' = d
           /\ \/ Saved(d) /\ password' = d.pass /\ tried' = {}
              \/ SaveFails /\ tried' = tried \cup {d.pass} /\ UNCHANGED password
    /\ Answer(r)
    /\ UNCHANGED <<mode, sess, expired, initial, holder, created, logins, issued, revoking,
                   revoked, broken, crashes>>

\* Mutant: the token is saved once only, without the raw one.
CreateTokenSavedOnce(r, role) ==
    /\ Free /\ req[r].pc = "create"
    /\ created < MaxTokens
    /\ created' = created + 1
    /\ db' = [db EXCEPT !.role[created + 1] = role, !.raw = @ \cup {created + 1}]
    /\ req' = [req EXCEPT ![r].pc = "clear", ![r].token = created + 1]
    /\ holder' = {r}
    /\ UNCHANGED <<mode, sess, expired, disk, initial, logins, history, errors, crashes>>

\* CreateToken up to the first save, which writes the raw
\* token too.  When it fails the token stays in memory, raw.
CreateToken(r, role) ==
    /\ Free /\ req[r].pc = "create"
    /\ created < MaxTokens
    /\ created' = created + 1
    /\ LET t == created + 1
           d == [db EXCEPT !.role[t] = role, !.raw = @ \cup {t}]
       IN  /\ db' = d
           /\ \/ /\ Saved(d)
                 /\ req' = [req EXCEPT ![r].pc = "clear", ![r].token = t]
                 /\ holder' = {r}
                 /\ UNCHANGED broken
              \/ /\ SaveFails
                 /\ broken' = broken \cup {t}
                 /\ Answer(r)
                 /\ UNCHANGED holder
    /\ UNCHANGED <<mode, sess, expired, initial, logins, issued, revoking, revoked,
                   password, tried, crashes>>

\* Mutant: the raw token is cleared in memory only.
ClearTokenUnsaved(r) ==
    /\ mode = "up" /\ req[r].pc = "clear"
    /\ db' = [db EXCEPT !.raw = @ \ {req[r].token}]
    /\ issued' = issued \cup {req[r].token}
    /\ holder' = {}
    /\ Answer(r)
    /\ UNCHANGED <<mode, sess, expired, disk, initial, created, logins, revoking, revoked,
                   broken, password, tried, errors, crashes>>

\* The second save, without the raw token, its error ignored; then 201.
ClearToken(r) ==
    /\ mode = "up" /\ req[r].pc = "clear"
    /\ LET t == req[r].token
           d == [db EXCEPT !.raw = @ \ {t}]
       IN  /\ db' = d
           /\ issued' = issued \cup {t}
           /\ \/ Saved(d) /\ UNCHANGED broken
              \/ SaveFails /\ broken' = broken \cup {t}
    /\ holder' = {}
    /\ Answer(r)
    /\ UNCHANGED <<mode, sess, expired, initial, created, logins, revoking, revoked,
                   password, tried, crashes>>

\* Mutant: RevokeToken ignores the error of save.
RevokeTokenUnchecked(r, t) ==
    /\ Free /\ req[r].pc = "revoke"
    /\ db.role[t] # "none"
    /\ db' = [db EXCEPT !.role[t] = "none", !.raw = @ \ {t}]
    /\ Saved(db') \/ SaveFails
    /\ revoking' = revoking \cup {t} /\ revoked' = revoked \cup {t}
    /\ Answer(r)
    /\ UNCHANGED <<mode, sess, expired, initial, holder, created, logins, issued, broken,
                   password, tried, crashes>>

\* RevokeToken; an error of save is answered with 404, as an
\* unknown token is.
RevokeToken(r, t) ==
    /\ Free /\ req[r].pc = "revoke"
    /\ IF db.role[t] # "none"
       THEN LET d == [db EXCEPT !.role[t] = "none", !.raw = @ \ {t}]
            IN  /\ db' = d
                /\ revoking' = revoking \cup {t}
                /\ \/ Saved(d) /\ revoked' = revoked \cup {t}
                   \/ SaveFails /\ UNCHANGED revoked
       ELSE UNCHANGED <<db, disk, errors, revoking, revoked>>
    /\ Answer(r)
    /\ UNCHANGED <<mode, sess, expired, initial, holder, created, logins, issued, broken,
                   password, tried, crashes>>

hLogin == \E p \in Words : Login(p)
authOnly(r, h) ==
    \/ \E s \in Sessions : CheckSession(r, s, h)
    \/ \E t \in Tokens : CheckToken(r, t, h)
hTokensCreate(r) == \E role \in Roles : CreateToken(r, role)
hTokensDelete(r) == \E t \in Tokens : RevokeToken(r, t)

Next ==
    \/ OpenExisting
    \/ \E p \in Words : OpenNew(p)
    \/ WriteInitialPassword
    \/ Crash
    \/ hLogin
    \/ \E s \in Sessions : Expire(s)
    \/ \E r \in Requests, h \in Handlers : authOnly(r, h)
    \/ \E r \in Requests :
          \/ hRead(r)
          \/ hLogout(r)
          \/ \E old \in Words, new \in Passwords : hPassword(r, old, new)
          \/ SetPassword(r)
          \/ hTokensCreate(r)
          \/ ClearToken(r)
          \/ hTokensDelete(r)

Spec == Init /\ [][Next]_vars

-----------------------------------------------------------------------------
(* Properties *)

\* The types of the variables.
TypeOK ==
    /\ mode \in {"down", "new", "up"}
    /\ db \in Database
    /\ disk \in Database \cup {NoFile}
    /\ sess \subseteq Sessions /\ expired \subseteq sess
    /\ initial \in BOOLEAN
    /\ req \in [Requests -> [pc : Handlers \cup {"idle", "set", "clear"},
                             sess : 0..MaxSessions, token : 0..MaxTokens, new : Words]]
    /\ holder \subseteq Requests
    /\ created \in 0..MaxTokens /\ logins \in 0..MaxSessions
    /\ issued \subseteq Tokens /\ revoking \subseteq Tokens /\ revoked \subseteq Tokens
    /\ broken \subseteq Tokens
    /\ password \in Words /\ tried \subseteq Words
    /\ errors \in 0..MaxErrors /\ crashes \in 0..MaxCrashes

\* The tokens a database accepts.
Live(d) == {t \in Tokens : d.role[t] # "none"}

(***************************************************************************)
(* A token whose revocation was answered with success (hTokensDelete) is   *)
(* accepted never again: not by the running daemon, and not by one that    *)
(* starts from auth.json after a crash, whatever other operations saved,   *)
(* or failed to save, since.                                               *)
(***************************************************************************)
RevocationFinal ==
    /\ mode # "down" => revoked \cap Live(db) = {}
    /\ disk # NoFile => revoked \cap Live(disk) = {}

(***************************************************************************)
(* A token that was handed out (hTokensCreate answered 201) is accepted,   *)
(* through crashes and failing writes of other operations, until somebody  *)
(* asks for its revocation.                                                *)
(***************************************************************************)
IssuedWorks ==
    /\ mode # "down" => issued \ revoking \subseteq Live(db)
    /\ issued \ revoking # {} => disk # NoFile /\ issued \ revoking \subseteq Live(disk)

(***************************************************************************)
(* The password in force, now and after a restart, is the one last         *)
(* acknowledged by SetPassword or EnsureAdmin, or one whose change was     *)
(* made since and answered with an error; without such a change it is      *)
(* exactly the one acknowledged.                                           *)
(***************************************************************************)
PasswordKept ==
    /\ mode # "down" => db.pass \in {password} \cup tried
    /\ disk # NoFile => disk.pass \in {password} \cup tried

(***************************************************************************)
(* "never persist the raw token again" (auth.go:277): a raw token is in    *)
(* the database, or in auth.json, only while CreateToken runs, unless the  *)
(* creation of that very token met a failing write or the death of the     *)
(* process.                                                                *)
(***************************************************************************)
RawTransient ==
    LET creating == {req[r].token : r \in holder}
    IN  /\ mode # "down" => db.raw \subseteq creating \cup broken
        /\ disk # NoFile => disk.raw \subseteq creating \cup broken

=============================================================================
