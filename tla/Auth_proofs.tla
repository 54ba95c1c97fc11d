----------------------------- MODULE Auth_proofs -----------------------------
(***************************************************************************)
(* What is proved of Auth for any sets of requests and passwords and any   *)
(* number of tokens, sessions, failing writes and crashes.                 *)
(***************************************************************************)
EXTENDS Auth, TLAPS

\* CreateToken runs in at most one request, inside Manager.mu, and the token it
\* has stored is in the database and in auth.json.
HolderOK ==
    /\ \A r \in Requests : req[r].pc = "clear" <=> r \in holder
    /\ \A r, q \in holder : r = q
    /\ \A r \in holder :
          /\ mode = "up" /\ disk # NoFile
          /\ req[r].token \in Live(db) \cap Live(disk)

\* Without a database nothing has happened yet; what has been numbered is not
\* given out again.
NumbersOK ==
    /\ disk = NoFile => mode = "down" /\ created = 0
    /\ issued \cup revoking \cup revoked \subseteq 1..created
    /\ Live(db) \subseteq 1..created
    /\ disk # NoFile => Live(disk) \subseteq 1..created

IInv == /\ TypeOK /\ HolderOK /\ NumbersOK
        /\ RevocationFinal /\ IssuedWorks /\ PasswordKept /\ RawTransient

\* Initially there is no database.
LEMMA InitIInv == Init => IInv
<1> SUFFICES ASSUME Init PROVE IInv
  OBVIOUS
<1>1. Empty \in Database
  BY DEF Empty, NoTokens, Database, Words
<1>2. Idle \in [pc : Handlers \cup {"idle", "set", "clear"}, sess : 0..MaxSessions,
                token : 0..MaxTokens, new : Words] /\ Idle.pc = "idle"
  BY AuthAssumption DEF Idle, Arrived, Words
<1>3. TypeOK
  <2>1. initial \in BOOLEAN
    BY Zenon DEF Init
  <2>2. 0 \in 0..MaxTokens /\ 0 \in 0..MaxSessions /\ 0 \in 0..MaxErrors /\ 0 \in 0..MaxCrashes
    BY AuthAssumption
  <2>3. req \in [Requests -> [pc : Handlers \cup {"idle", "set", "clear"}, sess : 0..MaxSessions,
                             token : 0..MaxTokens, new : Words]]
    BY <1>2 DEF Init
  <2> QED
    BY <1>1, <2>1, <2>2, <2>3 DEF Init, TypeOK, Words
<1>4. HolderOK /\ NumbersOK
  BY <1>2 DEF Init, HolderOK, NumbersOK, Live, Empty, NoTokens
<1>5. RevocationFinal /\ IssuedWorks /\ PasswordKept /\ RawTransient
  BY DEF Init, RevocationFinal, IssuedWorks, PasswordKept, RawTransient
<1> QED
  BY <1>3, <1>4, <1>5 DEF IInv

\* A request that is inside no CreateToken, or stays where it is in its own,
\* may do anything to sessions.
LEMMA Bystander ==
  ASSUME IInv, TypeOK', UNCHANGED <<mode, db, disk, holder, created, history>>,
         \A r \in Requests : req'[r] = req[r] \/ (req[r].pc # "clear" /\ req'[r].pc # "clear")
  PROVE  IInv'
<1> USE DEF IInv
<1>1. \A r \in holder : r \in Requests /\ req[r].pc = "clear" /\ req'[r] = req[r]
  BY DEF TypeOK, HolderOK
<1>2. HolderOK'
  BY <1>1 DEF HolderOK, Live
<1>3. NumbersOK'
  BY DEF NumbersOK, Live, history
<1>4. RevocationFinal' /\ IssuedWorks' /\ PasswordKept'
  BY DEF RevocationFinal, IssuedWorks, PasswordKept, Live, history
<1>5. RawTransient'
  BY <1>1 DEF RawTransient, history
<1> QED
  BY <1>2, <1>3, <1>4, <1>5

\* The steps that only touch sessions keep the invariant.
LEMMA SessionsKeep ==
  ASSUME IInv,
         \/ \E p \in Words : Login(p)
         \/ \E s \in Sessions : Expire(s)
         \/ \E r \in Requests, s \in Sessions, h \in Handlers : CheckSession(r, s, h)
         \/ \E r \in Requests : hRead(r) \/ hLogout(r)
         \/ \E r \in Requests, old \in Words, new \in Passwords : hPassword(r, old, new)
         \/ WriteInitialPassword
  PROVE  IInv'
<1> USE AuthAssumption
<1>0. TypeOK /\ Idle \in [pc : Handlers \cup {"idle", "set", "clear"}, sess : 0..MaxSessions,
                         token : 0..MaxTokens, new : Words] /\ Idle.pc = "idle"
  BY DEF IInv, Idle, Arrived, Words
<1>1. ASSUME NEW p \in Words, Login(p) PROVE IInv'
  <2>1. TypeOK'
    <3>1. sess' \subseteq Sessions /\ expired' \subseteq sess' /\ logins' \in 0..MaxSessions
      <4>1. sess \subseteq Sessions /\ expired \subseteq sess /\ logins \in 0..MaxSessions
        BY <1>0 DEF TypeOK
      <4>2. \/ logins < MaxSessions /\ logins' = logins + 1 /\ sess' = sess \cup {logins + 1}
            \/ logins' = logins /\ sess' = sess
        BY <1>1 DEF Login
      <4>3. logins < MaxSessions => logins + 1 \in Sessions /\ logins + 1 \in 0..MaxSessions
        BY <4>1 DEF Sessions
      <4> QED
        BY <1>1, <4>1, <4>2, <4>3 DEF Login
    <3> QED
      BY <1>0, <1>1, <3>1 DEF Login, TypeOK, history
  <2> QED
    BY <1>1, <2>1, Bystander DEF Login
<1>2. ASSUME NEW s \in Sessions, Expire(s) PROVE IInv'
  <2>1. TypeOK'
    BY <1>0, <1>2 DEF Expire, TypeOK, history
  <2> QED
    BY <1>2, <2>1, Bystander DEF Expire
<1>3. ASSUME NEW r \in Requests, NEW s \in Sessions, NEW h \in Handlers, CheckSession(r, s, h)
      PROVE  IInv'
  <2> DEFINE x == Arrived(h, s)
  <2>1. req' = req \/ req' = [req EXCEPT ![r] = x]
    BY <1>3 DEF CheckSession
  <2>2. x \in [pc : Handlers \cup {"idle", "set", "clear"}, sess : 0..MaxSessions,
               token : 0..MaxTokens, new : Words] /\ x.pc # "clear"
    BY DEF Arrived, Handlers, Sessions, Words
  <2> HIDE DEF x
  <2>3. TypeOK'
    <3>1. sess' \subseteq Sessions /\ expired' \subseteq sess'
      BY <1>0, <1>3 DEF CheckSession, TypeOK
    <3> QED
      BY <1>0, <1>3, <2>1, <2>2, <3>1 DEF CheckSession, TypeOK, history
  <2>4. \A q \in Requests : req'[q] = req[q] \/ (req[q].pc # "clear" /\ req'[q].pc # "clear")
    BY <1>0, <1>3, <2>1, <2>2 DEF CheckSession, TypeOK
  <2> QED
    BY <1>3, <2>3, <2>4, Bystander DEF CheckSession
<1>4. ASSUME NEW r \in Requests, hRead(r) \/ hLogout(r) PROVE IInv'
  <2>1. TypeOK'
    BY <1>0, <1>4 DEF hRead, hLogout, Answer, TypeOK, history
  <2>2. \A q \in Requests : req'[q] = req[q] \/ (req[q].pc # "clear" /\ req'[q].pc # "clear")
    BY <1>0, <1>4 DEF hRead, hLogout, Answer, TypeOK
  <2> QED
    BY <1>4, <2>1, <2>2, Bystander DEF hRead, hLogout
<1>5. ASSUME NEW r \in Requests, NEW old \in Words, NEW new \in Passwords, hPassword(r, old, new)
      PROVE  IInv'
  <2>1. req' \in {[req EXCEPT ![r].pc = "set", ![r].new = new], [req EXCEPT ![r] = Idle]}
    BY <1>5 DEF hPassword, Answer
  <2>2. TypeOK'
    BY <1>0, <1>5, <2>1 DEF hPassword, TypeOK, Sessions, Words, history
  <2>3. \A q \in Requests : req'[q] = req[q] \/ (req[q].pc # "clear" /\ req'[q].pc # "clear")
    BY <1>0, <1>5, <2>1 DEF hPassword, TypeOK
  <2> QED
    BY <1>5, <2>2, <2>3, Bystander DEF hPassword
<1>6. CASE WriteInitialPassword
  <2>1. TypeOK'
    <3>1. initial' \in BOOLEAN
      BY <1>0, <1>6, Zenon DEF WriteInitialPassword, TypeOK
    <3>2. errors' \in 0..MaxErrors
      BY <1>0, <1>6 DEF WriteInitialPassword, TypeOK
    <3> QED
      BY <1>0, <1>6, <3>1, <3>2 DEF WriteInitialPassword, TypeOK, history
  <2> QED
    BY <1>6, <2>1 DEF WriteInitialPassword, IInv, HolderOK, NumbersOK, RevocationFinal,
       IssuedWorks, PasswordKept, RawTransient, Live, history
<1> QED
  BY <1>1, <1>2, <1>3, <1>4, <1>5, <1>6

\* What the changes of a database leave it: SetPassword, CreateToken before and
\* after its first save, RevokeToken.
LEMMA PasswordChange ==
  ASSUME NEW d \in Database, NEW p \in Words
  PROVE  LET e == [d EXCEPT !.pass = p]
         IN  e \in Database /\ e.pass = p /\ e.raw = d.raw /\ Live(e) = Live(d)
  BY DEF Database, Live

LEMMA TokenAdded ==
  ASSUME NEW d \in Database, NEW t \in Tokens, NEW role \in Roles
  PROVE  LET e == [d EXCEPT !.role[t] = role, !.raw = @ \cup {t}]
         IN  /\ e \in Database /\ e.pass = d.pass
             /\ e.raw = d.raw \cup {t} /\ Live(e) = Live(d) \cup {t}
  BY DEF Database, Live, Roles

LEMMA TokenCleared ==
  ASSUME NEW d \in Database, NEW t \in Tokens
  PROVE  LET e == [d EXCEPT !.raw = @ \ {t}]
         IN  e \in Database /\ e.pass = d.pass /\ e.raw = d.raw \ {t} /\ Live(e) = Live(d)
  BY DEF Database, Live

LEMMA TokenRemoved ==
  ASSUME NEW d \in Database, NEW t \in Tokens
  PROVE  LET e == [d EXCEPT !.role[t] = "none", !.raw = @ \ {t}]
         IN  /\ e \in Database /\ e.pass = d.pass
             /\ e.raw = d.raw \ {t} /\ Live(e) = Live(d) \ {t}
  BY DEF Database, Live, Roles

\* save() leaves auth.json a database or as it was.
LEMMA SaveTypes ==
  ASSUME TypeOK, NEW d \in Database, Saved(d) \/ SaveFails
  PROVE  /\ disk' = d \/ disk' = disk
         /\ disk' \in Database \cup {NoFile}
         /\ errors' \in 0..MaxErrors
  BY AuthAssumption DEF Saved, SaveFails, TypeOK

\* Check of a token saves the database as it is, or not.
LEMMA CheckTokenKeeps ==
  ASSUME IInv, NEW r \in Requests, NEW t \in Tokens, NEW h \in Handlers, CheckToken(r, t, h)
  PROVE  IInv'
<1> USE DEF IInv
<1>1. /\ disk' = db \/ disk' = disk
      /\ disk' \in Database \cup {NoFile} /\ errors' \in 0..MaxErrors
  BY SaveTypes DEF CheckToken, TypeOK
<1>2. PICK x \in {Arrived(h, 0), Idle} : req' = [req EXCEPT ![r] = x]
  BY DEF CheckToken
<1>3. x \in [pc : Handlers \cup {"idle", "set", "clear"}, sess : 0..MaxSessions,
             token : 0..MaxTokens, new : Words] /\ x.pc # "clear"
  BY AuthAssumption DEF Arrived, Idle, Handlers, Words
<1>4. TypeOK'
  BY <1>1, <1>2, <1>3 DEF CheckToken, TypeOK, history
<1>5. holder = {} /\ holder' = {} /\ mode = "up" /\ db \in Database /\ db # NoFile /\ disk # NoFile
  BY AuthAssumption DEF CheckToken, Free, NumbersOK, TypeOK
<1>6. HolderOK'
  BY <1>2, <1>3, <1>5 DEF CheckToken, HolderOK, TypeOK
<1>7. NumbersOK'
  BY <1>1, <1>5 DEF CheckToken, NumbersOK, Live, history
<1>8. RevocationFinal' /\ IssuedWorks' /\ PasswordKept'
  BY <1>1, <1>5 DEF CheckToken, RevocationFinal, IssuedWorks, PasswordKept, Live, history
<1>9. RawTransient'
  BY <1>1, <1>5 DEF CheckToken, RawTransient, history
<1> QED
  BY <1>4, <1>6, <1>7, <1>8, <1>9

\* SetPassword changes the password in memory, and on disk when it succeeds.
LEMMA SetPasswordKeeps ==
  ASSUME IInv, NEW r \in Requests, SetPassword(r)
  PROVE  IInv'
<1> USE DEF IInv
<1> DEFINE d == [db EXCEPT !.pass = req[r].new]
<1>0. db \in Database /\ req[r].new \in Words
  BY DEF TypeOK
<1>1. d \in Database /\ d.pass = req[r].new /\ d.raw = db.raw /\ Live(d) = Live(db)
  BY <1>0, PasswordChange
<1>2. /\ db' = d
      /\ \/ Saved(d) /\ password' = d.pass /\ tried' = {}
         \/ SaveFails /\ tried' = tried \cup {d.pass} /\ UNCHANGED password
  BY DEF SetPassword
<1> HIDE DEF d
<1>3. /\ disk' = d \/ disk' = disk
      /\ disk' \in Database \cup {NoFile} /\ errors' \in 0..MaxErrors
  BY <1>1, <1>2, SaveTypes
<1>4. Idle \in [pc : Handlers \cup {"idle", "set", "clear"}, sess : 0..MaxSessions,
                token : 0..MaxTokens, new : Words] /\ Idle.pc = "idle"
  BY AuthAssumption DEF Arrived, Idle, Handlers, Words
<1>5. TypeOK'
  <2>1. password' \in Words /\ tried' \subseteq Words
    BY <1>0, <1>1, <1>2 DEF TypeOK
  <2>2. req' = [req EXCEPT ![r] = Idle] /\ db' \in Database
    BY <1>1, <1>2 DEF SetPassword, Answer
  <2> QED
    BY <1>3, <1>4, <2>1, <2>2 DEF SetPassword, TypeOK
<1>6. holder = {} /\ holder' = {} /\ mode = "up" /\ mode' = "up" /\ d # NoFile /\ disk # NoFile
  BY <1>1, AuthAssumption DEF SetPassword, Free, NumbersOK
<1>7. HolderOK'
  BY <1>4, <1>6 DEF SetPassword, Answer, HolderOK, TypeOK
<1>8. NumbersOK'
  <2>1. Live(db)' = Live(db) /\ (Live(disk)' = Live(db) \/ Live(disk)' = Live(disk))
    BY <1>1, <1>2, <1>3 DEF Live
  <2> QED
    BY <1>3, <1>6, <2>1 DEF SetPassword, NumbersOK
<1>9. RevocationFinal' /\ IssuedWorks'
  <2>1. Live(db)' = Live(db) /\ (Live(disk)' = Live(db) \/ Live(disk)' = Live(disk))
    BY <1>1, <1>2, <1>3 DEF Live
  <2> QED
    BY <1>3, <1>6, <2>1 DEF SetPassword, RevocationFinal, IssuedWorks
<1>10. PasswordKept'
  BY <1>1, <1>2, <1>6 DEF Saved, SaveFails, PasswordKept
<1>11. RawTransient'
  BY <1>1, <1>2, <1>3, <1>6 DEF SetPassword, RawTransient
<1> QED
  BY <1>5, <1>7, <1>8, <1>9, <1>10, <1>11

\* CreateToken up to its first save: either the token is stored and nobody else
\* gets in before it is cleared, or it stays in memory only.
LEMMA CreateTokenKeeps ==
  ASSUME IInv, NEW r \in Requests, NEW role \in Roles, CreateToken(r, role)
  PROVE  IInv'
<1> USE DEF IInv
<1> DEFINE t == created + 1
           d == [db EXCEPT !.role[t] = role, !.raw = @ \cup {t}]
<1>0. /\ db \in Database /\ created \in 0..MaxTokens /\ created < MaxTokens
      /\ t \in Tokens /\ t \in 0..MaxTokens /\ t \notin 1..created /\ created' = t
      /\ 1..created \subseteq 1..t /\ t # 0
  BY AuthAssumption DEF CreateToken, TypeOK, Tokens
<1>1. /\ d \in Database /\ d.pass = db.pass
      /\ d.raw = db.raw \cup {t} /\ Live(d) = Live(db) \cup {t}
  BY <1>0, TokenAdded
<1>2. /\ db' = d
      /\ \/ /\ Saved(d)
            /\ req' = [req EXCEPT ![r].pc = "clear", ![r].token = t]
            /\ holder' = {r} /\ broken' = broken
         \/ /\ SaveFails
            /\ req' = [req EXCEPT ![r] = Idle]
            /\ broken' = broken \cup {t} /\ holder' = holder
  BY DEF CreateToken, Answer
<1> HIDE DEF d
<1>3. /\ disk' = d \/ disk' = disk
      /\ disk' \in Database \cup {NoFile} /\ errors' \in 0..MaxErrors
  BY <1>1, <1>2, SaveTypes
<1>4. Idle \in [pc : Handlers \cup {"idle", "set", "clear"}, sess : 0..MaxSessions,
                token : 0..MaxTokens, new : Words] /\ Idle.pc = "idle"
  BY AuthAssumption DEF Arrived, Idle, Handlers, Words
<1>5. holder = {} /\ mode = "up" /\ mode' = "up" /\ d # NoFile /\ disk # NoFile /\ disk' # NoFile
  BY <1>1, <1>3, AuthAssumption DEF CreateToken, Free, NumbersOK
<1>6. /\ issued \cup revoking \cup revoked \subseteq 1..created
      /\ UNCHANGED <<issued, revoking, revoked, password, tried>>
  BY DEF NumbersOK, CreateToken
<1> HIDE DEF t
<1>7. TypeOK'
  <2>1. broken' \subseteq Tokens /\ holder' \subseteq Requests
    BY <1>0, <1>2 DEF TypeOK
  <2>2. req' \in [Requests -> [pc : Handlers \cup {"idle", "set", "clear"}, sess : 0..MaxSessions,
                              token : 0..MaxTokens, new : Words]]
    BY <1>0, <1>2, <1>4 DEF TypeOK
  <2> QED
    BY <1>0, <1>1, <1>2, <1>3, <1>6, <2>1, <2>2 DEF CreateToken, TypeOK
<1>8. HolderOK'
  <2>1. CASE holder' = {r}
    <3>1. Saved(d) /\ req' = [req EXCEPT ![r].pc = "clear", ![r].token = t] /\ disk' = d
      BY <1>2, <1>5, <2>1 DEF Saved
    <3>2. req'[r].pc = "clear" /\ req'[r].token = t /\ \A q \in Requests \ {r} : req'[q] = req[q]
      BY <3>1 DEF TypeOK
    <3>3. t \in Live(db)' /\ t \in Live(disk)'
      BY <1>1, <1>2, <3>1 DEF Live
    <3> QED
      BY <1>5, <2>1, <3>2, <3>3 DEF HolderOK
  <2>2. CASE holder' # {r}
    <3>1. holder' = {} /\ req' = [req EXCEPT ![r] = Idle]
      BY <1>2, <1>5, <2>2
    <3> QED
      BY <1>4, <1>5, <3>1 DEF HolderOK, TypeOK
  <2> QED
    BY <2>1, <2>2
<1>9. NumbersOK'
  <2>1. /\ Live(db)' = Live(db) \cup {t}
        /\ Live(disk)' = Live(db) \cup {t} \/ Live(disk)' = Live(disk)
    BY <1>1, <1>2, <1>3 DEF Live
  <2>2. t \in 1..t
    BY <1>0
  <2> QED
    BY <1>0, <1>5, <1>6, <2>1, <2>2 DEF NumbersOK
<1>10. RevocationFinal' /\ IssuedWorks' /\ PasswordKept'
  <2>1. /\ Live(db)' = Live(db) \cup {t}
        /\ Live(disk)' = Live(db) \cup {t} \/ Live(disk)' = Live(disk)
        /\ db'.pass = db.pass /\ disk'.pass \in {db.pass, disk.pass}
    BY <1>1, <1>2, <1>3 DEF Live
  <2>2. t \notin issued /\ t \notin revoked
    BY <1>0, <1>6
  <2> QED
    BY <1>5, <1>6, <2>1, <2>2 DEF RevocationFinal, IssuedWorks, PasswordKept
<1>11. RawTransient'
  <2>1. db.raw \subseteq broken /\ disk.raw \subseteq broken
    BY <1>5 DEF RawTransient
  <2>2. CASE holder' = {r}
    <3>1. req'[r].token = t
      BY <1>2, <1>5, <2>2 DEF TypeOK
    <3> QED
      BY <1>1, <1>2, <1>3, <1>5, <2>1, <2>2, <3>1 DEF RawTransient
  <2>3. CASE holder' # {r}
    <3>1. broken' = broken \cup {t}
      BY <1>2, <2>3
    <3> QED
      BY <1>1, <1>2, <1>3, <2>1, <3>1 DEF RawTransient
  <2> QED
    BY <2>2, <2>3
<1> QED
  BY <1>7, <1>8, <1>9, <1>10, <1>11

\* The second save takes the raw token away, or is noted as failed.
LEMMA ClearTokenKeeps ==
  ASSUME IInv, NEW r \in Requests, ClearToken(r)
  PROVE  IInv'
<1> USE DEF IInv
<1> DEFINE t == req[r].token
           d == [db EXCEPT !.raw = @ \ {t}]
<1>0. /\ db \in Database /\ holder = {r} /\ disk # NoFile /\ mode = "up"
      /\ t \in Live(db) /\ t \in Live(disk) /\ t \in Tokens
  BY DEF ClearToken, TypeOK, HolderOK, Live
<1>1. d \in Database /\ d.pass = db.pass /\ d.raw = db.raw \ {t} /\ Live(d) = Live(db)
  BY <1>0, TokenCleared
<1>2. /\ db' = d
      /\ issued' = issued \cup {t}
      /\ \/ Saved(d) /\ UNCHANGED broken
         \/ SaveFails /\ broken' = broken \cup {t}
      /\ holder' = {} /\ req' = [req EXCEPT ![r] = Idle]
      /\ UNCHANGED <<mode, sess, expired, initial, created, logins, revoking, revoked,
                     password, tried, crashes>>
  BY DEF ClearToken, Answer
<1> HIDE DEF d
<1>3. /\ disk' = d \/ disk' = disk
      /\ disk' \in Database \cup {NoFile} /\ errors' \in 0..MaxErrors
  BY <1>1, <1>2, SaveTypes
<1>4. Idle \in [pc : Handlers \cup {"idle", "set", "clear"}, sess : 0..MaxSessions,
                token : 0..MaxTokens, new : Words] /\ Idle.pc = "idle"
  BY AuthAssumption DEF Arrived, Idle, Handlers, Words
<1>5. d # NoFile /\ disk' # NoFile
  BY <1>0, <1>1, <1>3, AuthAssumption
<1>6. t \in 1..created
  BY <1>0 DEF NumbersOK
<1>7. TypeOK'
  BY <1>0, <1>1, <1>2, <1>3, <1>4 DEF TypeOK
<1>8. HolderOK'
  BY <1>0, <1>2, <1>4 DEF HolderOK, TypeOK
<1>9. NumbersOK'
  <2>1. Live(db)' = Live(db) /\ (Live(disk)' = Live(db) \/ Live(disk)' = Live(disk))
    BY <1>1, <1>2, <1>3 DEF Live
  <2> QED
    BY <1>0, <1>2, <1>5, <1>6, <2>1 DEF NumbersOK
<1>10. RevocationFinal' /\ IssuedWorks' /\ PasswordKept'
  <2>1. /\ Live(db)' = Live(db)
        /\ Live(disk)' = Live(db) \/ Live(disk)' = Live(disk)
        /\ db'.pass = db.pass /\ disk'.pass \in {db.pass, disk.pass}
    BY <1>1, <1>2, <1>3 DEF Live
  <2> QED
    BY <1>0, <1>2, <1>5, <2>1 DEF RevocationFinal, IssuedWorks, PasswordKept
<1>11. RawTransient'
  <2>1. db.raw \subseteq broken \cup {t} /\ disk.raw \subseteq broken \cup {t}
    BY <1>0 DEF RawTransient
  <2>2. db'.raw \subseteq broken' /\ disk'.raw \subseteq broken'
    BY <1>1, <1>2, <2>1 DEF Saved, SaveFails
  <2> QED
    BY <2>2 DEF RawTransient
<1> QED
  BY <1>7, <1>8, <1>9, <1>10, <1>11

\* RevokeToken removes the token in memory, and on disk when it succeeds.
LEMMA RevokeTokenKeeps ==
  ASSUME IInv, NEW r \in Requests, NEW t \in Tokens, RevokeToken(r, t)
  PROVE  IInv'
<1> USE DEF IInv
<1> DEFINE d == [db EXCEPT !.role[t] = "none", !.raw = @ \ {t}]
<1>0. db \in Database /\ holder = {} /\ mode = "up" /\ disk # NoFile
  BY DEF RevokeToken, Free, TypeOK, NumbersOK
<1>1. /\ d \in Database /\ d.pass = db.pass
      /\ d.raw = db.raw \ {t} /\ Live(d) = Live(db) \ {t}
  BY <1>0, TokenRemoved
<1>2. /\ \/ /\ t \in Live(db) /\ db' = d /\ revoking' = revoking \cup {t}
            /\ \/ Saved(d) /\ revoked' = revoked \cup {t}
               \/ SaveFails /\ UNCHANGED revoked
         \/ UNCHANGED <<db, disk, errors, revoking, revoked>>
      /\ req' = [req EXCEPT ![r] = Idle]
      /\ UNCHANGED <<mode, sess, expired, initial, holder, created, logins, issued, broken,
                     password, tried, crashes>>
  BY DEF RevokeToken, Answer, Live
<1> HIDE DEF d
<1>3. Idle \in [pc : Handlers \cup {"idle", "set", "clear"}, sess : 0..MaxSessions,
                token : 0..MaxTokens, new : Words] /\ Idle.pc = "idle"
  BY AuthAssumption DEF Arrived, Idle, Handlers, Words
<1>4. /\ \/ db' = d /\ (disk' = d \/ disk' = disk)
         \/ db' = db /\ disk' = disk
      /\ disk' \in Database \cup {NoFile} /\ errors' \in 0..MaxErrors
  BY <1>1, <1>2, SaveTypes DEF TypeOK
<1>5. d # NoFile /\ disk' # NoFile
  BY <1>0, <1>1, <1>4, AuthAssumption
<1>6. TypeOK'
  BY <1>0, <1>1, <1>2, <1>3, <1>4 DEF TypeOK
<1>7. HolderOK'
  BY <1>0, <1>2, <1>3 DEF HolderOK, TypeOK
<1>8. ASSUME UNCHANGED <<db, disk, revoking, revoked>>
      PROVE  NumbersOK' /\ RevocationFinal' /\ IssuedWorks'
  BY <1>2, <1>8 DEF NumbersOK, RevocationFinal, IssuedWorks, Live
<1>9. ASSUME t \in Live(db), db' = d, revoking' = revoking \cup {t},
             \/ Saved(d) /\ revoked' = revoked \cup {t}
             \/ SaveFails /\ UNCHANGED revoked
      PROVE  NumbersOK' /\ RevocationFinal' /\ IssuedWorks'
  <2>1. /\ Live(db)' = Live(db) \ {t}
        /\ \/ Live(disk)' = Live(db) \ {t}
           \/ Live(disk)' = Live(disk) /\ revoked' = revoked
    BY <1>1, <1>9 DEF Live, Saved, SaveFails
  <2>2. NumbersOK'
    BY <1>0, <1>2, <1>5, <1>9, <2>1 DEF NumbersOK
  <2>3. RevocationFinal' /\ IssuedWorks'
    BY <1>0, <1>2, <1>5, <1>9, <2>1 DEF RevocationFinal, IssuedWorks
  <2> QED
    BY <2>2, <2>3
<1>10. PasswordKept' /\ RawTransient'
  BY <1>0, <1>1, <1>2, <1>4, <1>5 DEF PasswordKept, RawTransient
<1> QED
  BY <1>2, <1>6, <1>7, <1>8, <1>9, <1>10

\* Open and EnsureAdmin: a daemon starts from what is on disk, or from nothing.
LEMMA OpenKeeps ==
  ASSUME IInv, OpenExisting \/ \E p \in Words : OpenNew(p)
  PROVE  IInv'
<1> USE DEF IInv
<1>1. CASE OpenExisting
  <2>1. holder = {} /\ disk \in Database /\ db' = disk /\ disk' = disk /\ mode' = "up"
    BY <1>1 DEF OpenExisting, HolderOK, TypeOK
  <2>2. TypeOK'
    BY <1>1, <2>1 DEF OpenExisting, TypeOK, history
  <2>3. HolderOK' /\ NumbersOK'
    BY <1>1, <2>1 DEF OpenExisting, HolderOK, NumbersOK, Live, history
  <2>4. RevocationFinal' /\ IssuedWorks' /\ PasswordKept' /\ RawTransient'
    BY <1>1, <2>1 DEF OpenExisting, RevocationFinal, IssuedWorks, PasswordKept, RawTransient,
       Live, history
  <2> QED
    BY <2>2, <2>3, <2>4
<1>2. ASSUME NEW p \in Words, OpenNew(p) PROVE IInv'
  <2> DEFINE d == [Empty EXCEPT !.pass = p]
  <2>1. Empty \in Database /\ Empty.raw = {} /\ Live(Empty) = {}
    BY DEF Empty, NoTokens, Database, Words, Live
  <2>2. d \in Database /\ d.pass = p /\ d.raw = {} /\ Live(d) = {} /\ d # NoFile
    BY <2>1, PasswordChange, AuthAssumption
  <2>3. /\ holder = {} /\ disk = NoFile /\ created = 0
        /\ issued = {} /\ revoked = {} /\ revoking = {}
    <3>1. mode = "down" /\ disk = NoFile /\ created = 0
      BY <1>2 DEF OpenNew, NumbersOK
    <3>2. 1..created = {}
      BY <3>1
    <3> QED
      BY <3>1, <3>2 DEF HolderOK, NumbersOK
  <2>4. /\ \/ Saved(d) /\ db' = d /\ mode' \in {"new", "up"} /\ password' = p
           \/ SaveFails /\ UNCHANGED <<db, mode, password>>
        /\ UNCHANGED <<sess, expired, initial, req, holder, created, logins, issued, revoking,
                       revoked, broken, tried, crashes>>
    BY <1>2 DEF OpenNew
  <2> HIDE DEF d
  <2>5. disk' \in Database \cup {NoFile} /\ errors' \in 0..MaxErrors
    BY <2>2, <2>4, SaveTypes
  <2>6. TypeOK'
    BY <2>2, <2>4, <2>5 DEF TypeOK
  <2>7. HolderOK'
    BY <2>3, <2>4 DEF HolderOK
  <2>8. CASE Saved(d) /\ db' = d /\ mode' \in {"new", "up"} /\ password' = p
    <3>1. disk' = d /\ db' = d
      BY <2>8 DEF Saved
    <3>2. NumbersOK'
      BY <2>2, <2>3, <2>4, <3>1 DEF NumbersOK, Live
    <3>3. RevocationFinal' /\ IssuedWorks' /\ PasswordKept' /\ RawTransient'
      BY <2>2, <2>3, <2>4, <2>8, <3>1
         DEF RevocationFinal, IssuedWorks, PasswordKept, RawTransient
    <3> QED
      BY <2>6, <2>7, <3>2, <3>3
  <2>9. CASE SaveFails /\ UNCHANGED <<db, mode, password>>
    <3>1. disk' = NoFile /\ mode' = "down"
      BY <1>2, <2>3, <2>9 DEF SaveFails, OpenNew
    <3>2. NumbersOK'
      BY <2>3, <2>4, <2>9, <3>1 DEF NumbersOK, Live
    <3>3. RevocationFinal' /\ IssuedWorks' /\ PasswordKept' /\ RawTransient'
      BY <2>3, <2>4, <3>1
         DEF RevocationFinal, IssuedWorks, PasswordKept, RawTransient
    <3> QED
      BY <2>6, <2>7, <3>2, <3>3
  <2> QED
    BY <2>4, <2>8, <2>9
<1> QED
  BY <1>1, <1>2

\* A crash loses the memory; a token whose creation it interrupts is noted.
LEMMA CrashKeeps ==
  ASSUME IInv, Crash
  PROVE  IInv'
<1> USE DEF IInv
<1>1. /\ Empty \in Database
      /\ Idle \in [pc : Handlers \cup {"idle", "set", "clear"}, sess : 0..MaxSessions,
                   token : 0..MaxTokens, new : Words] /\ Idle.pc = "idle"
  BY AuthAssumption DEF Empty, NoTokens, Database, Arrived, Idle, Handlers, Words
<1>2. {req[r].token : r \in holder} \subseteq Tokens
  BY DEF HolderOK, Live
<1>3. TypeOK'
  BY <1>1, <1>2, AuthAssumption DEF Crash, TypeOK
<1>4. HolderOK' /\ NumbersOK'
  BY <1>1 DEF Crash, HolderOK, NumbersOK, Live, Empty, NoTokens
<1>5. RevocationFinal' /\ IssuedWorks' /\ PasswordKept' /\ RawTransient'
  BY DEF Crash, RevocationFinal, IssuedWorks, PasswordKept, RawTransient, Live
<1> QED
  BY <1>3, <1>4, <1>5

\* Every step keeps the invariant.
LEMMA NextIInv == IInv /\ [Next]_vars => IInv'
<1> SUFFICES ASSUME IInv, [Next]_vars PROVE IInv'
  OBVIOUS
<1>1. CASE Next
  BY <1>1, OpenKeeps, CrashKeeps, SessionsKeep, CheckTokenKeeps, SetPasswordKeeps,
     CreateTokenKeeps, ClearTokenKeeps, RevokeTokenKeeps
     DEF Next, hLogin, authOnly, hTokensCreate, hTokensDelete
<1>2. CASE UNCHANGED vars
  BY <1>2 DEF vars, history, IInv, TypeOK, HolderOK, NumbersOK, RevocationFinal, IssuedWorks,
     PasswordKept, RawTransient, Live
<1> QED
  BY <1>1, <1>2

\* The invariant holds throughout.
LEMMA Invariance == Spec => []IInv
  BY InitIInv, NextIInv, PTL DEF Spec

\* A revoked token is accepted never again, by this daemon or a later one.
THEOREM RevokedForGood == Spec => []RevocationFinal
<1>1. IInv => RevocationFinal
  BY DEF IInv
<1> QED
  BY Invariance, <1>1, PTL

\* A token that was handed out works until its revocation is asked for.
THEOREM IssuedAccepted == Spec => []IssuedWorks
<1>1. IInv => IssuedWorks
  BY DEF IInv
<1> QED
  BY Invariance, <1>1, PTL

\* The password in force is the one last acknowledged, or one tried since.
THEOREM PasswordInForce == Spec => []PasswordKept
<1>1. IInv => PasswordKept
  BY DEF IInv
<1> QED
  BY Invariance, <1>1, PTL

\* A raw token is stored only while it is created, unless a fault hits that.
THEOREM RawOnlyWhileCreating == Spec => []RawTransient
<1>1. IInv => RawTransient
  BY DEF IInv
<1> QED
  BY Invariance, <1>1, PTL

=============================================================================
