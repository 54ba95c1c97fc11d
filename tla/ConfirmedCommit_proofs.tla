----------------------- MODULE ConfirmedCommit_proofs -----------------------
(***************************************************************************)
(* What is proved of ConfirmedCommit for any number of requests,           *)
(* transactions, windows, reconcilers and configurations, and any bounds.  *)
(***************************************************************************)
EXTENDS ConfirmedCommit, TLAPS

-----------------------------------------------------------------------------
(* The inductive invariant *)

\* What holds of the locals q of one request:
\* the configurations it still uses are real ones, the transaction it points
\* to has a draft, the window that rollbackPending took is not open again, and
\* hTxnCommit holds a token that its own transaction's window was given.
LocalOK(q) ==
    /\ \/ q.pc \in {"check", "apply", "recover", "recsync", "window", "save", "clear",
                    "sync", "csave", "rapply", "tadd", "tdraft"}
       \/ q.pc \in {"eff", "current"} /\ q.caller = "applyNewConfig"
       => q.next \in Configs
    /\ q.pc \in {"check", "apply", "recover", "recsync", "tbase"} => q.base \in Configs
    /\ q.pc \in {"eff", "current"} => q.caller # "none"
    /\ q.pc = "tbase" => q.caller = "hTxnApply"
    /\ q.pc = "tdraft" => q.txn \in Txns
    /\ q.pc = "tdel" => q.own \in Txns
    /\ q.caller = "hTxnApply" => q.txn \in Txns /\ txn[q.txn].draft \in Configs
    /\ q.pc = "rstop" /\ q.win \in Windows =>
         timer[q.win] # "unused" /\ pend.win # q.win
    /\ q.pc = "take" /\ q.own # NoTxn =>
         /\ q.win \in Windows
         /\ timer[q.win] # "unused"
         /\ pend.win = q.win => pend.txn = q.own

LocalsOK == \A r \in Reqs : LocalOK(req[r])

\* What holds of the shared state: the configurations in it are real ones, a
\* token is unused, open or ended, and the open one is that of Server.pend.
SharedOK ==
    /\ pend # NoPend => pend.cfg \in Configs /\ pend.win \in Windows
    /\ \A t \in Txns : txn[t].st = "open" => txn[t].draft \in Configs
    /\ \A k \in Recs : rec[k].pc = "apply" => rec[k].cfg \in Configs
    /\ \A w \in Windows : timer[w] = "apply" => target[w] \in Configs
    /\ \A w \in Windows : outcome[w] = "none" <=> timer[w] = "unused"
    /\ \A w \in Windows : outcome[w] = "open" <=> pend.win = w
    /\ WindowArmed

IInv == TypeOK /\ SharedOK /\ LocalsOK

\* What every step grants to the requests it does not move: a used token stays
\* used, a window that opens has a fresh one, a draft stays a configuration.
Stable ==
    /\ \A w \in Windows : timer[w] # "unused" => timer'[w] # "unused"
    /\ \/ pend' = pend
       \/ pend' = NoPend
       \/ pend'.win \in Windows /\ timer[pend'.win] = "unused"
    /\ \A t \in Txns : txn[t].draft \in Configs => txn'[t].draft \in Configs

\* The step moves at most request r, to locals that satisfy the invariant.
Moves(r) ==
    /\ req' = [req EXCEPT ![r] = req'[r]]
    /\ req'[r] \in Request
    /\ LocalOK(req[r])'

-----------------------------------------------------------------------------
(* Facts about the constants and the shared steps *)

\* The labels are program counters; the zero values are none of the real ones.
LEMMA Constants ==
    /\ \A l \in {"idle", "eff", "current", "check", "apply", "recover", "recsync",
                 "window", "save", "clear", "sync", "take", "csave", "rtake", "rstop",
                 "rapply", "rsync", "tadd", "tdraft", "tbase", "tdel"} : l \in PCs
    /\ \A l \in {"none", "applyNewConfig", "hTxnBegin", "hTxnApply"} : l \in Callers
    /\ NoCfg \in Cfg0 /\ NoTxn \in Txn0 /\ NoWin \in Win0
    /\ Configs \subseteq Cfg0 /\ Txns \subseteq Txn0 /\ Windows \subseteq Win0
    /\ NoCfg \notin Configs /\ NoTxn \notin Txns /\ NoWin \notin Windows
    /\ Idle \in Request
  BY NullAssumption DEF PCs, Callers, Cfg0, Txn0, Win0, Idle, Request

\* The initial states satisfy the invariant.
LEMMA InitIInv == Init => IInv
  BY NullAssumption, BoundAssumption
     DEF Init, IInv, TypeOK, SharedTypeOK, SharedOK, LocalsOK, LocalOK, WindowArmed,
         Pending, NoPend, TimerStates, TxnRecord, NoTxnRecord, Request, Idle,
         Reconciler, Resting, Outcomes, PCs, Callers, Cfg0, Txn0, Win0

\* A request that a step does not move keeps its part of the invariant.
LEMMA Keeps ==
  ASSUME IInv, Stable, NEW q \in Request, LocalOK(q)
  PROVE  LocalOK(q)'
  BY Constants DEF IInv, TypeOK, SharedTypeOK, SharedOK, WindowArmed, Stable, LocalOK,
                   Pending, NoPend, Request

\* A step that moves at most one request keeps the invariant if it keeps that
\* of the shared state.
LEMMA OneMoves ==
  ASSUME IInv, Stable, SharedTypeOK', SharedOK', NEW r \in Reqs, Moves(r)
  PROVE  IInv'
<1>1. req' \in [Reqs -> Request]
  BY DEF IInv, TypeOK, Moves
<1>2. ASSUME NEW s \in Reqs, s # r PROVE LocalOK(req[s])'
  <2>1. PICK q \in Request : q = req[s]
    BY DEF IInv, TypeOK
  <2>2. LocalOK(q)'
    BY <2>1, Keeps DEF IInv, LocalsOK
  <2>3. req'[s] = q
    BY <1>2, <2>1 DEF Moves, IInv, TypeOK
  <2> QED
    BY <2>2, <2>3 DEF LocalOK
<1> QED
  BY <1>1, <1>2 DEF IInv, TypeOK, LocalsOK, Moves

\* A step that moves no request keeps the invariant if it keeps that of the
\* shared state.
LEMMA NoneMoves ==
  ASSUME IInv, Stable, SharedTypeOK', SharedOK', UNCHANGED req
  PROVE  IInv'
<1>1. ASSUME NEW s \in Reqs PROVE LocalOK(req[s])'
  <2>1. PICK q \in Request : q = req[s]
    BY DEF IInv, TypeOK
  <2>2. LocalOK(q)'
    BY <2>1, Keeps DEF IInv, LocalsOK
  <2> QED
    BY <2>1, <2>2 DEF LocalOK
<1> QED
  BY <1>1 DEF IInv, TypeOK, LocalsOK

\* A handler that returns leaves its slot empty.
LEMMA Returns ==
  ASSUME IInv, NEW r \in Reqs, Return(r)
  PROVE  Moves(r)
  BY Constants DEF IInv, TypeOK, Return, Moves, LocalOK, Idle

\* A handler that goes on keeps its locals.
LEMMA GoesTo ==
  ASSUME IInv, NEW r \in Reqs, NEW l \in PCs, GoTo(r, l)
  PROVE  /\ req' = [req EXCEPT ![r] = req'[r]]
         /\ req'[r] \in Request
         /\ req'[r] = [req[r] EXCEPT !.pc = l]
  BY DEF IInv, TypeOK, GoTo, Request

\* It keeps its part of the invariant if that holds at the next label.
LEMMA GoesOn ==
  ASSUME IInv, Stable, NEW r \in Reqs, NEW l \in PCs, GoTo(r, l),
         LocalOK([req[r] EXCEPT !.pc = l])
  PROVE  Moves(r)
<1>1. PICK q \in Request : q = req'[r] /\ q = [req[r] EXCEPT !.pc = l]
  BY GoesTo
<1>2. LocalOK(q)'
  BY <1>1, Keeps
<1>3. LocalOK(req[r])'
  BY <1>1, <1>2 DEF LocalOK
<1> QED
  BY <1>3, GoesTo DEF Moves

\* A request that arrives starts with the handler's first locals.
LEMMA Issues ==
  ASSUME IInv, NEW r \in Reqs, NEW q \in Request, Issue(r, q), LocalOK(q)'
  PROVE  Moves(r) /\ issued' \in 0..MaxRequests
<1>1. req' = [req EXCEPT ![r] = q] /\ req'[r] = q
  BY DEF IInv, TypeOK, Issue
<1>2. LocalOK(req[r])'
  BY <1>1 DEF LocalOK
<1>3. issued' \in 0..MaxRequests
  BY BoundAssumption DEF IInv, TypeOK, SharedTypeOK, Issue
<1> QED
  BY <1>1, <1>2, <1>3 DEF Moves

\* Whatever becomes of an apply, the kernel holds a configuration or a mixture.
LEMMA Applies ==
  ASSUME IInv, NEW c \in Configs, Applied(c) \/ ApplyFailed
  PROVE  live' \in Configs \cup {Partial} /\ faults' \in 0..MaxFaults
  BY BoundAssumption DEF IInv, TypeOK, SharedTypeOK, Applied, ApplyFailed

\* Whatever becomes of a save, memory and disk hold configurations.
LEMMA Saves ==
  ASSUME IInv, NEW c \in Configs, Saved(c) \/ SaveFailed(c)
  PROVE  committed' \in Configs /\ disk' \in Configs /\ faults' \in 0..MaxFaults
  BY BoundAssumption DEF IInv, TypeOK, SharedTypeOK, Saved, SaveFailed

\* A step that leaves windows, timers, transactions and reconcilers alone.
LEMMA SharedKept ==
  ASSUME IInv, UNCHANGED <<running, pend, timer, target, txn, rec, crashes, outcome>>,
         committed' \in Configs, disk' \in Configs, live' \in Configs \cup {Partial},
         wans' \in Configs, issued' \in 0..MaxRequests, faults' \in 0..MaxFaults
  PROVE  Stable /\ SharedTypeOK' /\ SharedOK'
  BY DEF IInv, TypeOK, SharedTypeOK, SharedOK, WindowArmed, Stable

-----------------------------------------------------------------------------
(* Every step keeps the invariant *)

\* Handlers whose step changes no window, timer or transaction.
LEMMA PlainHandlerStep ==
  ASSUME IInv, NEW r \in Reqs,
         \/ ReadPend(r) \/ ReadCurrent(r) \/ CheckPending(r) \/ ApplyNext(r)
         \/ Recover(r) \/ RecoverSync(r) \/ SaveNext(r) \/ SyncNext(r)
         \/ SaveConfirmed(r) \/ ApplyCommitted(r) \/ SyncCommitted(r)
  PROVE  IInv'
<1> SUFFICES Moves(r) /\ Stable /\ SharedTypeOK' /\ SharedOK'
  BY OneMoves
<1> USE Constants
<1>1. req[r] \in Request /\ LocalOK(req[r])
  BY DEF IInv, TypeOK, LocalsOK
<1>2. ASSUME NEW l \in PCs, GoTo(r, l), UNCHANGED <<pend, timer, txn>>,
             LocalOK([req[r] EXCEPT !.pc = l])
      PROVE  Moves(r)
  BY <1>2, GoesOn DEF Stable
<1>3. ASSUME NEW c \in Configs, NEW w \in Win0, Effective(r, c, w),
             UNCHANGED <<pend, timer, txn>>, req[r].pc \in {"eff", "current"}
      PROVE  Moves(r)
  <2>1. CASE req[r].caller = "applyNewConfig"
    BY <1>1, <1>3, <2>1 DEF IInv, TypeOK, Effective, LocalOK, Moves, Request
  <2>2. CASE req[r].caller = "hTxnBegin"
    BY <1>1, <1>3, <2>2 DEF IInv, TypeOK, Effective, LocalOK, Moves, Request
  <2>3. CASE req[r].caller = "hTxnApply"
    BY <1>1, <1>3, <2>3 DEF IInv, TypeOK, Effective, LocalOK, Moves, Request
  <2> QED
    BY <1>1, <1>3, <2>1, <2>2, <2>3 DEF LocalOK, Request, Callers
<1>4. CASE ReadPend(r)
  <2>1. CASE pend # NoPend
    BY <1>3, <1>4, <2>1, SharedKept
       DEF ReadPend, IInv, TypeOK, SharedTypeOK, SharedOK, Pending
  <2>2. CASE pend = NoPend
    BY <1>1, <1>2, <1>4, <2>2, SharedKept
       DEF ReadPend, IInv, TypeOK, SharedTypeOK, LocalOK, Request
  <2> QED
    BY <2>1, <2>2
<1>5. CASE ReadCurrent(r)
  BY <1>3, <1>5, SharedKept DEF ReadCurrent, IInv, TypeOK, SharedTypeOK
<1>6. CASE CheckPending(r)
  <2>1. Return(r) \/ GoTo(r, "apply")
    BY <1>6 DEF CheckPending
  <2> QED
    BY <1>1, <1>2, <1>6, <2>1, Returns, SharedKept
       DEF CheckPending, IInv, TypeOK, SharedTypeOK, LocalOK, Request
<1>7. CASE ApplyNext(r)
  <2>1. req[r].next \in Configs /\ (Applied(req[r].next) \/ ApplyFailed)
    BY <1>1, <1>7 DEF ApplyNext, LocalOK
  <2>2. \E l \in {"window", "save", "recover"} : GoTo(r, l)
    BY <1>7 DEF ApplyNext
  <2>3. Moves(r)
    BY <1>1, <1>2, <1>7, <2>2 DEF ApplyNext, LocalOK, Request
  <2> QED
    BY <1>7, <2>1, <2>3, Applies, SharedKept DEF ApplyNext, IInv, TypeOK, SharedTypeOK
<1>8. CASE Recover(r)
  <2>1. Moves(r)
    BY <1>1, <1>2, <1>8 DEF Recover, LocalOK, Request
  <2> QED
    BY <1>1, <1>8, <2>1, Applies, SharedKept
       DEF Recover, IInv, TypeOK, SharedTypeOK, LocalOK
<1>9. CASE RecoverSync(r)
  BY <1>1, <1>9, Returns, SharedKept DEF RecoverSync, IInv, TypeOK, SharedTypeOK, LocalOK
<1>10. CASE SaveNext(r)
  <2>1. Moves(r)
    BY <1>1, <1>2, <1>10, Returns DEF SaveNext, LocalOK, Request
  <2> QED
    BY <1>1, <1>10, <2>1, Saves, SharedKept
       DEF SaveNext, IInv, TypeOK, SharedTypeOK, LocalOK
<1>11. CASE SyncNext(r)
  <2>1. Return(r) \/ (req[r].own # NoTxn /\ GoTo(r, "tdel"))
    BY <1>11 DEF SyncNext
  <2>2. Moves(r)
    BY <1>1, <1>2, <1>11, <2>1, Returns DEF SyncNext, LocalOK, Request, Txn0
  <2> QED
    BY <1>1, <1>11, <2>2, SharedKept DEF SyncNext, IInv, TypeOK, SharedTypeOK, LocalOK
<1>12. CASE SaveConfirmed(r)
  <2>1. Return(r) \/ GoTo(r, "sync") \/ (req[r].own # NoTxn /\ GoTo(r, "tdel"))
    BY <1>12 DEF SaveConfirmed
  <2>2. Moves(r)
    BY <1>1, <1>2, <1>12, <2>1, Returns DEF SaveConfirmed, LocalOK, Request, Txn0
  <2> QED
    BY <1>1, <1>12, <2>2, Saves, SharedKept
       DEF SaveConfirmed, IInv, TypeOK, SharedTypeOK, LocalOK
<1>13. CASE ApplyCommitted(r)
  <2>1. Return(r) \/ GoTo(r, "rsync")
    BY <1>13 DEF ApplyCommitted
  <2>2. Moves(r)
    BY <1>1, <1>2, <1>13, <2>1, Returns DEF ApplyCommitted, LocalOK, Request
  <2>3. Applied(req[r].next) \/ ApplyFailed
    BY <1>13 DEF ApplyCommitted
  <2> QED
    BY <1>1, <1>13, <2>2, <2>3, Applies, SharedKept
       DEF ApplyCommitted, IInv, TypeOK, SharedTypeOK, LocalOK
<1>14. CASE SyncCommitted(r)
  BY <1>14, Returns, SharedKept DEF SyncCommitted, IInv, TypeOK, SharedTypeOK
<1> QED
  BY <1>4, <1>5, <1>6, <1>7, <1>8, <1>9, <1>10, <1>11, <1>12, <1>13, <1>14

\* Handlers whose step opens, closes or stops a window.
LEMMA WindowHandlerStep ==
  ASSUME IInv, NEW r \in Reqs,
         \/ OpenWindow(r) \/ ClearWindow(r) \/ TakeForCommit(r)
         \/ TakeForRollback(r) \/ StopTaken(r)
  PROVE  IInv'
<1> SUFFICES Moves(r) /\ Stable /\ SharedTypeOK' /\ SharedOK'
  BY OneMoves
<1> USE Constants
<1>1. req[r] \in Request /\ LocalOK(req[r])
  BY DEF IInv, TypeOK, LocalsOK
<1>2. CASE OpenWindow(r)
  <2>1. PICK w \in Windows :
          /\ timer[w] = "unused"
          /\ timer' = [Stop(pend.win) EXCEPT ![w] = "armed"]
          /\ pend' = [cfg |-> req[r].next, txn |-> req[r].txn, win |-> w]
          /\ outcome' = [Ends(pend, "superseded") EXCEPT ![w] = "open"]
    BY <1>2 DEF OpenWindow
  <2>2. req[r].next \in Configs /\ req[r].txn \in Txn0
    BY <1>1, <1>2 DEF OpenWindow, LocalOK, Request
  <2>3. Stable
    BY <1>2, <2>1 DEF OpenWindow, IInv, TypeOK, SharedTypeOK, Stable, Stop
  <2>4. timer' \in [Windows -> TimerStates] /\ outcome' \in [Windows -> Outcomes]
    BY <2>1 DEF IInv, TypeOK, SharedTypeOK, Stop, Ends, TimerStates, Outcomes
  <2>5. pend' \in Pending
    BY <2>1, <2>2 DEF Pending
  <2>6. SharedTypeOK'
    BY <1>2, <2>4, <2>5 DEF OpenWindow, IInv, TypeOK, SharedTypeOK
  <2>7. SharedOK'
    BY <1>2, <2>1, <2>2
       DEF OpenWindow, IInv, TypeOK, SharedTypeOK, SharedOK, WindowArmed, Stop, Ends,
           NoPend, Pending
  <2>8. Moves(r)
    BY <1>1, <1>2, <2>3, GoesOn DEF OpenWindow, LocalOK, Request
  <2> QED
    BY <2>3, <2>6, <2>7, <2>8
<1>3. ASSUME pend' = NoPend, timer' = Stop(pend.win) \/ UNCHANGED timer,
             \E o \in Ended : outcome' = Ends(pend, o),
             UNCHANGED <<running, committed, disk, live, wans, target, txn, rec, issued,
                         faults, crashes>>
      PROVE  Stable /\ SharedTypeOK' /\ SharedOK'
  <2>1. PICK o \in Ended : outcome' = Ends(pend, o)
    BY <1>3
  <2>2. timer' \in [Windows -> TimerStates]
    BY <1>3 DEF IInv, TypeOK, SharedTypeOK, Stop, TimerStates
  <2>3. outcome' \in [Windows -> Outcomes]
    BY <2>1 DEF IInv, TypeOK, SharedTypeOK, Ends, Ended
  <2>4. SharedTypeOK'
    BY <1>3, <2>2, <2>3 DEF IInv, TypeOK, SharedTypeOK, NoPend, Pending
  <2>5. \A w \in Windows : timer'[w] = "unused" <=> timer[w] = "unused"
    BY <1>3 DEF IInv, TypeOK, SharedTypeOK, Stop
  <2>6. \A w \in Windows : timer'[w] = "apply" => timer[w] = "apply"
    BY <1>3 DEF IInv, TypeOK, SharedTypeOK, Stop
  <2>7. \A w \in Windows : outcome'[w] # "open" /\ (outcome'[w] = "none" <=> outcome[w] = "none")
    BY <2>1 DEF IInv, TypeOK, SharedTypeOK, SharedOK, Ends, Ended, Outcomes
  <2>8. SharedOK'
    BY <1>3, <2>5, <2>6, <2>7 DEF IInv, SharedOK, WindowArmed, NoPend
  <2> QED
    BY <1>3, <2>4, <2>5, <2>8 DEF Stable
<1>4. CASE ClearWindow(r)
  <2>1. Stable /\ SharedTypeOK' /\ SharedOK'
    BY <1>3, <1>4 DEF ClearWindow, Ended, Outcomes
  <2> QED
    BY <1>1, <1>4, <2>1, GoesOn DEF ClearWindow, LocalOK, Request
<1>5. CASE TakeForCommit(r)
  <2>1. CASE pend = NoPend \/ (req[r].win # NoWin /\ pend.win # req[r].win)
    <3>1. UNCHANGED <<running, committed, disk, live, wans, pend, timer, target, txn,
                      rec, issued, faults, crashes, outcome>>
      BY <1>5, <2>1 DEF TakeForCommit
    <3>2. Return(r) \/ (req[r].own # NoTxn /\ GoTo(r, "tdel"))
      BY <1>5, <2>1 DEF TakeForCommit
    <3>3. CASE Return(r)
      BY <3>1, <3>3, Returns, SharedKept DEF IInv, TypeOK, SharedTypeOK
    <3>4. CASE req[r].own # NoTxn /\ GoTo(r, "tdel")
      <4>1. Moves(r)
        BY <1>1, <1>5, <3>1, <3>4, GoesOn DEF TakeForCommit, LocalOK, Request, Txn0, Stable
      <4> QED
        BY <3>1, <4>1, SharedKept DEF IInv, TypeOK, SharedTypeOK
    <3> QED
      BY <3>2, <3>3, <3>4
  <2>2. CASE ~(pend = NoPend \/ (req[r].win # NoWin /\ pend.win # req[r].win))
    <3>1. /\ req' = [req EXCEPT ![r].pc = "csave", ![r].next = pend.cfg]
          /\ pend' = NoPend
          /\ timer' = Stop(pend.win)
          /\ outcome' = Ends(pend, "confirmed")
      BY <1>5, <2>2 DEF TakeForCommit
    <3>2. pend.cfg \in Configs
      BY <2>2 DEF IInv, SharedOK
    <3>3. Moves(r)
      BY <1>1, <1>5, <3>1, <3>2 DEF TakeForCommit, IInv, TypeOK, LocalOK, Moves, Request
    <3> QED
      BY <1>3, <1>5, <3>1, <3>3 DEF TakeForCommit, Ended, Outcomes
  <2> QED
    BY <2>1, <2>2
<1>6. CASE TakeForRollback(r)
  <2>1. pend.win \in Win0 /\ (pend.win \in Windows => timer[pend.win] # "unused")
    BY DEF IInv, TypeOK, SharedTypeOK, SharedOK, WindowArmed, Pending, NoPend
  <2>2. Moves(r)
    BY <1>1, <1>6, <2>1
       DEF TakeForRollback, IInv, TypeOK, LocalOK, Moves, Request, NoPend
  <2> QED
    BY <1>3, <1>6, <2>2 DEF TakeForRollback, Ended, Outcomes
<1>7. CASE StopTaken(r)
  <2>1. timer' = Stop(req[r].win)
    BY <1>7 DEF StopTaken
  <2>2. req[r].win \in Windows => pend.win # req[r].win
    BY <1>1, <1>7 DEF StopTaken, LocalOK
  <2>3. Moves(r)
    BY <1>1, <1>7 DEF StopTaken, IInv, TypeOK, SharedTypeOK, LocalOK, Moves, Request
  <2>4. timer' \in [Windows -> TimerStates]
    BY <2>1 DEF IInv, TypeOK, SharedTypeOK, Stop, TimerStates
  <2>5. SharedTypeOK'
    BY <1>7, <2>4 DEF StopTaken, IInv, TypeOK, SharedTypeOK
  <2>6. SharedOK' /\ Stable
    BY <1>7, <2>1, <2>2
       DEF StopTaken, IInv, TypeOK, SharedTypeOK, SharedOK, WindowArmed, Stop, Stable,
           NoPend, Pending
  <2> QED
    BY <2>3, <2>5, <2>6
<1> QED
  BY <1>2, <1>4, <1>5, <1>6, <1>7

\* Handlers whose step changes a transaction.
LEMMA TxnHandlerStep ==
  ASSUME IInv, NEW r \in Reqs,
         AddTxn(r) \/ WriteDraft(r) \/ WriteBase(r) \/ DeleteTxn(r)
  PROVE  IInv'
<1> SUFFICES Moves(r) /\ Stable /\ SharedTypeOK' /\ SharedOK'
  BY OneMoves
<1> USE Constants
<1>1. req[r] \in Request /\ LocalOK(req[r])
  BY DEF IInv, TypeOK, LocalsOK
<1>2. ASSUME txn' \in [Txns -> TxnRecord],
             \A t \in Txns : /\ txn[t].draft \in Configs => txn'[t].draft \in Configs
                             /\ txn'[t].st = "open" => txn'[t].draft \in Configs,
             UNCHANGED <<running, committed, disk, live, wans, pend, timer, target, rec,
                         issued, faults, crashes, outcome>>
      PROVE  Stable /\ SharedTypeOK' /\ SharedOK'
  BY <1>2 DEF IInv, TypeOK, SharedTypeOK, SharedOK, WindowArmed, Stable
<1>3. CASE AddTxn(r)
  <2>1. PICK t \in Txns :
          txn' = [txn EXCEPT ![t].st = "open", ![t].draft = req[r].next]
    BY <1>3 DEF AddTxn
  <2>2. req[r].next \in Configs
    BY <1>1, <1>3 DEF AddTxn, LocalOK
  <2>3. txn'[t] = [txn[t] EXCEPT !.st = "open", !.draft = req[r].next]
    BY <2>1 DEF IInv, TypeOK, SharedTypeOK
  <2>4. txn'[t] \in TxnRecord
    BY <2>2, <2>3 DEF IInv, TypeOK, SharedTypeOK, TxnRecord
  <2>5. txn' \in [Txns -> TxnRecord] /\ \A u \in Txns \ {t} : txn'[u] = txn[u]
    BY <2>1, <2>4 DEF IInv, TypeOK, SharedTypeOK
  <2>6. txn'[t].draft \in Configs
    BY <2>2, <2>3 DEF IInv, TypeOK, SharedTypeOK, TxnRecord
  <2> QED
    BY <1>2, <1>3, <2>5, <2>6, Returns DEF AddTxn, IInv, SharedOK
<1>4. CASE WriteDraft(r)
  <2> DEFINE t == req[r].txn
  <2>1. t \in Txns
    BY <1>1, <1>4 DEF WriteDraft, LocalOK
  <2>2. PICK c \in Configs : txn' = [txn EXCEPT ![t].draft = c]
    BY <1>4 DEF WriteDraft
  <2>3. txn' \in [Txns -> TxnRecord]
    BY <2>1, <2>2 DEF IInv, TypeOK, SharedTypeOK, TxnRecord
  <2>4. \A u \in Txns : txn'[u].draft = c \/ txn'[u] = txn[u]
    BY <2>1, <2>2 DEF IInv, TypeOK, SharedTypeOK, TxnRecord
  <2> QED
    BY <1>2, <1>4, <2>3, <2>4, Returns DEF WriteDraft, IInv, SharedOK
<1>5. CASE WriteBase(r)
  <2> DEFINE t == req[r].txn
  <2>1. t \in Txns /\ txn[t].draft \in Configs /\ req[r].from \in Win0
    BY <1>1, <1>5 DEF WriteBase, LocalOK, Request
  <2>2. PICK c \in Configs : txn' = [txn EXCEPT ![t].base = c, ![t].from = req[r].from]
    BY <1>5 DEF WriteBase
  <2>3. txn'[t] = [txn[t] EXCEPT !.base = c, !.from = req[r].from]
    BY <2>1, <2>2 DEF IInv, TypeOK, SharedTypeOK
  <2>4. txn[t] \in TxnRecord /\ Draft(t, r) \subseteq Configs
    BY <2>1 DEF IInv, TypeOK, SharedTypeOK, Draft
  <2>5. PICK d \in Configs : req' = [req EXCEPT ![r] = Entry(d, t, req[r].confirm, NoWin)]
    BY <1>5, <2>4 DEF WriteBase
  <2> HIDE DEF t
  <2>6. /\ txn'[t] \in TxnRecord /\ txn'[t].draft = txn[t].draft /\ txn'[t].st = txn[t].st
        /\ txn' \in [Txns -> TxnRecord] /\ \A u \in Txns \ {t} : txn'[u] = txn[u]
    <3>1. txn'[t] \in TxnRecord /\ txn'[t].draft = txn[t].draft /\ txn'[t].st = txn[t].st
      BY <2>1, <2>3, <2>4 DEF TxnRecord
    <3> QED
      BY <2>2, <3>1 DEF IInv, TypeOK, SharedTypeOK
  <2>7. Entry(d, t, req[r].confirm, NoWin) \in Request
    BY <1>1, <2>1 DEF Entry, Idle, Request
  <2>8. Moves(r)
    BY <2>5, <2>7 DEF IInv, TypeOK, Moves, LocalOK, Entry, Idle
  <2>9. UNCHANGED <<running, committed, disk, live, wans, pend, timer, target, rec,
                    issued, faults, crashes, outcome>>
    BY <1>5 DEF WriteBase
  <2> QED
    BY <1>2, <2>6, <2>8, <2>9 DEF IInv, SharedOK
<1>6. CASE DeleteTxn(r)
  <2> DEFINE t == req[r].own
  <2>1. t \in Txns
    BY <1>1, <1>6 DEF DeleteTxn, LocalOK
  <2>2. txn' = [txn EXCEPT ![t].st = "gone"]
    BY <1>6 DEF DeleteTxn
  <2>3. txn' \in [Txns -> TxnRecord]
    BY <2>1, <2>2 DEF IInv, TypeOK, SharedTypeOK, TxnRecord
  <2>4. \A u \in Txns : /\ txn'[u].draft = txn[u].draft
                        /\ txn'[u].st = "gone" \/ txn'[u].st = txn[u].st
    BY <2>1, <2>2 DEF IInv, TypeOK, SharedTypeOK, TxnRecord
  <2> QED
    BY <1>2, <1>6, <2>3, <2>4, Returns DEF DeleteTxn, IInv, SharedOK
<1> QED
  BY <1>3, <1>4, <1>5, <1>6

\* Requests that arrive.
LEMMA RequestStep ==
  ASSUME IInv, NEW r \in Reqs, Requests(r)
  PROVE  IInv'
<1> SUFFICES Moves(r) /\ Stable /\ SharedTypeOK' /\ SharedOK'
  BY OneMoves
<1> USE Constants
<1>1. ASSUME NEW q \in Request, Issue(r, q), LocalOK(q),
             UNCHANGED <<running, committed, disk, live, wans, pend, timer, target, txn,
                         rec, faults, crashes, outcome>>
      PROVE  Moves(r) /\ Stable /\ SharedTypeOK' /\ SharedOK'
  <2>1. LocalOK(q)'
    BY <1>1 DEF LocalOK
  <2> QED
    BY <1>1, <2>1, Issues, SharedKept DEF IInv, TypeOK, SharedTypeOK
<1>2. ASSUME NEW c \in Configs, NEW t \in Txn0, NEW confirm \in BOOLEAN, NEW w \in Win0
      PROVE  Entry(c, t, confirm, w) \in Request /\ LocalOK(Entry(c, t, confirm, w))
  BY DEF Entry, Idle, Request, LocalOK
<1>3. ASSUME NEW c \in Configs, NEW confirm \in BOOLEAN, Put(r, c, confirm)
      PROVE  Moves(r) /\ Stable /\ SharedTypeOK' /\ SharedOK'
  BY <1>1, <1>2, <1>3 DEF Put
<1>4. ASSUME NEW token \in Win0, Commit(r, token)
      PROVE  Moves(r) /\ Stable /\ SharedTypeOK' /\ SharedOK'
  <2> DEFINE q == [Idle EXCEPT !.pc = "take", !.win = token]
  <2>1. q \in Request /\ LocalOK(q)
    BY DEF Idle, Request, LocalOK
  <2> QED
    BY <1>1, <1>4, <2>1 DEF Commit
<1>5. CASE Rollback(r)
  <2> DEFINE q == [Idle EXCEPT !.pc = "rtake"]
  <2>1. q \in Request /\ LocalOK(q)
    BY DEF Idle, Request, LocalOK
  <2> QED
    BY <1>1, <1>5, <2>1 DEF Rollback
<1>6. CASE TxnBegin(r)
  <2> DEFINE q == [Idle EXCEPT !.pc = "eff", !.caller = "hTxnBegin"]
  <2>1. q \in Request /\ LocalOK(q)
    BY DEF Idle, Request, LocalOK
  <2> QED
    BY <1>1, <1>6, <2>1 DEF TxnBegin
<1>7. ASSUME NEW t \in Txns, NEW c \in Configs, TxnConfig(r, t, c)
      PROVE  Moves(r) /\ Stable /\ SharedTypeOK' /\ SharedOK'
  <2> DEFINE q == [Idle EXCEPT !.pc = "tdraft", !.next = c, !.txn = t]
  <2>1. q \in Request /\ LocalOK(q)
    BY DEF Idle, Request, LocalOK
  <2> QED
    BY <1>1, <1>7, <2>1 DEF TxnConfig
<1>8. ASSUME NEW t \in Txns, NEW confirm \in BOOLEAN, TxnApply(r, t, confirm)
      PROVE  Moves(r) /\ Stable /\ SharedTypeOK' /\ SharedOK'
  <2> DEFINE q == [Idle EXCEPT !.pc = "eff", !.caller = "hTxnApply", !.txn = t,
                               !.confirm = confirm]
  <2>1. txn[t].draft \in Configs
    BY <1>8 DEF TxnApply, IInv, SharedOK
  <2>2. q \in Request /\ LocalOK(q)
    BY <2>1 DEF Idle, Request, LocalOK
  <2> QED
    BY <1>1, <1>8, <2>2 DEF TxnApply
<1>9. ASSUME NEW t \in Txns, TxnCommit(r, t)
      PROVE  Moves(r) /\ Stable /\ SharedTypeOK' /\ SharedOK'
  <2> DEFINE q == [Idle EXCEPT !.pc = "take", !.win = pend.win, !.own = t]
  <2>1. pend.txn = t
    BY <1>9 DEF TxnCommit
  <2>2. pend.win \in Windows /\ timer[pend.win] # "unused"
    BY <2>1 DEF IInv, SharedOK, WindowArmed, NoPend
  <2>3. q \in Request
    BY <2>2 DEF Idle, Request
  <2>4. LocalOK(q)
    BY <2>1, <2>2 DEF Idle, LocalOK
  <2> QED
    BY <1>1, <1>9, <2>3, <2>4 DEF TxnCommit
<1>10. ASSUME NEW t \in Txns, TxnRollback(r, t)
       PROVE  Moves(r) /\ Stable /\ SharedTypeOK' /\ SharedOK'
  <2>1. txn[t].from \in Win0 /\ Base(t, r) \subseteq Cfg0
    BY DEF IInv, TypeOK, SharedTypeOK, TxnRecord, Base
  <2>2. PICK q : /\ Issue(r, q)
                 /\ \/ q = [Idle EXCEPT !.pc = "rtake"]
                    \/ \E b \in Configs : q = Entry(b, NoTxn, FALSE, txn[t].from)
                    \/ q = Idle
    BY <1>10, <2>1 DEF TxnRollback, Cfg0
  <2>3. q \in Request /\ LocalOK(q)
    <3>1. [Idle EXCEPT !.pc = "rtake"] \in Request /\ LocalOK([Idle EXCEPT !.pc = "rtake"])
      BY DEF Idle, Request, LocalOK
    <3>2. LocalOK(Idle)
      BY DEF Idle, LocalOK
    <3> QED
      BY <1>2, <2>1, <2>2, <3>1, <3>2
  <2>4. /\ txn' \in [Txns -> TxnRecord]
        /\ \A u \in Txns : /\ txn'[u].draft = txn[u].draft
                           /\ txn'[u].st = "gone" \/ txn'[u].st = txn[u].st
    BY <1>10 DEF TxnRollback, IInv, TypeOK, SharedTypeOK, TxnRecord
  <2>5. UNCHANGED <<running, committed, disk, live, wans, pend, timer, target, rec,
                    faults, crashes, outcome>>
    BY <1>10 DEF TxnRollback
  <2>6. Stable /\ SharedOK'
    BY <2>4, <2>5 DEF IInv, SharedOK, WindowArmed, Stable
  <2>7. Moves(r) /\ issued' \in 0..MaxRequests
    BY <2>2, <2>3, <2>6, Keeps, Issues
  <2> QED
    BY <2>4, <2>5, <2>6, <2>7 DEF IInv, TypeOK, SharedTypeOK
<1> QED
  BY <1>3, <1>4, <1>5, <1>6, <1>7, <1>8, <1>9, <1>10 DEF Requests

\* The timer of a window and its callback.
LEMMA TimerStep ==
  ASSUME IInv, NEW w \in Windows, Timer(w)
  PROVE  IInv'
<1> SUFFICES UNCHANGED req /\ Stable /\ SharedTypeOK' /\ SharedOK'
  BY NoneMoves
<1> USE Constants DEF IInv, TypeOK, SharedTypeOK
<1>1. CASE TimerFires(w)
  BY <1>1 DEF TimerFires, SharedOK, WindowArmed, Stable, TimerStates
<1>2. CASE TakeExpired(w)
  <2>1. timer' \in [Windows -> TimerStates] /\ outcome' \in [Windows -> Outcomes]
    BY <1>2 DEF TakeExpired, Ends, TimerStates, Outcomes
  <2>2. SharedTypeOK'
    BY <1>2, <2>1 DEF TakeExpired, NoPend, Pending
  <2>3. SharedOK'
    BY <1>2 DEF TakeExpired, SharedOK, WindowArmed, Ends, NoPend
  <2> QED
    BY <1>2, <2>2, <2>3 DEF TakeExpired, Stable
<1>3. CASE BuildCommitted(w)
  BY <1>3 DEF BuildCommitted, SharedOK, WindowArmed, Stable, TimerStates
<1>4. CASE ApplyExpired(w)
  <2>1. live' \in Configs \cup {Partial} /\ faults' \in 0..MaxFaults
    BY <1>4, Applies DEF ApplyExpired, SharedOK
  <2> QED
    BY <1>4, <2>1 DEF ApplyExpired, SharedOK, WindowArmed, Stable, TimerStates
<1>5. CASE SyncExpired(w)
  BY <1>5 DEF SyncExpired, SharedOK, WindowArmed, Stable, TimerStates
<1> QED
  BY <1>1, <1>2, <1>3, <1>4, <1>5 DEF Timer

\* The drift-repair goroutines.
LEMMA ReconcileStep ==
  ASSUME IInv, NEW k \in Recs, ReconcileNow(k)
  PROVE  IInv'
<1> SUFFICES UNCHANGED req /\ Stable /\ SharedTypeOK' /\ SharedOK'
  BY NoneMoves
<1> USE Constants DEF IInv, TypeOK, SharedTypeOK
<1>1. CASE ReconcileRead(k)
  BY <1>1 DEF ReconcileRead, SharedOK, WindowArmed, Stable, Reconciler
<1>2. CASE ReconcileCurrent(k)
  BY <1>2 DEF ReconcileCurrent, SharedOK, WindowArmed, Stable, Reconciler
<1>3. CASE ReconcileApply(k)
  <2>1. live' \in Configs \cup {Partial} /\ faults' \in 0..MaxFaults
    BY <1>3, Applies DEF ReconcileApply, SharedOK
  <2> QED
    BY <1>3, <2>1
       DEF ReconcileApply, SharedOK, WindowArmed, Stable, Reconciler, Resting
<1> QED
  BY <1>1, <1>2, <1>3 DEF ReconcileNow

\* The environment: foreign changes, a crash, a restart.
LEMMA EnvironmentStep ==
  ASSUME IInv, Drift \/ Crash \/ Restart
  PROVE  IInv'
<1> USE Constants, BoundAssumption
<1>1. CASE Drift
  BY <1>1, NoneMoves
     DEF Drift, IInv, TypeOK, SharedTypeOK, SharedOK, WindowArmed, Stable
<1>2. CASE Crash
  <2>1. req' \in [Reqs -> Request] /\ LocalsOK'
    BY <1>2 DEF Crash, LocalsOK, LocalOK, Idle
  <2>2. txn' \in [Txns -> TxnRecord] /\ \A t \in Txns : txn'[t].st # "open"
    BY <1>2 DEF Crash, NoTxnRecord, TxnRecord
  <2>3. rec' \in [Recs -> Reconciler] /\ \A k \in Recs : rec'[k].pc # "apply"
    BY <1>2 DEF Crash, Resting, Reconciler
  <2>4. timer' \in [Windows -> TimerStates] /\ outcome' \in [Windows -> Outcomes]
    BY <1>2 DEF Crash, IInv, TypeOK, SharedTypeOK, Ends, TimerStates, Outcomes
  <2>5. SharedTypeOK'
    <3>1. pend' \in Pending /\ target' \in [Windows -> Cfg0]
      BY <1>2 DEF Crash, NoPend, Pending
    <3>2. crashes' \in 0..MaxCrashes /\ live' \in Configs \cup {Partial}
      BY <1>2 DEF Crash, IInv, TypeOK, SharedTypeOK
    <3> QED
      BY <1>2, <2>2, <2>3, <2>4, <3>1, <3>2 DEF Crash, IInv, TypeOK, SharedTypeOK
  <2>6. SharedOK'
    BY <1>2, <2>2, <2>3
       DEF Crash, IInv, TypeOK, SharedTypeOK, SharedOK, WindowArmed, Ends, NoPend
  <2> QED
    BY <2>1, <2>5, <2>6 DEF IInv, TypeOK
<1>3. CASE Restart
  <2>1. live' \in Configs \cup {Partial} /\ faults' \in 0..MaxFaults
    BY <1>3, Applies DEF Restart, IInv, TypeOK, SharedTypeOK
  <2> QED
    BY <1>3, <2>1, NoneMoves
       DEF Restart, IInv, TypeOK, SharedTypeOK, SharedOK, WindowArmed, Stable
<1> QED
  BY <1>1, <1>2, <1>3

\* IInv is inductive.
LEMMA NextIInv == IInv /\ [Next]_vars => IInv'
<1> SUFFICES ASSUME IInv, [Next]_vars PROVE IInv'
  OBVIOUS
<1>1. ASSUME NEW r \in Reqs, Requests(r) \/ Handler(r) PROVE IInv'
  BY <1>1, RequestStep, PlainHandlerStep, WindowHandlerStep, TxnHandlerStep DEF Handler
<1>2. ASSUME NEW w \in Windows, Timer(w) PROVE IInv'
  BY <1>2, TimerStep
<1>3. ASSUME NEW k \in Recs, ReconcileNow(k) PROVE IInv'
  BY <1>3, ReconcileStep
<1>4. CASE UNCHANGED vars
  BY <1>4, NoneMoves
     DEF vars, IInv, TypeOK, SharedTypeOK, SharedOK, WindowArmed, Stable
<1> QED
  BY <1>1, <1>2, <1>3, <1>4, EnvironmentStep DEF Next

LEMMA Invariance == Spec => []IInv
  BY InitIInv, NextIInv, PTL DEF Spec

-----------------------------------------------------------------------------
(* Theorems *)

\* Server.pend, the store, the DHCP clients and the transactions always hold
\* values of their types; in particular nothing but a configuration is ever
\* committed, written to config.json or synced.
THEOREM TypeCorrect == Spec => []TypeOK
  BY Invariance, PTL DEF IInv

\* A pending change always has its timer armed or its callback on the way.
THEOREM AlwaysArmed == Spec => []WindowArmed
<1>1. IInv => WindowArmed
  BY DEF IInv, SharedOK
<1> QED
  BY <1>1, Invariance, PTL

\* A window is confirmed, reverted, expired, superseded or lost once and for
\* all, whichever goroutines compete for Server.pend.
THEOREM EndsOnce == Spec => WindowEndsOnce
<1> DEFINE Once == \A w \in Windows : outcome[w] \in Ended => outcome'[w] = outcome[w]
<1>1. ASSUME IInv, [Next]_vars PROVE Once
  <2> USE DEF IInv, TypeOK, SharedTypeOK
  <2>1. \A w \in Windows : /\ outcome[w] \in Ended => outcome[w] # "open" /\ outcome[w] # "none"
                           /\ pend.win = w => outcome[w] = "open"
                           /\ timer[w] = "unused" => outcome[w] = "none"
    BY <1>1 DEF Ended, SharedOK
  <2>2. ASSUME NEW o, outcome' = Ends(pend, o) PROVE Once
    BY <1>1, <2>1, <2>2 DEF Ends
  <2>3. ASSUME UNCHANGED outcome PROVE Once
    BY <2>3
  <2>4. ASSUME NEW r \in Reqs, OpenWindow(r) PROVE Once
    BY <1>1, <2>1, <2>4 DEF OpenWindow, Ends
  <2>5. ASSUME NEW r \in Reqs, Requests(r) PROVE UNCHANGED outcome
    BY <2>5 DEF Requests, Put, Commit, Rollback, TxnBegin, TxnConfig, TxnApply, TxnCommit,
                TxnRollback
  <2>6. ASSUME NEW r \in Reqs, Handler(r), ~OpenWindow(r)
        PROVE  UNCHANGED outcome \/ \E o \in Ended : outcome' = Ends(pend, o)
    BY <2>6 DEF Handler, ReadPend, ReadCurrent, CheckPending, ApplyNext, Recover, RecoverSync,
                SaveNext, ClearWindow, SyncNext, TakeForCommit, SaveConfirmed,
                TakeForRollback, StopTaken, ApplyCommitted, SyncCommitted, AddTxn,
                WriteDraft, WriteBase, DeleteTxn, Ended, Outcomes
  <2>7. ASSUME NEW w \in Windows, Timer(w)
        PROVE  UNCHANGED outcome \/ outcome' = Ends(pend, "expired")
    BY <2>7 DEF Timer, TimerFires, TakeExpired, BuildCommitted, ApplyExpired, SyncExpired
  <2>8. ASSUME NEW k \in Recs, ReconcileNow(k) PROVE UNCHANGED outcome
    BY <2>8 DEF ReconcileNow, ReconcileRead, ReconcileCurrent, ReconcileApply
  <2>9. ASSUME Drift \/ Crash \/ Restart \/ UNCHANGED vars
        PROVE  UNCHANGED outcome \/ outcome' = Ends(pend, "lost")
    BY <2>9 DEF Drift, Crash, Restart, vars
  <2> HIDE DEF Once
  <2> QED
    BY <1>1, <2>2, <2>3, <2>4, <2>5, <2>6, <2>7, <2>8, <2>9 DEF Next
<1>2. IInv /\ [Next]_vars => [Once]_vars
  BY <1>1
<1> QED
  BY <1>2, Invariance, PTL DEF Spec, WindowEndsOnce

\* hTxnCommit confirms no window but that of its own transaction, although it
\* looks at Server.pend and takes it in two critical sections.
THEOREM CommitsOwn == Spec => TxnCommitConfirmsOwn
<1> DEFINE Own == \A r \in Reqs :
             req[r].own # NoTxn /\ req[r].pc = "take" /\ req'[r].pc = "csave"
               => pend.txn = req[r].own
<1>1. ASSUME IInv, [Next]_vars PROVE Own
  <2> SUFFICES ASSUME NEW r \in Reqs, req[r].own # NoTxn, req[r].pc = "take",
                      req'[r].pc = "csave"
               PROVE  pend.txn = req[r].own
    OBVIOUS
  <2>1. LocalOK(req[r]) /\ req \in [Reqs -> Request]
    BY <1>1 DEF IInv, TypeOK, LocalsOK
  <2>2. req'[r] # req[r]
    OBVIOUS
  <2>3. CASE TakeForCommit(r)
    BY <1>1, <2>1, <2>2, <2>3, Constants DEF TakeForCommit, LocalOK, Return, GoTo, Idle, Request
  <2>4. ASSUME NEW s \in Reqs, Requests(s) PROVE FALSE
    <3>1. PICK q : Issue(s, q)
      BY <2>4 DEF Requests, Put, Commit, Rollback, TxnBegin, TxnConfig, TxnApply, TxnCommit,
                  TxnRollback
    <3> QED
      BY <2>1, <2>2, <3>1 DEF Issue, Idle
  <2>5. ASSUME NEW s \in Reqs, Handler(s), s # r PROVE FALSE
    <3>1. ASSUME NEW c, NEW w, Effective(s, c, w), req[s].pc \in {"eff", "current"}
          PROVE  FALSE
      <4>1. req[s].caller \in {"applyNewConfig", "hTxnBegin", "hTxnApply"}
        BY <1>1, <3>1 DEF IInv, TypeOK, LocalsOK, LocalOK, Request, Callers
      <4> QED
        BY <2>1, <2>2, <2>5, <3>1, <4>1 DEF Effective
    <3>2. ASSUME NEW l, GoTo(s, l) PROVE FALSE
      BY <2>1, <2>2, <2>5, <3>2 DEF GoTo
    <3>3. ASSUME Return(s) PROVE FALSE
      BY <2>1, <2>2, <2>5, <3>3 DEF Return
    <3>4. CASE ReadPend(s) \/ ReadCurrent(s)
      BY <3>1, <3>2, <3>4 DEF ReadPend, ReadCurrent
    <3>5. CASE TakeForCommit(s) \/ TakeForRollback(s) \/ StopTaken(s) \/ WriteBase(s)
      BY <2>1, <2>2, <2>5, <3>2, <3>3, <3>5
         DEF TakeForCommit, TakeForRollback, StopTaken, WriteBase
    <3> QED
      BY <2>5, <3>2, <3>3, <3>4, <3>5
         DEF Handler, CheckPending, ApplyNext, Recover, RecoverSync, OpenWindow, SaveNext,
             ClearWindow, SyncNext, SaveConfirmed, ApplyCommitted, SyncCommitted, AddTxn,
             WriteDraft, DeleteTxn
  <2>6. ASSUME Handler(r) PROVE TakeForCommit(r)
    BY <2>6
       DEF Handler, ReadPend, ReadCurrent, CheckPending, ApplyNext, Recover, RecoverSync,
           OpenWindow, SaveNext, ClearWindow, SyncNext, SaveConfirmed,
           TakeForRollback, StopTaken, ApplyCommitted, SyncCommitted, AddTxn,
           WriteDraft, WriteBase, DeleteTxn
  <2>7. ASSUME NEW w \in Windows, Timer(w) PROVE FALSE
    BY <2>2, <2>7 DEF Timer, TimerFires, TakeExpired, BuildCommitted, ApplyExpired, SyncExpired
  <2>8. ASSUME NEW k \in Recs, ReconcileNow(k) PROVE FALSE
    BY <2>2, <2>8 DEF ReconcileNow, ReconcileRead, ReconcileCurrent, ReconcileApply
  <2>9. ASSUME Drift \/ Crash \/ Restart \/ UNCHANGED vars PROVE FALSE
    BY <2>2, <2>9 DEF Drift, Crash, Restart, vars, Idle
  <2> QED
    BY <1>1, <2>3, <2>4, <2>5, <2>6, <2>7, <2>8, <2>9 DEF Next
<1>2. IInv /\ [Next]_vars => [Own]_vars
  BY <1>1
<1> QED
  BY <1>2, Invariance, PTL DEF Spec, TxnCommitConfirmsOwn

=============================================================================
