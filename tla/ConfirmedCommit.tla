--------------------------- MODULE ConfirmedCommit ---------------------------
(***************************************************************************)
(* The mutation pipeline of routerd's management API: full-configuration   *)
(* requests, confirmed commits, transactions, the auto-rollback timer and  *)
(* the drift-repair loop (router/internal/api/server.go, cmd/routerd).     *)
(*                                                                         *)
(* Every HTTP request, every timer callback and every ReconcileNow call is *)
(* a goroutine.  Server.mu is held only for short sections, so a handler   *)
(* is one action per section between two points where another goroutine    *)
(* may run: a lock of Server.mu, the store's lock, the engine's lock.      *)
(*                                                                         *)
(* Configurations are opaque values that models.Validate accepts; one that *)
(* it rejects changes no state here.  The item-level handlers, which edit  *)
(* a configuration in place, are the subject of ConfigEdit.                *)
(***************************************************************************)
EXTENDS Naturals, FiniteSets

CONSTANTS
    Configs,      \* configurations Validate accepts
    Reqs,         \* slots for requests in flight at the same time
    Recs,         \* goroutines running ReconcileNow
    Txns,         \* transaction identifiers (never reused)
    Windows,      \* commit tokens, one per confirmation window (never reused)
    NoCfg, NoTxn, NoWin,   \* the zero values: nil, "", ""
    Partial,      \* a kernel state that is the desired state of no configuration
    MaxRequests,  \* bound: requests issued
    MaxFaults,    \* bound: failed applies, failed saves, foreign kernel changes
    MaxCrashes    \* bound: daemon crashes

ASSUME NullAssumption ==
    /\ NoCfg \notin Configs /\ Partial \notin Configs
    /\ NoTxn \notin Txns /\ NoWin \notin Windows

ASSUME BoundAssumption ==
    MaxRequests \in Nat /\ MaxFaults \in Nat /\ MaxCrashes \in Nat

VARIABLES
    running,    \* the daemon is up and serving
    committed,  \* Store.active
    disk,       \* config.json
    live,       \* what the kernel was last converged to
    wans,       \* the configuration dhcp4.Manager was last synced to
    pend,       \* Server.pend
    timer,      \* the time.AfterFunc of each window and its callback's progress
    target,     \* configuration a callback in autoRollback is about to apply
    txn,        \* Server.txns
    req,        \* local state of the requests in flight
    rec,        \* local state of the ReconcileNow goroutines
    issued, faults, crashes,   \* counters against the bounds
    outcome     \* history: how each window ended

vars == <<running, committed, disk, live, wans, pend, timer, target, txn, req,
          rec, issued, faults, crashes, outcome>>

Cfg0 == Configs \cup {NoCfg}
Txn0 == Txns \cup {NoTxn}
Win0 == Windows \cup {NoWin}

\* type pendingCommit: the configuration, its transaction and its token.
Pending == [cfg : Cfg0, txn : Txn0, win : Win0]
NoPend == [cfg |-> NoCfg, txn |-> NoTxn, win |-> NoWin]

\* A timer is armed by AfterFunc; "fired" is its callback before it has got
\* Server.mu; "build", "apply" and "sync" are the callback's later steps.
TimerStates == {"unused", "armed", "stopped", "fired", "build", "apply", "sync", "done"}

\* type transaction; "none" before hTxnBegin, "gone" once deleted from txns.
\* from is history: the window that base was read out of.
TxnRecord == [st : {"none", "open", "gone"}, draft : Cfg0, base : Cfg0, from : Win0]
NoTxnRecord == [st |-> "none", draft |-> NoCfg, base |-> NoCfg, from |-> NoWin]

PCs == {"idle", "eff", "current", "check", "apply", "recover", "recsync", "window",
        "save", "clear", "sync", "take", "csave", "rtake", "rstop", "rapply", "rsync",
        "tadd", "tdraft", "tbase", "tdel"}

\* Locals of a handler: the caller of effectiveConfig, next and base, the
\* transaction id passed to applyNewConfig, confirm > 0, the token it commits or
\* takes back, whether rollbackPending took a window, the transaction that
\* hTxnCommit deletes; from is history: the window that next was read out of.
Callers == {"none", "applyNewConfig", "hTxnBegin", "hTxnApply"}
Request == [pc : PCs, caller : Callers, next : Cfg0, base : Cfg0, txn : Txn0,
            confirm : BOOLEAN, win : Win0, had : BOOLEAN, own : Txn0, from : Win0]
Idle == [pc |-> "idle", caller |-> "none", next |-> NoCfg, base |-> NoCfg,
         txn |-> NoTxn, confirm |-> FALSE, win |-> NoWin, had |-> FALSE,
         own |-> NoTxn, from |-> NoWin]

\* Locals of ReconcileNow.
Reconciler == [pc : {"idle", "current", "apply"}, cfg : Cfg0]
Resting == [pc |-> "idle", cfg |-> NoCfg]

Outcomes == {"none", "open", "confirmed", "reverted", "expired", "superseded", "lost"}

\* What Server.effectiveConfig returns when nothing runs between its two reads:
\* the pending configuration, else the committed one.
effectiveConfig == IF pend # NoPend THEN pend.cfg ELSE committed

Init ==
    /\ running = TRUE
    /\ committed \in Configs
    /\ disk = committed /\ live = committed /\ wans = committed
    /\ pend = NoPend
    /\ timer = [w \in Windows |-> "unused"]
    /\ target = [w \in Windows |-> NoCfg]
    /\ txn = [t \in Txns |-> NoTxnRecord]
    /\ req = [r \in Reqs |-> Idle]
    /\ rec = [k \in Recs |-> Resting]
    /\ issued = 0 /\ faults = 0 /\ crashes = 0
    /\ outcome = [w \in Windows |-> "none"]

-----------------------------------------------------------------------------
(* Steps shared by the handlers *)

GoTo(r, label) == req' = [req EXCEPT ![r].pc = label]

\* The handler has written its response.
Return(r) == req' = [req EXCEPT ![r] = Idle]

\* A request arrives at a free slot; locals is the handler's state after its
\* first section.
Issue(r, locals) ==
    /\ running
    /\ req[r] = Idle
    /\ issued < MaxRequests
    /\ issued' = issued + 1
    /\ req' = [req EXCEPT ![r] = locals]

\* The bounds on tokens and transactions: a request that needs a fresh one is
\* issued only while one is left for it.
TokenLeft ==
    Cardinality({q \in Reqs : req[q].confirm}) < Cardinality({w \in Windows : timer[w] = "unused"})
TxnLeft ==
    Cardinality({q \in Reqs : req[q].caller = "hTxnBegin"})
      < Cardinality({t \in Txns : txn[t].st = "none"})

\* Engine.Apply holds the engine's lock for the whole cycle; on success Verify
\* found nothing left to do.
Applied(c) == live' = c /\ UNCHANGED faults

\* It failed: before any operation (a missing interface), or half way through
\* (a failed command, a cancelled request context, a failed verification).
ApplyFailed ==
    /\ faults < MaxFaults
    /\ faults' = faults + 1
    /\ live' \in {live, Partial}

\* Store.Save: the configuration becomes active in memory and on disk; one that
\* is active in memory already is not written.
Saved(c) ==
    /\ committed' = c
    /\ disk' = IF c = committed THEN disk ELSE c
    /\ UNCHANGED faults

\* Save failed writing the revision file, or writing config.json, after which
\* Store.active already holds the new configuration.
SaveFailed(c) ==
    /\ c # committed
    /\ faults < MaxFaults
    /\ faults' = faults + 1
    /\ committed' \in {committed, c}
    /\ UNCHANGED disk

\* timer.Stop(): no effect on a callback that already runs.
Stop(w) == IF w \in Windows /\ timer[w] = "armed"
           THEN [timer EXCEPT ![w] = "stopped"] ELSE timer

\* History: the open window p, if there is one, ends as o.
Ends(p, o) == IF p.win \in Windows THEN [outcome EXCEPT ![p.win] = o] ELSE outcome

-----------------------------------------------------------------------------
(* applyNewConfig *)

\* Entry into applyNewConfig, which calls effectiveConfig first.
Entry(c, t, confirm, from) ==
    [Idle EXCEPT !.pc = "eff", !.caller = "applyNewConfig", !.next = c, !.txn = t,
                 !.confirm = confirm, !.from = from]

\* hConfigPut and hRevisionRestore: a complete configuration, txnID "".
Put(r, c, confirm) ==
    /\ confirm => TokenLeft
    /\ Issue(r, Entry(c, NoTxn, confirm, NoWin))
    /\ UNCHANGED <<running, committed, disk, live, wans, pend, timer, target, txn,
                   rec, faults, crashes, outcome>>

\* effectiveConfig returned c, out of window w if that is one, to its caller.
Effective(r, c, w) ==
    CASE req[r].caller = "applyNewConfig" ->
           req' = [req EXCEPT ![r].pc = "check", ![r].base = c]
      [] req[r].caller = "hTxnBegin" ->
           req' = [req EXCEPT ![r].pc = "tadd", ![r].next = c]
      [] req[r].caller = "hTxnApply" ->
           req' = [req EXCEPT ![r].pc = "tbase", ![r].base = c, ![r].from = w]

\* Mutant: effectiveConfig without its nil check.
ReadPendUnchecked(r) ==
    /\ req[r].pc = "eff"
    /\ Effective(r, pend.cfg, pend.win)
    /\ UNCHANGED <<running, committed, disk, live, wans, pend, timer, target, txn,
                   rec, issued, faults, crashes, outcome>>

\* effectiveConfig reads s.pend under Server.mu ...
ReadPend(r) ==
    /\ req[r].pc = "eff"
    /\ IF pend # NoPend THEN Effective(r, pend.cfg, pend.win) ELSE GoTo(r, "current")
    /\ UNCHANGED <<running, committed, disk, live, wans, pend, timer, target, txn,
                   rec, issued, faults, crashes, outcome>>

\* ... and, if it was nil, the store's configuration after releasing it.
ReadCurrent(r) ==
    /\ req[r].pc = "current"
    /\ Effective(r, committed, NoWin)
    /\ UNCHANGED <<running, committed, disk, live, wans, pend, timer, target, txn,
                   rec, issued, faults, crashes, outcome>>

\* 409 when another transaction's window is open.
CheckPending(r) ==
    /\ req[r].pc = "check"
    /\ IF pend # NoPend /\ pend.txn # req[r].txn THEN Return(r) ELSE GoTo(r, "apply")
    /\ UNCHANGED <<running, committed, disk, live, wans, pend, timer, target, txn,
                   rec, issued, faults, crashes, outcome>>

\* s.engine.Apply(ctx, desired)
ApplyNext(r) ==
    /\ req[r].pc = "apply"
    /\ \/ /\ Applied(req[r].next)
          /\ GoTo(r, IF req[r].confirm THEN "window" ELSE "save")
       \/ ApplyFailed /\ GoTo(r, "recover")
    /\ UNCHANGED <<running, committed, disk, wans, pend, timer, target, txn, rec,
                   issued, crashes, outcome>>

\* Best-effort: apply base again, whatever comes of it.
Recover(r) ==
    /\ req[r].pc = "recover"
    /\ Applied(req[r].base) \/ ApplyFailed
    /\ GoTo(r, "recsync")
    /\ UNCHANGED <<running, committed, disk, wans, pend, timer, target, txn, rec,
                   issued, crashes, outcome>>

\* s.syncWans(base); 500.
RecoverSync(r) ==
    /\ req[r].pc = "recsync"
    /\ wans' = req[r].base
    /\ Return(r)
    /\ UNCHANGED <<running, committed, disk, live, pend, timer, target, txn, rec,
                   issued, faults, crashes, outcome>>

\* confirm > 0: stop the old window's timer, open a new window, arm its timer.
OpenWindow(r) ==
    /\ req[r].pc = "window"
    /\ \E w \in Windows :
         /\ timer[w] = "unused"
         /\ timer' = [Stop(pend.win) EXCEPT ![w] = "armed"]
         /\ pend' = [cfg |-> req[r].next, txn |-> req[r].txn, win |-> w]
         /\ outcome' = [Ends(pend, "superseded") EXCEPT ![w] = "open"]
    /\ GoTo(r, "sync")
    /\ UNCHANGED <<running, committed, disk, live, wans, target, txn, rec, issued,
                   faults, crashes>>

\* No window: s.st.Save(next); 500 when it fails.
SaveNext(r) ==
    /\ req[r].pc = "save"
    /\ \/ Saved(req[r].next) /\ GoTo(r, "clear")
       \/ SaveFailed(req[r].next) /\ Return(r)
    /\ UNCHANGED <<running, live, wans, pend, timer, target, txn, rec, issued,
                   crashes, outcome>>

\* "an immediate commit supersedes any pending window: disarm it"
ClearWindow(r) ==
    /\ req[r].pc = "clear"
    /\ timer' = Stop(pend.win)
    /\ pend' = NoPend
    /\ outcome' = Ends(pend, "superseded")
    /\ GoTo(r, "sync")
    /\ UNCHANGED <<running, committed, disk, live, wans, target, txn, rec, issued,
                   faults, crashes>>

\* s.syncWans(next), or s.syncWans(p.cfg) in commitPending.
SyncNext(r) ==
    /\ req[r].pc = "sync"
    /\ wans' = req[r].next
    /\ IF req[r].own = NoTxn THEN Return(r) ELSE GoTo(r, "tdel")
    /\ UNCHANGED <<running, committed, disk, live, pend, timer, target, txn, rec,
                   issued, faults, crashes, outcome>>

-----------------------------------------------------------------------------
(* commitPending *)

\* hCommit: the body may name a commit token, or none.
Commit(r, token) ==
    /\ Issue(r, [Idle EXCEPT !.pc = "take", !.win = token])
    /\ UNCHANGED <<running, committed, disk, live, wans, pend, timer, target, txn,
                   rec, faults, crashes, outcome>>

\* The locked section: 409 without a window, 403 for another token, otherwise
\* the window is taken and its timer stopped.
TakeForCommit(r) ==
    /\ req[r].pc = "take"
    /\ IF pend = NoPend \/ (req[r].win # NoWin /\ pend.win # req[r].win)
       THEN /\ IF req[r].own = NoTxn THEN Return(r) ELSE GoTo(r, "tdel")
            /\ UNCHANGED <<pend, timer, outcome>>
       ELSE /\ req' = [req EXCEPT ![r].pc = "csave", ![r].next = pend.cfg]
            /\ pend' = NoPend
            /\ timer' = Stop(pend.win)
            /\ outcome' = Ends(pend, "confirmed")
    /\ UNCHANGED <<running, committed, disk, live, wans, target, txn, rec, issued,
                   faults, crashes>>

\* s.st.Save(p.cfg)
SaveConfirmed(r) ==
    /\ req[r].pc = "csave"
    /\ \/ Saved(req[r].next) /\ GoTo(r, "sync")
       \/ /\ SaveFailed(req[r].next)
          /\ IF req[r].own = NoTxn THEN Return(r) ELSE GoTo(r, "tdel")
    /\ UNCHANGED <<running, live, wans, pend, timer, target, txn, rec, issued,
                   crashes, outcome>>

-----------------------------------------------------------------------------
(* rollbackPending *)

\* hRollback
Rollback(r) ==
    /\ Issue(r, [Idle EXCEPT !.pc = "rtake"])
    /\ UNCHANGED <<running, committed, disk, live, wans, pend, timer, target, txn,
                   rec, faults, crashes, outcome>>

\* Mutant: rollbackPending forgets s.pend = nil.
TakeForRollbackKept(r) ==
    /\ req[r].pc = "rtake"
    /\ req' = [req EXCEPT ![r].pc = "rstop", ![r].win = pend.win, ![r].had = pend # NoPend]
    /\ outcome' = Ends(pend, "reverted")
    /\ UNCHANGED <<running, committed, disk, live, wans, pend, timer, target, txn, rec,
                   issued, faults, crashes>>

\* p := s.pend; s.pend = nil
TakeForRollback(r) ==
    /\ req[r].pc = "rtake"
    /\ req' = [req EXCEPT ![r].pc = "rstop", ![r].win = pend.win, ![r].had = pend # NoPend]
    /\ pend' = NoPend
    /\ outcome' = Ends(pend, "reverted")
    /\ UNCHANGED <<running, committed, disk, live, wans, timer, target, txn, rec,
                   issued, faults, crashes>>

\* Mutant: s.pend.timer.Stop() instead of p.timer.Stop().
StopCurrent(r) ==
    /\ req[r].pc = "rstop"
    /\ timer' = Stop(pend.win)
    /\ req' = [req EXCEPT ![r].pc = "rapply", ![r].next = committed]
    /\ UNCHANGED <<running, committed, disk, live, wans, pend, target, txn, rec,
                   issued, faults, crashes, outcome>>

\* Outside the lock: p.timer.Stop(), then buildDesired(s.committedConfig()).
StopTaken(r) ==
    /\ req[r].pc = "rstop"
    /\ timer' = Stop(req[r].win)
    /\ req' = [req EXCEPT ![r].pc = "rapply", ![r].next = committed]
    /\ UNCHANGED <<running, committed, disk, live, wans, pend, target, txn, rec,
                   issued, faults, crashes, outcome>>

\* 500 when the apply fails.  Without a window the audit call after it
\* dereferences nil: recoverWare answers 500 and syncWans is not reached.
ApplyCommitted(r) ==
    /\ req[r].pc = "rapply"
    /\ \/ /\ Applied(req[r].next)
          /\ IF req[r].had THEN GoTo(r, "rsync") ELSE Return(r)
       \/ ApplyFailed /\ Return(r)
    /\ UNCHANGED <<running, committed, disk, wans, pend, timer, target, txn, rec,
                   issued, crashes, outcome>>

\* s.syncWans(s.committedConfig())
SyncCommitted(r) ==
    /\ req[r].pc = "rsync"
    /\ wans' = committed
    /\ Return(r)
    /\ UNCHANGED <<running, committed, disk, live, pend, timer, target, txn, rec,
                   issued, faults, crashes, outcome>>

-----------------------------------------------------------------------------
(* Transactions *)

\* hTxnBegin
TxnBegin(r) ==
    /\ TxnLeft
    /\ Issue(r, [Idle EXCEPT !.pc = "eff", !.caller = "hTxnBegin"])
    /\ UNCHANGED <<running, committed, disk, live, wans, pend, timer, target, txn,
                   rec, faults, crashes, outcome>>

\* s.txns[t.id] = t
AddTxn(r) ==
    /\ req[r].pc = "tadd"
    /\ \E t \in Txns :
         /\ txn[t].st = "none"
         /\ txn' = [txn EXCEPT ![t].st = "open", ![t].draft = req[r].next]
    /\ Return(r)
    /\ UNCHANGED <<running, committed, disk, live, wans, pend, timer, target, rec,
                   issued, faults, crashes, outcome>>

\* hTxnConfig: getTxn, decoding and validation.
TxnConfig(r, t, c) ==
    /\ txn[t].st = "open"
    /\ Issue(r, [Idle EXCEPT !.pc = "tdraft", !.next = c, !.txn = t])
    /\ UNCHANGED <<running, committed, disk, live, wans, pend, timer, target, txn,
                   rec, faults, crashes, outcome>>

\* t.draft and t.base are written and read without a lock.  A field that a
\* goroutine is writing may be read, or overwritten, as any mixture of its words.
BeingWritten(t, label, r) ==
    \E q \in Reqs \ {r} : req[q].pc = label /\ req[q].txn = t

Draft(t, r) == IF BeingWritten(t, "tdraft", r) THEN Configs ELSE {txn[t].draft}

Base(t, r) == IF BeingWritten(t, "tbase", r) THEN Cfg0 ELSE {txn[t].base}

\* t.draft = c
WriteDraft(r) ==
    /\ req[r].pc = "tdraft"
    /\ \E c \in Configs :
         /\ c = req[r].next \/ BeingWritten(req[r].txn, "tdraft", r)
         /\ txn' = [txn EXCEPT ![req[r].txn].draft = c]
    /\ Return(r)
    /\ UNCHANGED <<running, committed, disk, live, wans, pend, timer, target, rec,
                   issued, faults, crashes, outcome>>

\* hTxnApply: getTxn, then effectiveConfig.
TxnApply(r, t, confirm) ==
    /\ txn[t].st = "open"
    /\ confirm => TokenLeft
    /\ Issue(r, [Idle EXCEPT !.pc = "eff", !.caller = "hTxnApply", !.txn = t,
                             !.confirm = confirm])
    /\ UNCHANGED <<running, committed, disk, live, wans, pend, timer, target, txn,
                   rec, faults, crashes, outcome>>

\* t.base = ...; s.applyNewConfig(w, r, t.draft, ..., t.id)
WriteBase(r) ==
    /\ req[r].pc = "tbase"
    /\ \E c \in Configs :
         /\ c = req[r].base \/ BeingWritten(req[r].txn, "tbase", r)
         /\ txn' = [txn EXCEPT ![req[r].txn].base = c, ![req[r].txn].from = req[r].from]
    /\ \E d \in Draft(req[r].txn, r) :
         req' = [req EXCEPT ![r] = Entry(d, req[r].txn, req[r].confirm, NoWin)]
    /\ UNCHANGED <<running, committed, disk, live, wans, pend, timer, target, rec,
                   issued, faults, crashes, outcome>>

\* Mutant: hTxnCommit commits whatever is pending, without the token.
TxnCommitAny(r, t) ==
    /\ txn[t].st = "open"
    /\ pend.txn = t
    /\ Issue(r, [Idle EXCEPT !.pc = "take", !.own = t])
    /\ UNCHANGED <<running, committed, disk, live, wans, pend, timer, target, txn,
                   rec, faults, crashes, outcome>>

\* hTxnCommit: 409 unless the open window is t's; then its token is committed.
TxnCommit(r, t) ==
    /\ txn[t].st = "open"
    /\ pend.txn = t
    /\ Issue(r, [Idle EXCEPT !.pc = "take", !.win = pend.win, !.own = t])
    /\ UNCHANGED <<running, committed, disk, live, wans, pend, timer, target, txn,
                   rec, faults, crashes, outcome>>

\* delete(s.txns, t.id), whatever commitPending answered.
DeleteTxn(r) ==
    /\ req[r].pc = "tdel"
    /\ txn' = [txn EXCEPT ![req[r].own].st = "gone"]
    /\ Return(r)
    /\ UNCHANGED <<running, committed, disk, live, wans, pend, timer, target, rec,
                   issued, faults, crashes, outcome>>

\* hTxnRollback: the transaction is deleted; an open window of its own is
\* rolled back, a base it was applied over is applied and committed again.
TxnRollback(r, t) ==
    /\ txn[t].st = "open"
    /\ \E b \in Base(t, r) :
         Issue(r, IF pend.txn = t THEN [Idle EXCEPT !.pc = "rtake"]
                  ELSE IF b # NoCfg THEN Entry(b, NoTxn, FALSE, txn[t].from)
                  ELSE Idle)
    /\ txn' = [txn EXCEPT ![t].st = "gone"]
    /\ UNCHANGED <<running, committed, disk, live, wans, pend, timer, target, rec,
                   faults, crashes, outcome>>

-----------------------------------------------------------------------------
(* autoRollback, the callback of a window's timer *)

\* The window's time is up; Stop can no longer prevent the callback.
TimerFires(w) ==
    /\ timer[w] = "armed"
    /\ timer' = [timer EXCEPT ![w] = "fired"]
    /\ UNCHANGED <<running, committed, disk, live, wans, pend, target, txn, req,
                   rec, issued, faults, crashes, outcome>>

\* p := s.pend; s.pend = nil -- whichever window that is by now.
TakeExpired(w) ==
    /\ timer[w] = "fired"
    /\ timer' = [timer EXCEPT ![w] = IF pend = NoPend THEN "done" ELSE "build"]
    /\ pend' = NoPend
    /\ outcome' = Ends(pend, "expired")
    /\ UNCHANGED <<running, committed, disk, live, wans, target, txn, req, rec,
                   issued, faults, crashes>>

\* s.buildDesired(s.committedConfig())
BuildCommitted(w) ==
    /\ timer[w] = "build"
    /\ timer' = [timer EXCEPT ![w] = "apply"]
    /\ target' = [target EXCEPT ![w] = committed]
    /\ UNCHANGED <<running, committed, disk, live, wans, pend, txn, req, rec,
                   issued, faults, crashes, outcome>>

\* s.engine.Apply(...); its error is ignored.
ApplyExpired(w) ==
    /\ timer[w] = "apply"
    /\ Applied(target[w]) \/ ApplyFailed
    /\ timer' = [timer EXCEPT ![w] = "sync"]
    /\ target' = [target EXCEPT ![w] = NoCfg]
    /\ UNCHANGED <<running, committed, disk, wans, pend, txn, req, rec, issued,
                   crashes, outcome>>

\* s.syncWans(s.committedConfig())
SyncExpired(w) ==
    /\ timer[w] = "sync"
    /\ wans' = committed
    /\ timer' = [timer EXCEPT ![w] = "done"]
    /\ UNCHANGED <<running, committed, disk, live, pend, target, txn, req, rec,
                   issued, faults, crashes, outcome>>

-----------------------------------------------------------------------------
(* ReconcileNow: the drift-repair ticker, and "go ReconcileNow" on a lease *)

ReconcileRead(k) ==
    /\ running
    /\ rec[k].pc = "idle"
    /\ rec' = [rec EXCEPT ![k] = IF pend # NoPend THEN [pc |-> "apply", cfg |-> pend.cfg]
                                 ELSE [pc |-> "current", cfg |-> NoCfg]]
    /\ UNCHANGED <<running, committed, disk, live, wans, pend, timer, target, txn,
                   req, issued, faults, crashes, outcome>>

ReconcileCurrent(k) ==
    /\ rec[k].pc = "current"
    /\ rec' = [rec EXCEPT ![k] = [pc |-> "apply", cfg |-> committed]]
    /\ UNCHANGED <<running, committed, disk, live, wans, pend, timer, target, txn,
                   req, issued, faults, crashes, outcome>>

\* Mutant: repairs a kernel state that is nobody's, but not one that a late
\* handler or callback left behind.
ReconcileBrokenOnly(k) ==
    /\ rec[k].pc = "apply"
    /\ IF live = Partial THEN Applied(rec[k].cfg) \/ ApplyFailed ELSE UNCHANGED <<live, faults>>
    /\ rec' = [rec EXCEPT ![k] = Resting]
    /\ UNCHANGED <<running, committed, disk, wans, pend, timer, target, txn, req,
                   issued, crashes, outcome>>

ReconcileApply(k) ==
    /\ rec[k].pc = "apply"
    /\ Applied(rec[k].cfg) \/ ApplyFailed
    /\ rec' = [rec EXCEPT ![k] = Resting]
    /\ UNCHANGED <<running, committed, disk, wans, pend, timer, target, txn, req,
                   issued, crashes, outcome>>

-----------------------------------------------------------------------------
(* The environment *)

\* Somebody else changes what routerd manages in the kernel.
Drift ==
    /\ faults < MaxFaults
    /\ faults' = faults + 1
    /\ live' = Partial
    /\ UNCHANGED <<running, committed, disk, wans, pend, timer, target, txn, req,
                   rec, issued, crashes, outcome>>

\* The daemon dies: what it keeps in memory is gone, windows and transactions
\* included; an apply may have been cut short.
Crash ==
    /\ running
    /\ crashes < MaxCrashes
    /\ crashes' = crashes + 1
    /\ running' = FALSE
    /\ live' \in {live, Partial}
    /\ pend' = NoPend
    /\ outcome' = Ends(pend, "lost")
    /\ timer' = [w \in Windows |-> IF timer[w] = "unused" THEN "unused" ELSE "done"]
    /\ target' = [w \in Windows |-> NoCfg]
    /\ txn' = [t \in Txns |-> IF txn[t].st = "none" THEN NoTxnRecord
                              ELSE [NoTxnRecord EXCEPT !.st = "gone"]]
    /\ req' = [r \in Reqs |-> Idle]
    /\ rec' = [k \in Recs |-> Resting]
    /\ UNCHANGED <<committed, disk, wans, issued, faults>>

\* main: open the store, sync the DHCP clients, apply the committed
\* configuration (a failure is only logged), serve.
Restart ==
    /\ ~running
    /\ running' = TRUE
    /\ committed' = disk
    /\ wans' = disk
    /\ Applied(disk) \/ ApplyFailed
    /\ UNCHANGED <<disk, pend, timer, target, txn, req, rec, issued, crashes, outcome>>

-----------------------------------------------------------------------------

Requests(r) ==
    \/ \E c \in Configs, confirm \in BOOLEAN : Put(r, c, confirm)
    \/ \E token \in Win0 : Commit(r, token)
    \/ Rollback(r)
    \/ TxnBegin(r)
    \/ \E t \in Txns, c \in Configs : TxnConfig(r, t, c)
    \/ \E t \in Txns, confirm \in BOOLEAN : TxnApply(r, t, confirm)
    \/ \E t \in Txns : TxnCommit(r, t)
    \/ \E t \in Txns : TxnRollback(r, t)

Handler(r) ==
    \/ ReadPend(r) \/ ReadCurrent(r) \/ CheckPending(r) \/ ApplyNext(r)
    \/ Recover(r) \/ RecoverSync(r) \/ OpenWindow(r) \/ SaveNext(r)
    \/ ClearWindow(r) \/ SyncNext(r) \/ TakeForCommit(r) \/ SaveConfirmed(r)
    \/ TakeForRollback(r) \/ StopTaken(r) \/ ApplyCommitted(r) \/ SyncCommitted(r)
    \/ AddTxn(r) \/ WriteDraft(r) \/ WriteBase(r) \/ DeleteTxn(r)

Timer(w) ==
    \/ TimerFires(w) \/ TakeExpired(w) \/ BuildCommitted(w) \/ ApplyExpired(w)
    \/ SyncExpired(w)

ReconcileNow(k) == ReconcileRead(k) \/ ReconcileCurrent(k) \/ ReconcileApply(k)

Next ==
    \/ \E r \in Reqs : Requests(r) \/ Handler(r)
    \/ \E w \in Windows : Timer(w)
    \/ \E k \in Recs : ReconcileNow(k)
    \/ Drift \/ Crash \/ Restart

\* The Go scheduler runs every goroutine, time passes, the ticker ticks, and
\* systemd restarts the daemon (Restart=on-failure).  Requests, crashes and
\* foreign changes need never happen.
Fairness ==
    /\ \A r \in Reqs : WF_vars(Handler(r))
    /\ \A w \in Windows : WF_vars(Timer(w))
    /\ \A k \in Recs : WF_vars(ReconcileNow(k))
    /\ WF_vars(Restart)

Spec == Init /\ [][Next]_vars /\ Fairness

-----------------------------------------------------------------------------
(* Properties *)

\* What the goroutines share, and the daemon's environment.
SharedTypeOK ==
    /\ running \in BOOLEAN
    /\ committed \in Configs /\ disk \in Configs
    /\ live \in Configs \cup {Partial} /\ wans \in Configs
    /\ pend \in Pending
    /\ timer \in [Windows -> TimerStates]
    /\ target \in [Windows -> Cfg0]
    /\ txn \in [Txns -> TxnRecord]
    /\ rec \in [Recs -> Reconciler]
    /\ issued \in 0..MaxRequests /\ faults \in 0..MaxFaults /\ crashes \in 0..MaxCrashes
    /\ outcome \in [Windows -> Outcomes]

\* Every variable holds a value of the type the code gives it: what is
\* committed, on disk or synced to the DHCP clients is always a configuration,
\* never the zero value a handler started from.
TypeOK == SharedTypeOK /\ req \in [Reqs -> Request]

\* An open window always has its own timer running or its callback on the way:
\* no interleaving of applies, commits, rollbacks and late callbacks, each of
\* which stops timers outside or inside the lock, leaves a pending change that
\* nothing would ever take back.
WindowArmed == pend # NoPend => timer[pend.win] \in {"armed", "fired"}

\* A window ends in one way only: what one goroutine took out of Server.pend
\* to commit it, to roll it back, to let it expire or to replace it, no other
\* goroutine takes as well.
Ended == Outcomes \ {"none", "open"}
WindowEndsOnce ==
    [][\A w \in Windows : outcome[w] \in Ended => outcome'[w] = outcome[w]]_vars

\* hTxnCommit reads the window and commits it in two critical sections.  The
\* window it confirms is its transaction's own, even when another window was
\* opened in between.
TxnCommitConfirmsOwn ==
    [][\A r \in Reqs : req[r].own # NoTxn /\ req[r].pc = "take" /\ req'[r].pc = "csave"
                         => pend.txn = req[r].own]_vars

\* Every window ends: the daemon never stays in "pending".
WindowEnds == \A w \in Windows : (pend.win = w) ~> (pend.win # w)

\* Once requests, faults and crashes cease, drift repair converges the kernel
\* to the effective configuration and keeps it there, whatever stale
\* configuration a slow handler, callback or reconciler applied last.
Converges == <>[](running /\ live = effectiveConfig)

-----------------------------------------------------------------------------
(* What the documents claim and the code does not do: this is violated, see    *)
(* the findings in README.md.                                                  *)

\* README.md:140: "unconfirmed changes auto-rollback".  What was read out of a
\* window that expired or was reverted is not committed later.
UnconfirmedNotCommitted ==
    \A r \in Reqs : req[r].pc = "save" /\ req[r].from \in Windows
                      => outcome[req[r].from] \notin {"expired", "reverted"}

=============================================================================
