# A TLA+ verification project for the router platform

The system is a home-router control plane in Go: a daemon, `routerd`
(`src/router/cmd/routerd`), that keeps one configuration, converges a Linux
kernel to it, and changes it through an HTTP API with *confirmed commits* (a
change that nobody confirms is taken back); a command-line client `routerctl`;
and a web interface. This project models the daemon's own logic in TLA+, checks
it with TLC on small instances, and proves what matters most with TLAPS.

Contents: [parts of the system](#1-the-system), [hazards](#2-what-is-hard),
[plan](#3-plan), [ConfirmedCommit](#4-confirmedcommit), [Store](#5-store),
[Dhcp4Manager](#6-dhcp4manager), [Dhcp4Client](#7-dhcp4client),
[Engine and DesiredState](#8-engine-and-desiredstate),
[ConfigEdit](#9-configedit), [Auth and EventLog](#10-auth-and-eventlog),
[Firewall](#11-firewall), [findings](#12-findings), [proofs](#13-proofs),
[limits](#14-what-is-not-modelled).

## 1. The system

Each part with the state it keeps, what changes it, and what makes it correct.
The paths are below `src/router/`.

| Part | Source | State | Operations | Correct when |
|---|---|---|---|---|
| Confirmed commits and transactions | `internal/api/server.go` | `Server.pend` (at most one window: configuration, token, transaction, timer), `Server.txns` | `applyNewConfig`, `commitPending`, `rollbackPending`, `autoRollback`, `hTxn*`, `hConfigPut`, `hRevisionRestore` | every window ends, in one way; an unconfirmed change does not survive its window; a confirmed one does |
| Boot, drift repair, restart | `cmd/routerd/main.go`, `Server.ReconcileNow` | none of its own | boot apply, ticker (5 min by default), `go ReconcileNow()` on a lease | the kernel ends up at the effective configuration |
| Configuration store | `internal/store/store.go`, `internal/config/config.go` | `active`, `revs`, `revData`; `config.json`, `backups/`, `revisions.json` | `Open`, `Save`, `Restore`, `Revision` | what is acknowledged survives; a number names one revision, and that one is what it says |
| Audit log and events | `internal/store/store.go` | bounded lists, `audit.jsonl`, `events.jsonl` | `Audit`, `Event`, `Events`, `AuditLog`, `hEvents` | the newest entries are kept and survive; a client that follows the events misses none |
| Item handlers | `internal/api/server.go` (788-1081) | none of their own; they edit `effectiveConfig()` | add, patch, delete of networks, routes, rules, port forwards, tunnels | an edit changes one item; nothing invalid is ever pending or committed |
| Reconciliation engine | `internal/reconcile` | managed-route provenance (`provenance.json`) | `Plan`, `Apply`, `Verify` | an apply converges, is idempotent, removes what routerd owns and nothing else |
| Executors and observer | `internal/platform`, `internal/state` | the kernel | one per kernel operation | the observed state is the state |
| DHCPv4 client | `internal/dhcp4/client.go`, `packet.go`, transports | lease, timers, transaction id | DISCOVER, REQUEST, renew, rebind, RELEASE | a lease is used only while it is valid; the client recovers from any loss |
| DHCPv4 manager, registry | `internal/dhcp4/manager.go` | running clients, leases by interface | `Sync`, `Shutdown`, `Registry.Set/Remove` | one client per DHCP WAN; the registry holds the lease of the client that runs |
| Authentication | `internal/auth/auth.go` | users, sessions, tokens, `auth.json` | login, logout, password change, token creation and removal | what is revoked no longer authenticates |
| Monitor | `internal/monitor/monitor.go` | samples | sampling | rates follow counters across resets |
| Configuration model | `pkg/models` | - | `Validate`, `Default` | accepted configurations are consistent |
| Firewall generator | `internal/firewall` | - | configuration to an nftables script | the order of its rules gives the policy the configuration states; nft accepts it |
| Other generators | `internal/dhcp`, `qos`, `wireguard` | - | configuration to service files | order and arithmetic |
| routerctl, web UI, installer | `cmd/routerctl`, `web/static`, `install.sh` | - | - | presentation and installation |

How they interact. A request reaches a handler (one goroutine each), which
computes a configuration and calls `applyNewConfig`: validate, `Engine.Apply`,
then either `Store.Save` or a window with a `time.AfterFunc` timer, then
`syncWans`, which makes the DHCP manager start and stop clients. A client that
gets a lease puts it into the registry and starts `ReconcileNow` in a new
goroutine; the ticker calls it too. The timer's callback runs `autoRollback` in
a goroutine of its own. The shared state is behind three locks that are never
held together for long: `Server.mu` for `pend` and `txns`, `Store.mu` for the
store, the engine's lock for one whole apply.

## 2. What is hard

`PROJECT.json` lists each hazard at its line. They fall into six groups.

- *Several critical sections per handler.* `Server.mu` is released before the
  engine and the store are called, so a handler decides on one state and acts
  on another. In `server.go`: check then open (602, 629), take then stop (721,
  726), look then commit (1290, 1297), read then apply (601, 617; 683, 684;
  1413).
- *A timer against everyone.* `Stop` does not stop a callback that already
  waits for the lock.
- *Crashes and failing writes.* `Save` writes three files, two of them in
  place; windows and transactions exist in memory only.
- *References shared between requests* (`t.draft`, `t.base`, the configuration
  of an open window).
- *A lossy network and a slow one*: the DHCP client, its manager, and answers
  that arrive after they have been given up.
- *Policy by position*: what a generated ruleset does follows from the order of
  rules that come from five parts of a configuration, two of them written in
  the order of a Go map.

## 3. Plan

In the order of importance. "Done" modules are described below.

| Module | What it models | Runs and bounds | Theorems | |
|---|---|---|---|---|
| `ConfirmedCommit` | the mutation pipeline with every interleaving of handlers, timers, reconcilers, crashes and failures | races; faults and liveness | types, armed windows, one outcome per window, a transaction commits its own window | done |
| `Store` | `Open`, `Save`, `Restore` with a crash or a failing write between any two file operations | two retained revisions, five saves, two errors, two crashes | types, durability, the shape of the history, what its entries name | done |
| `Dhcp4Manager` | `Sync`, `Release`, `Shutdown`, the goroutine of each client, the registry: what a client promises its manager | two interfaces, two clients each | one client per interface; no lease without a holder | done |
| `Dhcp4Client` | the client's states, timers, readers and transports against any network | one client, six kinds of lease, one failure | types, sockets, the schedule and the end of a lease; the safety part of the refinement of `Dhcp4Manager` | done |
| `Engine`, `DesiredState` | observe, plan, apply, verify and provenance over links, addresses, routes and services; the desired state from a configuration and leases | four targets, two changes, one foreign command, one fault | the kernel stays one, others' routes are kept, what `Verify` accepts is what the configuration means, what `BuildWith` makes is what the engine assumes | done |
| `ConfigEdit` | item handlers over slices as references, since the pending configuration is edited in place | two edits at a time, one window, five kinds of item | an edit works on its own copy, changes one item, and nothing unvalidated is kept | done |
| `Auth` | the account, sessions and tokens and their file | two requests, two tokens, two failing writes, a crash | revocation, issued tokens, the password in force, raw tokens | done |
| `EventLog` | bounded buffers, their files, a client that follows | five events through a buffer of three | types, what is served is newest first, a restart loses nothing, a follower skips nothing | done |
| `Firewall` | the chains that `Generate` writes, and netfilter's verdict under them | two WANs, three zones, a tunnel, pairs of rules | all five properties, for every configuration | done |
| `DurableConfig` | abstract specification of the store: one register that a save changes atomically or not at all | refinement by `Store` without failing writes | none | not written: `AcknowledgedDurable` and `RestoresFaithful` state the same promises on `Store` itself |
| operators | `Upstreams`, validation, pools, the packet codec, traffic rates | against reference definitions over bounded inputs | none | not written |

How the modules fit together. `ConfirmedCommit` sees `Store` as the pair
`committed`/`disk` with the outcomes of `Save`, the engine as one step on `live`
that converges the kernel, leaves it alone or leaves it half way, and the DHCP
manager as `wans`. `Store` justifies the first (`Saved`, `SaveFailed`) and
`Engine` the second (`VerifiedMeans`, `Converges`: an apply that reports success
has converged, one that fails may have left anything, and repeating it heals
it). `Dhcp4Manager` is the abstract client as well as the manager:
`Dhcp4Client` is shown to implement it. `DesiredState` is the function the
engine's targets are built from, and `Firewall` says what one of its generated
texts means. `ConfigEdit` is the item handlers in front of the pipeline of
`ConfirmedCommit`; it keeps the slices that module abstracts to opaque values,
and leaves out timers and faults, which that module has.

## 4. ConfirmedCommit

**State.** `pend` and `txn` are `Server.pend` and `Server.txns`. `timer[w]` is
the `AfterFunc` timer of the window with token `w`, and the progress of its
callback: a window has one timer and a timer one callback. `req[r]` holds the
locals of a handler in flight, `pc` being the point before its next critical
section; `rec[k]` those of a `ReconcileNow`. `committed` is `Store.active`,
`disk` is `config.json`, `live` the configuration the kernel was last converged
to (`Partial` if it corresponds to none), `wans` the one the DHCP manager was
last given. `outcome` and the `from` fields are history.

**Actions.** One per critical section, or call into the store or the engine,
because those are the points where another goroutine can run. `applyNewConfig`
is `ReadPend`, `ReadCurrent`, `CheckPending`, `ApplyNext`, then `Recover` and
`RecoverSync` on failure, `OpenWindow` with a window, `SaveNext` and
`ClearWindow` without, and `SyncNext`. `commitPending` is `TakeForCommit`,
`SaveConfirmed`, `SyncNext`; `rollbackPending` is `TakeForRollback`,
`StopTaken`, `ApplyCommitted`, `SyncCommitted`; `autoRollback` is `TimerFires`,
`TakeExpired`, `BuildCommitted`, `ApplyExpired`, `SyncExpired`; `ReconcileNow`
is `ReconcileRead`, `ReconcileCurrent`, `ReconcileApply`. The transaction
handlers are named after themselves. `PROJECT.json` maps each definition to its
lines.

**Failures.** An apply fails before it did anything or half way; a save fails
before or after `Store.active` changed; somebody changes the kernel (`Drift`);
the daemon dies between any two steps or inside an apply (`Crash`) and systemd
starts it again (`Restart`, which is `main` up to serving: the store is opened,
the clients are synced, the committed configuration is applied, and a failed
apply is only logged). `t.draft` and `t.base` are written without a lock: an
access that races with a write gets any configuration.

**Abstractions.** A configuration is an opaque value that `Validate` accepts;
requests whose configuration it rejects change no state. Reading a
configuration out of the store and building the desired state from it is one
value. The item handlers call the same `applyNewConfig` and are covered as far
as they behave like `Put`; their in-place edits are `ConfigEdit`'s subject.

**Runs** (`MCConfirmedCommit` adds the symmetry set).

| Run | Bounds | Shows |
|---|---|---|
| `commit_races` | 4 requests, 2 at a time, 2 windows, 1 transaction, no faults | `WindowArmed`, `WindowEndsOnce`, `TxnCommitConfirmsOwn` |
| `commit_faults` | 2 requests, 1 fault, 1 crash, no transaction | `TypeOK`, `WindowEnds`, `Converges` |
| `commit_unconfirmed` | the smallest instance that shows it | a violation, see [findings](#12-findings) |

- `WindowArmed`: an open window has its own timer armed or its callback on the
  way. Timers are stopped in four places, one of them after the lock was
  released; no interleaving leaves a window that nothing would take back.
- `WindowEndsOnce`: what one goroutine took out of `Server.pend` no other takes
  as well, so a confirmed window is not also rolled back.
- `TxnCommitConfirmsOwn`: although `hTxnCommit` looks and commits in two
  sections, what it confirms is its own transaction's window. The token it
  passes on is what makes this true; the mutant without it fails.
- `WindowEnds`: every window ends. `Converges`: once requests, faults and
  crashes have ceased, the kernel is at the effective configuration for good,
  whatever a slow handler, callback or reconciler applied in between.

**Bounds.** Every hazard above is between two goroutines, or two and a timer,
so two request slots with two windows and one reconciler reach them; the third
and fourth request allow what went before (a transaction is begun and applied
before it is committed or rolled back against another's window). Two
configurations suffice because all comparisons are with the committed, the
pending or the desired one, and a difference needs two values. Tokens and
transaction identifiers are never reused, in the code because they come from the
clock; a request that needs one is issued only while one is left (`TokenLeft`,
`TxnLeft`). Symmetry over configurations, requests and windows is used in the
safety runs only.

**Fairness.** Weak fairness of each handler, each timer with its callback, each
reconciler and `Restart`: the Go scheduler runs every goroutine that can run,
`AfterFunc` fires, the ticker ticks, and the unit has `Restart=on-failure`
(`src/install.sh`, line 142). Engine and store calls are taken to end: `ReconcileNow`
and the boot apply run under a deadline of a minute, a handler's apply under its
request's context, a rollback's under none. The ticker exists unless
`--reconcile-interval 0` disables it; `Converges` is about a daemon that has it. Nothing obliges a client to send a request, and
nothing obliges a fault or a crash to happen.

## 5. Store

**State.** `active`, `revs`, `revData` are the fields of `Store`; `config`,
`backups`, `index` are the files. A file is absent, torn, or holds a
configuration. `pc` is the progress of `Open` or `Save`, which hold `Store.mu`
throughout, so that only a crash or a failing write comes between their steps.
The `cfg` of an entry and `acked` are history.

**Actions.** `OpenNew`, `OpenExisting`, `LoadIndex`, `SeedBackup` and `SeedIndex`
are `Open`; `SaveSame`, `SaveNew`, `AppendRevision`, `Retain`, `WriteActive` and
`SaveIndex` are `Save`; `Restore` saves an old revision again. `config.json` is
written to a temporary file and renamed, so a failure or a crash leaves the old
one; the other files are truncated and written in place, so it leaves the old
one or a torn one. `Crash` is the death of the process at any point.

**Runs.** `store_history`: three configurations, two retained revisions, five
saves, two failing writes and two crashes, at any point. Two retained revisions
make retention happen on the second save after the seed; two crashes allow one
to damage the index and the next to damage what was rebuilt on it.

- `TypeOK` includes that `config.json` is never torn: `Open` never refuses to
  start.
- `Durable`: without failing writes, wherever the process dies, `config.json`
  is what was last acknowledged or what the interrupted `Save` was writing.
- `HistoryShape`: numbers are consecutive, newest first, at most `MaxRevisions`,
  in memory and in the index.
- `RevisionFaithful`: a revision that is listed and readable is the
  configuration saved under that number, even though numbers are reused after
  an index is lost and backups outlive their entries.

The store need not make progress (nobody has to call it), so deadlock is not
checked there.

## 6. Dhcp4Manager

**State.** `run` is `Manager.run`, the handle of each interface; `cl` the client
goroutines ever started on an interface, in the order of their start, each with
its cancellation; `leases` is `Registry.leases`, as the number of the client whose
lease it is. `phase` follows `main`: serving, after `Shutdown`, ended. `owes` is
history: a RELEASE that is due.

**Actions.** `Sync`, `Release` and `Shutdown` hold `Manager.mu` throughout and
are one step each. A client is seen through what it does to the registry:
`Acquire`, `Renew`, `Lose`, `Stop`, `ClientReleases` and `ClientReturns`, the
deferred calls of `runClient`. What both DHCP modules have is named after the
manager here (`ManagerInit`, `ManagerNext`, `ManagerSpec`), so that one proof
module can extend both. `Exit` is the return of `main` right after `Shutdown`,
which waits for nobody; `Crash` a panic of any goroutine, or `log.Fatal`.

**Run** `dhcp_manager`: two interfaces, two clients started on each, so that a
cancelled client and its successor run side by side, on two interfaces that
`Sync` treats together. `OneClient`: the clients nobody has told to stop are
those the manager can still cancel. `LeaseHasHolder`: no lease in the registry
has been lost or released for good by its client. `Cleared`: an interface left
without a client loses its lease. Fairness: a cancelled context makes every wait
of a client return. There is no deadlock check, because `main` ends.

## 7. Dhcp4Client

**State.** The fields of `client` (`mac`, `tr`, `lease`), the locals of `run`,
`bound` and `doRenew` (`backoff`, `mode`, `attempt`, `wait`), the context
(`cancelled`), the readers that timed-out calls of `recvUntil` left behind
(`stale`), and the client's entry in the registry. `age` is the time since
`lease.Acquired`.

**Actions.** One per step between two waits; `PROJECT.json` maps them. Three
things are abstracted.

- *Time* is a counter that moves only while the client waits, and not past the
  end of the wait, so the machine is taken to be fast compared with the
  timeouts (4 s each). When a wait ends and the context is cancelled at the
  same moment, `select` may take either branch.
- *The network* is whatever arrives: at every moment at which the client
  listens, any ACK, a NAK, an OFFER or a packet that does not parse may arrive,
  or nothing. This contains loss, delay, duplication and reordering. Packets
  that the loops skip change nothing and are left out.
- *Readers left behind* wait on the same socket as the next attempt and come
  first (`Stolen`).

The times are natural numbers below `2^Width`, with the arithmetic of `uint32`.
`Width` is 7 instead of 32, because TLC's integers have 32 bits; the lease of
length 24 overflows in it as one of more than 7100 days does in the code.

**Run** `dhcp_client`: the six kinds of lease of `MCDhcp4Client` (usual; computed
times; shorter than its retries; over at once; T2 behind the expiry; overflow),
one failing socket call, one packet that does not parse.

- `TransportPaired`: no send on a transport that `recvUntil` closed; no socket
  and no reader is left over while the client waits.
- `RenewalSchedule`, `HeldUntilT2`, `ExpiryBounded`: when a lease is renewed,
  rebound, kept and dropped, for any times the server sends. `ExpiryBounded` is
  what the code guarantees, and is weaker than one would like: a T2 behind the
  expiry delays the end of the lease.
- `Stops`: a cancelled client ends, wherever it is. `Acquires`: it comes back to
  a lease after anything.
- `IsManagedClient`: the client implements one interface of `Dhcp4Manager`
  (`SafeSpec`) under the mapping at the end of the module. A panic is the
  manager's `Crash`.

**Fairness.** Weak fairness of time, of the goroutine, and of the interface
appearing. Strong fairness of `StopBound`, since Go's `select` chooses at random
among ready cases, so a cancelled context is not passed over for ever. Strong
fairness of receiving an OFFER and an ACK says that there is a server that
answers one of infinitely many attempts; `Acquires` is about such a network, and
about clients that had a MAC when they were started (the code reads it once).

## 8. Engine and DesiredState

**DesiredState** is `Registry.Runtime` and `BuildWith`: from a configuration (a
record of WANs, networks, tunnels, static routes) and the leases to links in
their order of creation, addresses, the devices that lose all others, routes,
and the generated texts, each a value that differs when its input does.

**State of Engine.** `k` is the kernel with the files and services that routerd
writes; `prov` the provenance file; `target` what the callers want applied,
`want` the argument of the `Apply` that runs; `pc` and `ops` its phase and the
commands left in it. Commands are records, run one at a time by `Run`, because
others may act between any two. `asked` is history.

**Actions.** `Start` takes the first observation and plans the links,
`LinksDone` and `AddrsDone` the second and third, `Verify` the fourth;
`SaveProvenance` ends a successful `Apply`. A plan is made of a snapshot and run
later. `Run` gives a command its effect; `RunRefused` is a command that the
kernel refuses, tolerated or not as the code says. `RunFails` is a failure or
the death of the daemon at a command, with or without its effect;
`ObserveFails` the same between two phases. (The engine keeps nothing in memory,
so dying and failing are the same to it.) `Retarget` is a new configuration or
lease, also while an `Apply` runs; `Drift` a command of somebody else.

**The kernel.** What `fake.go` does, and what Linux does besides: VLANs go with
their parent, routes with their device, its being up, or the last address on it;
a gateway must be reachable. `Family` is a device, the VLANs on it, and the VLANs
on those, all of which go with it. For routes both behaviours are possible where they
differ: `replace` removes the route with the same destination and metric (Linux)
or not (simulator), and deleting a route that is gone is an error or not.

**Run** `engine`. One WAN, one LAN port, a bridge with a VLAN on it, a tunnel, a
static route, a shaped uplink; four targets (no lease, two leases with different
gateways, everything at once), two changes of target at any moment, one foreign
command out of nine, one fault. Two changes let an interrupted apply meet a
different target and come back.

- `TypeOK` includes that the kernel stays one (`Consistent`): unique names,
  nothing refers to a device that is gone, and every gateway lies on a network of
  its device.
- `VerifiedMeans`: what `Verify` accepts is what the configuration means, stated
  over the kernel without the planners, and nothing of the last success is left
  over. That the planners have nothing to do is one thing, that the kernel is
  right another: they skip what is there in a different form. Two limits are
  written into it. `Verify` does not look for the physical interfaces again, so
  the property supposes that they are there; and the service is said to have read
  its file only if no command was lost (section 12).
- `ForeignKept`: no step of routerd removes a route that it was never asked for,
  other than by what the kernel does with the device, the gateway's network or a
  route that a desired one replaces. A route that was asked for without a gateway
  is deleted without one, and so may be any with its destination and device.
- `Converges`: once changes, faults and others cease, the kernel is and stays
  what the target means, and provenance says so, although single passes may fail
  (a VLAN's deletion after its bridge's, a route's deletion after its
  replacement).

`EngineAssumption` says what desired states, the first kernel and the commands of
others are. `IsDesired` is what `BuildWith` makes of a valid configuration: every
link up, every address on one of them, and an address for every device that
loses its others (`validate.go` requires a subnet, an address or a lease of
each). TLC evaluates it on the four targets, which `BuildWith` computes, and
`IsConfig` on their configurations; `BuildIsDesired` proves that the one follows
from the other. Others may give any command but writing routerd's two files.

Fairness: weak fairness of the daemon's steps. The ticker calls `Apply` again
and again, and an `Apply` ends because each of its phases is a finite list.

## 9. ConfigEdit

**State.** A Go slice is a reference to an array, and that is the point here:
`effectiveConfig` clones the committed configuration but returns a pending one as
it is. `heap` has the arrays; `active`, `pend`, `commit` (what `commitPending`
has taken) and each request hold a slice, an array and a length. `kind` is the
kind of item of a behaviour, because a handler leaves the other lists alone.
`overtaken` and `shared` are history.

**Actions.** `Begin` reads `effectiveConfig`; the thirteen handlers, named after
themselves, are `Add`, `Replace` or `Delete` on the slice, in place where Go does
it in place (`append` writes into spare room if there is any, and the runtime
decides whether there is). Then `applyNewConfig`: `Validate`, `CheckPending`,
`ApplyFails`, `OpensWindow`, or `SaveEdit` and `ClearPending`. Windows of others
are opened, confirmed in two steps, and rolled back; `Restart` comes at any point.

**Run** `config_edit`: two edits at a time, each of the five kinds, two
identifiers, valid and invalid items, masked keys, one window of a transaction or
of another request. `Held` is every slice that something refers to; what none of
them refers to is garbage, and its array is used again (`Fresh`). Two assumptions
on the constants go with the heap: the requests in flight are finitely many, so
that an array is always free, and a list has room for two items.

- `EditsOwnCopy`: an edit that found no window open changes an array to which
  nobody else refers, so that one that is refused leaves no trace.
- `SoundUnlessShared`: what is pending, being confirmed, committed or on disk is
  valid, and disk and memory agree, *unless* an edit wrote to the slices of a
  pending configuration. The condition is needed, see [findings](#12-findings).
- `EditsOneItem`: an edit that nobody overtook changes one item; an update is
  lost only to another that had read before it was saved.

Two requests suffice, since a conflict is between two references to one array;
`MaxLen` 3 leaves room for a deletion in the middle of a list.

## 10. Auth and EventLog

**Auth.** `db` is `Manager.users` and `Manager.tokens`, `disk` is `auth.json`,
`sess` the sessions; there is one account, because the code creates no other.
`Manager.mu` makes each operation one step, but `CreateToken` saves twice, and a
request is several operations: `authOnly` checks the credential and the handler
acts later, `hPassword` logs in and then sets. `Crash` comes between any two, and
every `save` may fail, whose consequence differs: ignored in `Check` and in the
second save of `CreateToken`, fatal in `EnsureAdmin`, an answer with an error
elsewhere, with the change left in memory.

Run `auth`: two requests, two tokens, two sessions, two failing writes, one
crash.

- `RevocationFinal`: a token whose revocation succeeded is never accepted again,
  by this daemon or by one restarted from the file.
- `IssuedWorks`: a token that was handed out works until somebody asks for its
  revocation.
- `PasswordKept`: the password in force is the one last acknowledged, or one
  whose change was answered with an error since.
- `RawTransient`: a raw token is in memory or on disk only during its creation,
  unless that creation itself met a fault.

**EventLog.** `events`, `eventSeq` and `audit` are the fields of `Store`, the
files are sequences of lines. An append that fails leaves nothing or part of a
line, and the next append continues that line, so that both are lost (`Continue`).
`hEvents` is a client that asks for the events after the last it has seen.

Run `event_log`: five events through a buffer of three, three audit records
through one of two, two failing appends, two crashes. A buffer of three and
limits of up to two let a limit cut what is neither the newest nor the oldest.

- `NewestFirst`: what is served is in order, bounded and without repetition, and
  no event that still exists can have its ID given away.
- `ReloadFaithful`: as long as no append failed, a restart loses nothing.
- `FollowerSkipsNothing`: a client that follows, with any limit, skips nothing
  that is in the buffer. The limit in `hEvents` cuts the *newest*; that is what
  makes following with a limit work, and what makes it useless for its caller,
  the dashboard (see [findings](#12-findings)).

## 11. Firewall

**State** is the configuration, in five parts; each action sets one of them,
after which the ruleset is generated anew. The module is mostly operators:
`ForwardChain`, `InputChain`, `Translating` and `Masqueraded` are what `Generate`
writes, rule by rule in its order; `Verdicts` is netfilter, external to the
repository. A chain is a sequence of blocks: one for each item of a list (the
rule it yields, or none if it is disabled or has no such grant), and one for the
rules that are written in the order of a Go map, of which any matching one may
come first. Prefixes are sets of networks, and a service stands for protocol and
port.

**Run** `firewall` (13 200 configurations): two WANs, one of which may be
disabled; up to three networks in three zones with every combination of their
flags; a tunnel in its own zone or among the guests; all pairs of two different
ones of seven rules that overlap, among them one from a WAN, one to a zone that
does not exist, a disabled and a logging one; a port forward.

- `WanClosed`: nothing that a WAN initiates is forwarded, and the router itself
  answers it only DHCP replies, ICMPv6 and tunnels.
- `RulesDecide`: of the user's rules the first that is about a packet decides,
  and no policy of zones comes before it. `Covering` are the positions of the
  rules about it, since a list may hold one rule twice.
- `CrossesByGrant`: a packet goes from zone to zone, or out, only if a rule, a
  tunnel or a flag of a network says so.
- `InternetWorks`: a network with Internet access has it at every enabled WAN,
  from DHCP and DNS to the translated address and the answers. `Validate` refuses
  neither a network on the interface of a WAN nor one in the zone `WAN`; such a
  network is outside, which is why this property and `RulesDecide` except it.
- `SetsDeclared`: every set that a rule refers to is declared, also after the
  networks of its zone are gone. The property names the one exception.

All properties are about one packet under one configuration, so the behaviours
matter only as a way to reach every configuration. `firewall_forwards` is a
violation, see below.

## 12. Findings

Each is a run in which TLC finds a behaviour of the code that the documentation
excludes. `PROJECT.json` quotes the sentences.

| Run | What happens |
|---|---|
| `commit_unconfirmed` | `hTxnApply` records as base what is pending in another's window (even when it is then refused); rolling the transaction back later commits that, after the window has expired |
| `firewall_forwards` | a port forward translates a packet, and the forward chain then drops it, because everything new from a WAN is dropped before any rule could accept it (`ruleset.go` 131) |

The models contain further behaviours that a reader may not expect, without a
run of their own.

Commits and edits:

- two handlers sync the DHCP clients in the opposite order of their changes, and
  nothing syncs again, although `server.go` 53 speaks of clients that follow the
  effective configuration (660);
- a callback that took an expired window applies the committed configuration it
  read before a newer one was saved; drift repair heals the kernel at its next
  tick (`server.go` 683-685);
- a window replaced by its own transaction can be taken by the old window's
  callback, with all its time left; two applies can both pass the check for a
  pending commit, and the later window replaces the earlier (602, 629, 677);
- while a window is open a PATCH or DELETE changes the pending slices before
  they are validated, so that a change that was refused, or an invalid one, is
  confirmed with the window (499, 590);
- concurrent edits of different items: the later save wins, with the list it had
  read; neither `hNetworkAdd`'s identifiers nor those of port forwards are
  checked by `Validate`, nor is the overlap of a WAN's and a network's interface.

Files:

- a save fails at `config.json`; the retry finds the configuration active in
  memory, and reports success without writing (`store.go` 215);
- a crash between `config.json` and `revisions.json` leaves metadata of an
  earlier revision, one inside the write of `revisions.json` an empty history
  and numbering from 1;
- the process dies, or the ignored write fails, between the creation of the
  account and `initial-admin-password`: nobody knows the password, and the next
  start generates none (`server.go` 108);
- a failing save in `SetPassword`, `RevokeToken` or `CreateToken` leaves the
  change in memory though it was answered with an error; `hPassword` leaves a
  session behind at each change;
- the limit of `GET /events` keeps the oldest, although the comment beside it
  says "keep the newest events" (`server.go` 1140), and the dashboard asks for
  the last eight in this way;
- an event whose append was lost gives its ID to another after a restart, and a
  follower skips that one; a torn line takes the next one with it.

DHCP and engine:

- a cancelled client returns after its successor has got a lease, and removes
  that lease from the registry (`manager.go` 33);
- a packet that does not parse makes `recvUntil` return neither packet nor
  error, and its callers dereference nil (`client.go` 311);
- a NAK is treated like silence (`client.go` 207); a client cancelled while it
  rebinds sends no RELEASE; one cancelled while it backs off releases a lease it
  no longer has; the daemon exits without waiting for its clients;
- T2 is not clamped to the lease; `leaseSec*7` overflows for very long leases;
  the MAC is read once, so a client started before its interface never sends;
- routes added by an apply that then fails are in no provenance, and stay when
  they are no longer wanted (`src/README.md` 153-154 promises removal);
- a managed route without a gateway is removed by `ip route del DST dev DEV`,
  which also matches a route of somebody else through a gateway on that device
  (`engine.go` 284-291);
- dnsmasq is not restarted by a later pass when its file was written and the
  restart failed (`engine.go` 348, 366);
- a route that existed before routerd and equals a desired one becomes
  routerd's, and is removed later like one (`engine.go` 558).

Firewall:

- the input chain accepts only ping, ICMPv6, DNS and DHCP from inside, so that
  the web interface on 8443 is not reachable from the LAN;
- the text is written in the order of two Go maps (`ruleset.go` 147-154), so its
  hash changes without a change of the configuration, and the ruleset is loaded
  again at the next reconciliation, although the package calls itself
  deterministic;
- grants are per zone: a tunnel, or one network's flag, opens its whole zone;
  `internet_access: false` has no effect on forwarding for a network that may
  access the LAN or is in a trusted zone, whose packets leave untranslated;
- a log rule drops ten packets a second and lets the others fall through; ports
  of a rule with protocol `any` are ignored; a disabled WAN counts as inside in
  the input chain; `wan_public` is never filled, so that hairpin translation
  never matches; `lan_ifaces` is undeclared when access to the LAN is granted
  and no zone LAN exists.

## 13. Proofs

Each `_proofs` module extends the module it is about, and that of `Dhcp4Client`
extends `Dhcp4Manager` too. What it proves holds for
every value of the constants that satisfies the assumptions named in that module;
TLC evaluates those assumptions in every run. Every inductive invariant was
checked by TLC on a small instance before it was proved.

| Module | From | Theorems |
|---|---|---|
| `ConfirmedCommit_proofs` | `NullAssumption`, `BoundAssumption` | `TypeCorrect`, `AlwaysArmed`, `EndsOnce`, `CommitsOwn` |
| `Store_proofs` | `StoreAssumption` | `StoreTypeCorrect`, `AcknowledgedDurable`, `HistoryConsecutive`, `RestoresFaithful` |
| `Dhcp4Client_proofs` | `ClientAssumption` | `ClientTypeCorrect`, `SocketsClosed`, `OnSchedule`, `NotPastExpiry`, `KeptUntilT2`, `ImplementsManagedClient`; of `Dhcp4Manager`, without assumptions: `AtMostOneClient`, `NoOrphanLease` |
| `ConfigEdit_proofs` | `ConfigEditAssumption` | `SlicesTyped`, `WorksOnOwnCopy`, `OnlyValidated`, `ChangesOneItem` |
| `Engine_proofs` | `EngineAssumption` | `KernelStaysOne`, `OthersRoutesKept`, `VerifyIsSound`; without assumptions: `BuildIsDesired` |
| `Auth_proofs` | `AuthAssumption` | `RevokedForGood`, `IssuedAccepted`, `PasswordInForce`, `RawOnlyWhileCreating` |
| `EventLog_proofs` | `EventLogAssumption` | `LogTypeCorrect`, `ServedNewestFirst`, `RestartLosesNothing`, `NoEventSkipped` |
| `Firewall_proofs` | `FirewallAssumption` | `NothingFromTheWan`, `FirstRuleDecides`, `GrantedCrossing`, `InternetForAll`, `ScriptLoads` |

The assumptions say that zero values are none of the real ones, that bounds are
natural numbers, and little else: a store retains at least one revision and has a
default configuration; the times a DHCP server sends are numbers below `2^Width`
and a timeout is not zero; `Firewall`'s lists are lists of the four kinds of
item, and the services it names exist; `ConfigEdit` has finitely many requests; what `Engine` is given is described in
section 8.

**ConfirmedCommit.** `TypeOK` is not inductive, because a handler may copy `next`
or `base` into `committed`, `live` or `wans`, and both start as nil: one has to
know at which labels they have been assigned. `WindowArmed` is not, because
`StopTaken` stops a timer outside the lock: one has to know that the window it
stops is not the one that is open *now*. `TxnCommitConfirmsOwn` is not, because
the token is compared later than it was read. The inductive invariant `IInv` is
`TypeOK`, `SharedOK` (pending, drafts and targets are real configurations; a
token is unused, open or ended, and the open one is that of `pend`) and
`LocalsOK`, the conjunction over requests of `LocalOK`: which locals are
assigned at which label, that the window a rollback took is not open again, and
that the token `hTxnCommit` holds belongs to no window but its transaction's.
The argument that a step keeps `IInv` has two halves. `Stable` is what every
step grants to the goroutines it does not move: used tokens stay used, a window
that opens has a fresh token, a draft stays a configuration. `Keeps` shows
`LocalOK` stable under that, so `OneMoves` and `NoneMoves` reduce each action to
the shared part and the one request it moves. Then there is one lemma per action.

**Store.** A revision is named by a number that is used again after the index
was lost, and a backup outlives its entry; so `RevisionFaithful`, which is about
what is listed, needs to know where the next number lies. `NumbersOK` bounds the
numbers by the saves made, `IndexBehind` says that the index on disk lists no
number above the newest in memory, so that a new backup never overwrites one that
the index on disk names, and `BackupsFaithful` is the property for the list in
memory. `Durable` needs `AgreeOK`: without failed writes memory and `config.json`
agree at every step but the one before a save is acknowledged. `PhaseOK` says
which locals of `Open` and `Save` are set at which step. The lemmas `Pushed` and
`Dropped` say what adding and retiring an entry do to a list of consecutive
numbers.

**Dhcp4Manager.** Its theorems stand at the end of `Dhcp4Client_proofs`, for any
interfaces, beside the proof that the client implements it for one. The inductive
invariant `DaemonIInv` is `ManagerTypeOK /\ OneClient /\ LeaseHasHolder`; there is one lemma for what cancelling does (`CancelKeeps`,
shared by `Sync`, `Release` and `Shutdown`), one for what a client's step does,
and the case split over `ManagerNext`. That a started client is a fresh one is what
`OneClient` rests on, that every path into `acquire` or `done` goes through
`Registry.Remove` is what `LeaseHasHolder` rests on.

**Dhcp4Client.** The schedule is about when a wait was begun, of which the state
keeps only what is left of it. `ScheduleOK` therefore says at which age of the
lease each wait ends (`age + wait`), and in which part of the lease each attempt
to renew began. `ExpiryOK` counts the attempts that may still be under way after
the end of the lease: each takes a timeout, and one that begins after the end
drops the lease. `SocketOK` ties the transport to the points at which packets are
exchanged, `RegOK` the registry to the state of the client. `AckTimes` shows, with
the wrap-around of `uint32`, that what `LeaseFromAck` computes are times at all;
nothing about their order holds, and the theorems need none.
`ImplementsManagedClient` is `Spec => IsManagedClient`: one lemma for each action
of the manager that a step of the client is (`StartRefines`, `AcquireRefines`,
`LoseRefines` and so on), and `StaysRefines` for the steps that the manager does
not see. It covers the whole of `Dhcp4Manager`'s `SafeSpec`; fairness is not part
of that.

**ConfigEdit.** What a slice holds depends on who else writes to its array, so
the types come first: `HeapOK` says that every held slice lies within its array
and is filled with items. `Moved`, `Collected`, `Allocated` and `Rewritten` say
what a step that moves references, lets arrays go, allocates one or writes to one
does to the content of every held slice; `FreshFree` counts the references, of
which there are fewer than arrays, so that `append` always finds a free one.
`EditsOwnCopy` is what lets `Rewritten` leave all other slices alone. `Sound` is
`SoundUnlessShared`, and that a request past `Validate` holds a valid list;
`OneEdit` that a request nobody overtook holds the committed list with at most one
item changed, from which `EditsOneItem` follows when it is saved. `SlicesTyped`
proves the module's `TypeOK`, which no run checks.

**Auth.** `RevocationFinal` and `IssuedWorks` are about numbers of tokens, so
`NumbersOK` says that what has been numbered is not given out again.
`CreateToken` saves twice; `HolderOK` says that at most one request is between the
two, and that its token is in memory and on disk by then, so that a failing second
save does not lose it. `SetPassword`, `RevokeToken` and the saves that fail are
where memory and disk differ; `PasswordKept` and `RevocationFinal` are stated for
both, which makes them hold across a restart. The `TypeOK` of `Auth`, which no run
checks, is part of the invariant.

**EventLog.** The buffer is judged by what a restart would make of the file, and
the file by what `Parsed` reads of it. `ParsedAppend` and `ParsedFacts` say what
one more line adds and which records are read, `LastLine` what replacing the last
line does, and `Written` sums up an append with every way in which it can fail:
the whole lines stay, and what can be read grows by the new record, stays, or
loses its newest (`Grows`). None of the three properties is inductive. That IDs
fall also on disk (`EventsOK`) is needed for the sequence number after a restart
to exceed them all. `ReloadFaithful` follows because cutting the buffer before a
push changes nothing (`KeptTwice`). For `FollowerSkipsNothing` one has to know when
an ID is given again: `KnownOK` says that every ID up to any that the daemon, the
file or the client has is in a whole line or may be lost, so that a new event with
an ID that the client is past is one of a lost line; and `FollowOK` that an event
which a restart would bring back is as far from the end of the buffer as in the
file, or has left it, so that what is told of the buffer holds after the restart
too. `Newest` and `LimitedFacts` say that a limited answer leaves no gap between
the last event asked after and the newest returned. `LogTypeCorrect` proves the
module's `TypeOK`, which no run checks.

**Firewall.** The state is the configuration and `Typed` is all the invariant it
needs; the proofs are about the chains. `ForwardBlocks` and `InputBlocks` say
which block stands at which position, for lists of any length; `Decides` says that
the verdict is that of the least block which decides (there is one, because a set
of positions has a least element), and each theorem finds that block. Positions
are compared by the lengths of the lists before them, which is the whole content
of "the order of the rules gives the policy".

**Engine.** A plan is made of a snapshot and carried out on a kernel that others
have changed since; so nothing can be concluded from the kernel a command was
planned for, only from what the command may be. `OpsOK` says that the commands
left are a *plan* (`Planned`, `Fit`): of known verbs, creating links, installing
routes of the desired state, removing routes that some Apply was asked for. The
planners are shown to make such plans (`PlanLinksFits` to `PlanRestFits`), for
which one has to know what filtering and flattening do to any list: `Computed`
and `Climb` show, from the well-foundedness of the naturals, that a function
defined along a list exists and what it is, and `Selected`, `Flattening` and
`FlattenedEmpty` follow. Each command then keeps the kernel one, whatever it meets
(`ResultsKeep`, with a lemma per command; `DeleteGood` for a device with the
VLANs on it), and loses routes only for the reasons that `Lost` lists; that gives
`KernelStaysOne` and `OthersRoutesKept`.

`VerifyIsSound` has two parts. An empty plan means that there is nothing to do:
`PlanLinksNone` to `PlanQoSNone` turn each planner's empty list into what it says
of the kernel. What the planners do not look at is whether the service has read
its file: `Serving` is a second inductive invariant, that as long as no command
was lost, the service has read the file, or the next commands left restart it and
cannot be refused (`RestartAt`), and that in every plan a restart follows the
writing of the file (`Restarts`). Others may restart the service or take
devices away in the middle of it.

`BuildIsDesired` is about `DesiredState`: of every configuration that is typed and
whose networks have a subnet (`IsConfig`), with any leases, `BuildWith` makes what
`EngineAssumption` says of a target. `FlattenedRange` and `FlatMapList` say which
elements a flattened list has; `DistinctNames` that `add` drops links but no name,
since the first of several is kept; `NetworkProper` that a network without a link
of its own is on the interface of a WAN, which has one; and `Placed` that a list
of addresses and a list of interfaces are about the same devices, so that a device
whose other addresses are removed keeps one.

**Only model-checked.** `WindowEnds`, both `Converges`, `Cleared`, `Stops` and
`Acquires` need fairness, which is out of the prover's reach.

## 14. What is not modelled

- Loss of power. `config.SaveFile` syncs neither the file nor the directory, so
  a rename may survive without its contents; the model's crash is the death of
  the process, after which the system's buffers are intact.
- The SIGTERM path of `main`, flag parsing, and seeding from a file.
- The panic of `hRollback` without a window (`p` is nil at line 737): it happens
  after the apply and is recovered by the middleware; the model has the apply,
  and the sync that is not reached.
- In the engine: routes in other tables than main, link-local addresses, MTUs
  (never set by `BuildWith`), the substring comparison of qdiscs, and the parsing
  of command output: the observed state is taken to be the state.
- The bytes of DHCP packets, and the sockets behind a transport.
- Device aliases: `devices.json` is one map, written in place; only its torn
  write could be asked about, and `Store` has that case for the other files.
- The monitor: samples of counters from `/proc` and `/sys`, and rates as
  differences over floating-point time.
- The text of the dnsmasq, tc and WireGuard files, as opposed to when they are
  written, which `Engine` has.
- `Validate` beyond the clauses that `ConfigEdit` and `Firewall` use: most are
  syntax of addresses and names.
- Everything marked "next" or later in the plan.
- Text: log lines, HTTP bodies; the web interface and `routerctl`, which keep no
  state of the system.
