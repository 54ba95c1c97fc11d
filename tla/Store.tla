-------------------------------- MODULE Store --------------------------------
(***************************************************************************)
(* The revisioned configuration store (router/internal/store/store.go):    *)
(* the active configuration, its revision history, and the three kinds of  *)
(* files behind them:                                                      *)
(*                                                                         *)
(*    config.json              written to a temporary file and renamed     *)
(*    backups/rev-NNNNNN.json  written in place                            *)
(*    revisions.json           written in place, errors ignored            *)
(*                                                                         *)
(* Save holds Store.mu throughout, so only a crash of the process or a     *)
(* failing write comes between its steps.                                  *)
(***************************************************************************)
EXTENDS Naturals, Sequences

CONSTANTS
    Configs,       \* configurations, as sameConfig compares them
    Default,       \* config.Default()
    NoCfg,         \* no such file
    Torn,          \* a file that is not the JSON of a configuration
    MaxRevisions,  \* revisions retained (64 in the code)
    MaxSaves,      \* bound: calls of Save
    MaxErrors,     \* bound: failing writes
    MaxCrashes     \* bound: crashes of the process

ASSUME StoreAssumption ==
    /\ Default \in Configs
    /\ NoCfg \notin Configs /\ Torn \notin Configs /\ NoCfg # Torn
    /\ MaxRevisions \in Nat \ {0}
    /\ MaxSaves \in Nat /\ MaxErrors \in Nat /\ MaxCrashes \in Nat

VARIABLES
    pc,       \* progress of Open or Save; "down" when there is no process
    arg,      \* the configuration Save was called with
    active,   \* Store.active
    revs,     \* Store.revs, newest first
    revData,  \* Store.revData
    config,   \* config.json
    backups,  \* backups/, by revision number
    index,    \* revisions.json
    acked,    \* history: the configuration last served or acknowledged
    saves, errors, crashes   \* counters against the bounds

disk == <<config, backups, index>>
memory == <<active, revs, revData>>
vars == <<pc, arg, active, revs, revData, config, backups, index, acked, saves, errors,
          crashes>>

\* Numbers never exceed the saves that were started, plus the seed.
Revs == 1..(MaxSaves + 1)
Content == Configs \cup {NoCfg, Torn}

\* type RevMeta; cfg is history: what was saved under the number.
RevMeta == [rev : Revs, cfg : Configs]

\* revisions.json: "absent", "torn", or the list in it.
NoIndex == [st |-> "absent", list |-> <<>>]
TornIndex == [st |-> "torn", list |-> <<>>]
IndexOf(list) == [st |-> "ok", list |-> list]

NoFiles == [n \in Revs |-> NoCfg]

Init ==
    /\ pc = "down"
    /\ arg = NoCfg
    /\ active = NoCfg /\ revs = <<>> /\ revData = NoFiles
    /\ config = NoCfg /\ backups = NoFiles /\ index = NoIndex
    /\ acked = NoCfg
    /\ saves = 0 /\ errors = 0 /\ crashes = 0

-----------------------------------------------------------------------------
(* Writing files *)

Fails == errors < MaxErrors /\ errors' = errors + 1
Works == UNCHANGED errors

\* os.WriteFile truncates, then writes: a failure leaves the old file or a torn
\* one, and so does a crash.
WriteFails(old) == {old, Torn}
IndexWriteFails == {index, TornIndex}

\* Mutant: config.json written in place.
SaveFileInPlace == {config, Torn}

\* config.SaveFile: a failure, or a crash before the rename, leaves the old file.
SaveFileFails == {config}

-----------------------------------------------------------------------------
(* Open *)

\* loadConfig without config.json: the default configuration, and a seed entry.
OpenNew ==
    /\ pc = "down"
    /\ config = NoCfg
    /\ \/ /\ Works
          /\ config' = Default
          /\ active' = Default /\ acked' = Default
          /\ revs' = <<[rev |-> 1, cfg |-> Default]>>
          /\ pc' = IF index.st = "absent" THEN "seed" ELSE "load"
       \/ /\ Fails                    \* Open returns the error, routerd exits
          /\ config' \in SaveFileFails
          /\ UNCHANGED <<pc, active, acked, revs>>
    /\ UNCHANGED <<arg, revData, backups, index, saves, crashes>>

\* loadConfig
OpenExisting ==
    /\ pc = "down"
    /\ config \in Configs
    /\ active' = config /\ acked' = config
    /\ pc' = "load"
    /\ arg' = NoCfg
    /\ UNCHANGED <<revs, revData, config, backups, index, saves, errors, crashes>>

\* loadIndex: without a readable list the history is empty; of the revisions
\* listed, those with a file are loaded, whatever is in it.
LoadIndex ==
    /\ pc = "load"
    /\ revs' = index.list
    /\ revData' = [n \in Revs |->
                     IF \E i \in 1..Len(index.list) : index.list[i].rev = n
                     THEN backups[n] ELSE NoCfg]
    /\ pc' = "idle"
    /\ UNCHANGED <<arg, active, config, backups, index, acked, saves, errors, crashes>>

\* loadIndex on a fresh store: appendRevision(1, ...), its error ignored; of
\* the seed entry and the one appended, the first is kept.
SeedBackup ==
    /\ pc = "seed"
    /\ \/ /\ Works
          /\ backups' = [backups EXCEPT ![1] = active]
          /\ revData' = [revData EXCEPT ![1] = active]
       \/ /\ Fails
          /\ \E f \in WriteFails(backups[1]) : backups' = [backups EXCEPT ![1] = f]
          /\ UNCHANGED revData
    /\ pc' = "seedindex"
    /\ UNCHANGED <<arg, active, revs, config, index, acked, saves, crashes>>

\* ... and saveIndex.
SeedIndex ==
    /\ pc = "seedindex"
    /\ \/ Works /\ index' = IndexOf(revs)
       \/ Fails /\ index' \in IndexWriteFails
    /\ pc' = "idle"
    /\ UNCHANGED <<arg, active, revs, revData, config, backups, acked, saves, crashes>>

-----------------------------------------------------------------------------
(* Save *)

\* An identical configuration is a no-op that reports success.
SaveSame(c) ==
    /\ pc = "idle"
    /\ saves < MaxSaves
    /\ c = active
    /\ saves' = saves + 1
    /\ acked' = c
    /\ UNCHANGED <<pc, arg, active, revs, revData, config, backups, index, errors, crashes>>

\* Mutant: Save answers before it has written anything.
SaveNewAsync(c) ==
    /\ pc = "idle"
    /\ saves < MaxSaves
    /\ c # active
    /\ saves' = saves + 1
    /\ arg' = c
    /\ acked' = c
    /\ pc' = "backup"
    /\ UNCHANGED <<active, revs, revData, config, backups, index, errors, crashes>>

SaveNew(c) ==
    /\ pc = "idle"
    /\ saves < MaxSaves
    /\ c # active
    /\ saves' = saves + 1
    /\ arg' = c
    /\ pc' = "backup"
    /\ UNCHANGED <<active, revs, revData, config, backups, index, acked, errors, crashes>>

\* Restore: Revision(rev), when the number is listed and its data is readable,
\* saved again.
Restore(n) ==
    /\ \E i \in 1..Len(revs) : revs[i].rev = n
    /\ revData[n] \in Configs
    /\ SaveSame(revData[n]) \/ SaveNew(revData[n])

\* Mutants: numbering by the length of the history, or from its wrong end.
nextRevByLength == Len(revs) + 1
nextRevOldest == IF revs = <<>> THEN 1 ELSE revs[Len(revs)].rev + 1

nextRev == IF revs = <<>> THEN 1 ELSE revs[1].rev + 1

\* appendRevision: the backup file, then the entry; an error ends Save.
AppendRevision ==
    /\ pc = "backup"
    /\ \/ /\ Works
          /\ backups' = [backups EXCEPT ![nextRev] = arg]
          /\ revData' = [revData EXCEPT ![nextRev] = arg]
          /\ revs' = <<[rev |-> nextRev, cfg |-> arg]>> \o revs
          /\ pc' = IF Len(revs) >= MaxRevisions THEN "retain" ELSE "active"
          /\ UNCHANGED arg
       \/ /\ Fails
          /\ \E f \in WriteFails(backups[nextRev]) :
               backups' = [backups EXCEPT ![nextRev] = f]
          /\ pc' = "idle" /\ arg' = NoCfg
          /\ UNCHANGED <<revData, revs>>
    /\ UNCHANGED <<active, config, index, acked, saves, crashes>>

\* Retention: the oldest entry and its file go; an error of Remove is ignored.
Retain ==
    /\ pc = "retain"
    /\ LET oldest == revs[Len(revs)].rev
       IN /\ \/ Works /\ backups' = [backups EXCEPT ![oldest] = NoCfg]
             \/ Fails /\ UNCHANGED backups
          /\ revData' = [revData EXCEPT ![oldest] = NoCfg]
    /\ revs' = SubSeq(revs, 1, Len(revs) - 1)
    /\ pc' = "active"
    /\ UNCHANGED <<arg, active, config, index, acked, saves, crashes>>

\* s.active = c; s.writeActive(): an error ends Save, with c active in memory.
WriteActive ==
    /\ pc = "active"
    /\ active' = arg
    /\ \/ Works /\ config' = arg /\ pc' = "index" /\ UNCHANGED arg
       \/ Fails /\ config' \in SaveFileFails /\ pc' = "idle" /\ arg' = NoCfg
    /\ UNCHANGED <<revs, revData, backups, index, acked, saves, crashes>>

\* s.saveIndex(), its error ignored; Save returns nil.
SaveIndex ==
    /\ pc = "index"
    /\ \/ Works /\ index' = IndexOf(revs)
       \/ Fails /\ index' \in IndexWriteFails
    /\ acked' = arg
    /\ pc' = "idle" /\ arg' = NoCfg
    /\ UNCHANGED <<active, revs, revData, config, backups, saves, crashes>>

-----------------------------------------------------------------------------

\* The process dies at any point, possibly in the middle of a write.
Crash ==
    /\ pc # "down"
    /\ crashes < MaxCrashes
    /\ crashes' = crashes + 1
    /\ pc' = "down"
    /\ config' \in IF pc = "active" THEN SaveFileFails ELSE {config}
    /\ index' \in IF pc \in {"index", "seedindex"} THEN IndexWriteFails ELSE {index}
    /\ \/ /\ pc \in {"backup", "seed"}
          /\ LET n == IF pc = "seed" THEN 1 ELSE nextRev
             IN \E f \in WriteFails(backups[n]) : backups' = [backups EXCEPT ![n] = f]
       \/ pc \notin {"backup", "seed"} /\ UNCHANGED backups
    /\ active' = NoCfg /\ revs' = <<>> /\ revData' = NoFiles
    /\ UNCHANGED <<arg, acked, saves, errors>>

Next ==
    \/ OpenNew \/ OpenExisting \/ LoadIndex \/ SeedBackup \/ SeedIndex
    \/ \E c \in Configs : SaveSame(c) \/ SaveNew(c)
    \/ \E n \in Revs : Restore(n)
    \/ AppendRevision \/ Retain \/ WriteActive \/ SaveIndex
    \/ Crash

Spec == Init /\ [][Next]_vars

-----------------------------------------------------------------------------
(* Properties *)

PCs == {"down", "load", "seed", "seedindex", "idle", "backup", "retain", "active", "index"}

\* Every variable holds a value of its type.  config.json is never torn, so
\* Open never refuses to start.
TypeOK ==
    /\ pc \in PCs
    /\ arg \in Configs \cup {NoCfg}
    /\ active \in Configs \cup {NoCfg} /\ acked \in Configs \cup {NoCfg}
    /\ config \in Configs \cup {NoCfg}
    /\ revs \in Seq(RevMeta)
    /\ revData \in [Revs -> Content] /\ backups \in [Revs -> Content]
    /\ index \in [st : {"absent", "torn", "ok"}, list : Seq(RevMeta)]
    /\ saves \in 0..MaxSaves /\ errors \in 0..MaxErrors /\ crashes \in 0..MaxCrashes

\* Without failing writes, wherever the process dies, config.json holds the
\* configuration last acknowledged, or the one whose Save it interrupted.
Durable == errors = 0 => config = acked \/ (config = arg /\ arg # NoCfg)

\* The history is a run of consecutive numbers, newest first, and no longer
\* than MaxRevisions: a number names one revision only (Revision takes the last
\* entry that matches, Save numbers from the first).
Consecutive(list) == \A i \in 1..Len(list) : list[i].rev + i = list[1].rev + 1
HistoryShape ==
    /\ Consecutive(revs) /\ Consecutive(index.list)
    /\ pc # "retain" => Len(revs) <= MaxRevisions
    /\ Len(index.list) <= MaxRevisions

\* A revision that is listed, in memory or on disk, and can be read is the
\* configuration that was saved under its number: crashes, failed writes, a
\* lost index and retention never make a restore bring back another one.
RevisionFaithful ==
    /\ \A i \in 1..Len(revs) :
         revData[revs[i].rev] \in Configs => revData[revs[i].rev] = revs[i].cfg
    /\ \A i \in 1..Len(index.list) :
         backups[index.list[i].rev] \in Configs
           => backups[index.list[i].rev] = index.list[i].cfg

=============================================================================
