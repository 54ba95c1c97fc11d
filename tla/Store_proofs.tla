---------------------------- MODULE Store_proofs ----------------------------
(***************************************************************************)
(* What is proved of Store for any set of configurations, any number of    *)
(* retained revisions, and any number of saves, failing writes and crashes *)
(* at any point.                                                           *)
(***************************************************************************)
EXTENDS Store, SequenceTheorems, TLAPS

Loaded == {"seed", "seedindex", "idle", "backup", "retain", "active", "index"}
Saving == {"backup", "retain", "active", "index"}

\* Where Open and Save are, and which of their values are set there.
PhaseOK ==
    /\ pc = "down" => revs = <<>> /\ revData = NoFiles
    /\ pc # "down" => active \in Configs /\ config \in Configs
    /\ pc \in Saving => arg \in Configs
    /\ config = NoCfg => backups = NoFiles /\ index = NoIndex
    /\ pc \in {"seed", "seedindex"} =>
          index = NoIndex /\ revs = <<[rev |-> 1, cfg |-> Default]>> /\ active = Default
    /\ pc = "seed" => backups = NoFiles
    /\ pc = "retain" => Len(revs) = MaxRevisions + 1
    /\ index.st # "ok" => index.list = <<>>

\* As long as no write has failed, memory and disk agree, and only the step
\* between config.json and the answer of Save is ahead of what was acknowledged.
AgreeOK ==
    errors = 0 =>
        /\ pc # "down" => active = config
        /\ pc \notin {"down", "index"} => acked = config
        /\ pc = "index" => arg = config

\* Numbers are below the bound of their type, a save under way included.
NumbersOK ==
    /\ revs # <<>> => revs[1].rev <= IF pc = "backup" THEN saves ELSE saves + 1
    /\ index.list # <<>> => index.list[1].rev <= saves + 1

\* What is in the index is in the history in memory or has left it: the next
\* number is not listed in the index.
IndexBehind ==
    pc \in Loaded /\ index.list # <<>> => revs # <<>> /\ index.list[1].rev <= revs[1].rev

\* What is listed in memory and readable on disk is what was saved.
BackupsFaithful ==
    \A i \in 1..Len(revs) :
        pc \in Loaded /\ backups[revs[i].rev] \in Configs => backups[revs[i].rev] = revs[i].cfg

IInv == /\ TypeOK /\ PhaseOK /\ AgreeOK /\ Durable
        /\ NumbersOK /\ HistoryShape /\ IndexBehind /\ BackupsFaithful /\ RevisionFaithful

-----------------------------------------------------------------------------
(* Lists of consecutive numbers *)

\* Every entry has a number.
LEMMA ListedNumbers ==
  ASSUME NEW l \in Seq(RevMeta)
  PROVE  \A i \in 1..Len(l) : l[i] \in RevMeta /\ l[i].rev \in Revs /\ l[i].cfg \in Configs
<1> SUFFICES ASSUME NEW i \in 1..Len(l)
             PROVE  l[i] \in RevMeta /\ l[i].rev \in Revs /\ l[i].cfg \in Configs
  OBVIOUS
<1>1. l[i] \in RevMeta
  BY ElementOfSeq
<1> QED
  BY <1>1 DEF RevMeta

\* A list that is not empty has a first number.
LEMMA FirstNumber ==
  ASSUME NEW l \in Seq(RevMeta), l # <<>>
  PROVE  /\ 1 \in 1..Len(l) /\ Len(l) \in Nat /\ l[1] \in RevMeta
         /\ l[1].rev \in Revs /\ l[1].rev \in Nat
<1>1. Len(l) \in Nat /\ 1 \in 1..Len(l)
  BY EmptySeq
<1>2. l[1].rev \in Revs /\ l[1] \in RevMeta
  BY <1>1, ListedNumbers
<1> QED
  BY <1>1, <1>2, StoreAssumption DEF Revs

\* The first number is the largest, and no other entry has it.
LEMMA FirstIsLargest ==
  ASSUME NEW l \in Seq(RevMeta), Consecutive(l), NEW i \in 1..Len(l)
  PROVE  /\ l[i] \in RevMeta /\ l[1] \in RevMeta
         /\ l[i].rev \in Nat /\ l[1].rev \in Nat
         /\ l[i].rev <= l[1].rev
<1>1. l[i] \in RevMeta /\ l[1] \in RevMeta
  BY ElementOfSeq
<1>2. l[i].rev \in Nat /\ l[1].rev \in Nat
  BY <1>1, StoreAssumption DEF RevMeta, Revs
<1> QED
  BY <1>1, <1>2 DEF Consecutive

\* appendRevision puts the next number in front.
LEMMA Pushed ==
  ASSUME NEW l \in Seq(RevMeta), Consecutive(l), NEW e \in RevMeta,
         e.rev = IF l = <<>> THEN 1 ELSE l[1].rev + 1
  PROVE  LET m == <<e>> \o l
         IN  /\ m \in Seq(RevMeta) /\ Len(m) = Len(l) + 1 /\ m # <<>> /\ m[1] = e
             /\ \A i \in 1..Len(m) : i > 1 => m[i] = l[i - 1] /\ i - 1 \in 1..Len(l)
             /\ Consecutive(m)
<1> DEFINE m == <<e>> \o l
<1>1. <<e>> \in Seq(RevMeta) /\ Len(<<e>>) = 1 /\ <<e>>[1] = e /\ Len(l) \in Nat
  BY LenProperties
<1>2. /\ m \in Seq(RevMeta) /\ Len(m) = Len(l) + 1
      /\ \A i \in 1..(Len(l) + 1) : m[i] = IF i <= 1 THEN <<e>>[i] ELSE l[i - 1]
  BY <1>1, ConcatProperties
<1>3. m[1] = e /\ m # <<>> /\ \A i \in 1..Len(m) : i > 1 => m[i] = l[i - 1] /\ i - 1 \in 1..Len(l)
  BY <1>1, <1>2
<1>4. e.rev \in Nat
  BY StoreAssumption DEF RevMeta, Revs
<1> HIDE DEF m
<1>5. Consecutive(m)
  <2> SUFFICES ASSUME NEW i \in 1..Len(m) PROVE m[i].rev + i = m[1].rev + 1
    BY DEF Consecutive
  <2>1. CASE i = 1
    BY <1>3, <1>4, <2>1
  <2>2. CASE i > 1
    <3>1. m[i] = l[i - 1] /\ i - 1 \in 1..Len(l) /\ l # <<>>
      BY <1>2, <1>3, <2>2
    <3>2. l[i - 1].rev + (i - 1) = l[1].rev + 1 /\ l[i - 1].rev \in Nat /\ l[1].rev \in Nat
      BY <3>1, FirstIsLargest DEF Consecutive
    <3>3. e.rev = l[1].rev + 1
      BY <3>1
    <3>4. l[i - 1].rev + i = l[1].rev + 2
      <4> DEFINE a == l[i - 1].rev
                 b == l[1].rev
      <4>1. a \in Nat /\ b \in Nat /\ i \in Int /\ a + (i - 1) = b + 1
        BY <1>1, <1>2, <3>2
      <4> HIDE DEF a, b
      <4>2. a + i = b + 2
        BY <4>1
      <4> QED
        BY <4>2 DEF a, b
    <3>5. e.rev + 1 = l[1].rev + 2
      BY <3>2, <3>3
    <3> QED
      BY <1>3, <3>1, <3>4, <3>5
  <2> QED
    BY <1>2, <2>1, <2>2
<1> QED
  BY <1>2, <1>3, <1>5 DEF m

\* Retention drops the last entry.
LEMMA Dropped ==
  ASSUME NEW l \in Seq(RevMeta), Consecutive(l), Len(l) > 1
  PROVE  LET m == SubSeq(l, 1, Len(l) - 1)
         IN  /\ m \in Seq(RevMeta) /\ Len(m) = Len(l) - 1 /\ m # <<>> /\ m[1] = l[1]
             /\ \A i \in 1..Len(m) : m[i] = l[i] /\ i \in 1..Len(l)
             /\ Consecutive(m)
<1> DEFINE m == SubSeq(l, 1, Len(l) - 1)
<1>1. Len(l) \in Nat
  BY LenProperties
<1>2. \A i \in 1..(Len(l) - 1) : l[i] \in RevMeta
  BY <1>1, ElementOfSeq
<1>3. /\ m \in Seq(RevMeta) /\ Len(m) = Len(l) - 1
      /\ \A i \in 1..(Len(l) - 1) : m[i] = l[i]
  BY <1>1, <1>2, SubSeqProperties
<1> HIDE DEF m
<1>4. m # <<>> /\ m[1] = l[1] /\ \A i \in 1..Len(m) : m[i] = l[i] /\ i \in 1..Len(l)
  BY <1>1, <1>3
<1>5. Consecutive(m)
  BY <1>4 DEF Consecutive
<1> QED
  BY <1>3, <1>4, <1>5 DEF m

-----------------------------------------------------------------------------
(* The invariant *)

\* Initially there are no files.
LEMMA InitIInv == Init => IInv
<1> SUFFICES ASSUME Init PROVE IInv
  OBVIOUS
<1>1. NoFiles \in [Revs -> Content]
  BY DEF NoFiles, Content
<1>2. TypeOK
  BY <1>1, StoreAssumption DEF Init, TypeOK, PCs, NoIndex
<1>3. PhaseOK /\ AgreeOK /\ Durable
  BY DEF Init, PhaseOK, AgreeOK, Durable, NoIndex, Saving
<1>4. NumbersOK /\ HistoryShape /\ IndexBehind /\ BackupsFaithful /\ RevisionFaithful
  BY StoreAssumption DEF Init, NumbersOK, HistoryShape, IndexBehind, BackupsFaithful,
     RevisionFaithful, Consecutive, NoIndex, Loaded
<1> QED
  BY <1>2, <1>3, <1>4 DEF IInv

\* The counters of failing writes, and files that are written in place.
LEMMA WriteTypes ==
  ASSUME TypeOK
  PROVE  /\ Fails \/ Works => errors' \in 0..MaxErrors
         /\ Fails => errors' # 0
         /\ NoCfg \notin Configs /\ Torn \notin Configs
         /\ \A n \in Revs : \A f \in WriteFails(backups[n]) :
               /\ [backups EXCEPT ![n] = f] \in [Revs -> Content]
               /\ \A m \in Revs : [backups EXCEPT ![n] = f][m] \in {backups[m], Torn}
         /\ \A x \in IndexWriteFails :
               /\ x \in [st : {"absent", "torn", "ok"}, list : Seq(RevMeta)]
               /\ x = index \/ (x.list = <<>> /\ x.st = "torn")
  BY StoreAssumption
     DEF Fails, Works, TypeOK, WriteFails, IndexWriteFails, TornIndex, Content

\* What is listed after files were damaged is what was listed before.
LEMMA DamageKeeps ==
  ASSUME IInv, RevisionFaithful, TypeOK', pc' \in PCs,
         UNCHANGED <<revs, revData>>,
         \A n \in Revs : backups'[n] \in {backups[n], Torn, NoCfg},
         index' = index \/ index'.list = <<>>,
         pc' \in Loaded => pc \in Loaded,
         pc # "retain", pc' # "retain"
  PROVE  HistoryShape' /\ IndexBehind' /\ BackupsFaithful' /\ RevisionFaithful'
<1> USE DEF IInv
<1>1. NoCfg \notin Configs /\ Torn \notin Configs
  BY StoreAssumption
<1>2. /\ \A i \in 1..Len(revs) : revs[i].rev \in Revs
      /\ \A i \in 1..Len(index.list) : index.list[i].rev \in Revs
  BY ListedNumbers DEF TypeOK
<1>3. HistoryShape'
  BY StoreAssumption DEF HistoryShape, Consecutive
<1>4. IndexBehind'
  BY DEF IndexBehind
<1>5. BackupsFaithful'
  BY <1>1, <1>2 DEF BackupsFaithful
<1>6. RevisionFaithful'
  BY <1>1, <1>2 DEF RevisionFaithful
<1> QED
  BY <1>3, <1>4, <1>5, <1>6

\* loadConfig without config.json.
LEMMA OpenNewKeeps ==
  ASSUME IInv, OpenNew
  PROVE  IInv'
<1> USE DEF IInv
<1>0. /\ pc = "down" /\ config = NoCfg /\ index = NoIndex /\ backups = NoFiles
      /\ index.list = <<>> /\ index.st = "absent" /\ revs = <<>> /\ revData = NoFiles
      /\ UNCHANGED <<arg, revData, backups, index, saves, crashes>>
  BY DEF OpenNew, PhaseOK, NoIndex
<1>1. CASE Works /\ config' = Default /\ active' = Default /\ acked' = Default
           /\ revs' = <<[rev |-> 1, cfg |-> Default]>> /\ pc' = "seed"
  <2>1. /\ revs' \in Seq(RevMeta) /\ Len(revs') = 1 /\ revs'[1] = [rev |-> 1, cfg |-> Default]
        /\ revs' # <<>>
    BY <1>1, StoreAssumption DEF RevMeta, Revs
  <2>2. TypeOK'
    BY <1>0, <1>1, <2>1, WriteTypes, StoreAssumption DEF TypeOK, PCs
  <2>3. PhaseOK' /\ AgreeOK' /\ Durable'
    BY <1>0, <1>1, StoreAssumption DEF PhaseOK, AgreeOK, Durable, Saving
  <2>4. NumbersOK' /\ IndexBehind' /\ HistoryShape'
    <3>1. saves' \in Nat /\ revs'[1].rev = 1
      BY <2>1, <2>2, StoreAssumption DEF TypeOK
    <3>2. \A i \in 1..Len(revs') : i = 1
      BY <2>1
    <3> QED
      BY <1>0, <1>1, <2>1, <3>1, <3>2, StoreAssumption
         DEF NumbersOK, IndexBehind, HistoryShape, Consecutive
  <2>5. BackupsFaithful' /\ RevisionFaithful'
    <3>1. \A n \in Revs : backups'[n] = NoCfg /\ revData'[n] = NoCfg
      BY <1>0 DEF NoFiles
    <3>2. \A i \in 1..Len(revs') : revs'[i].rev \in Revs
      BY <2>1, ElementOfSeq DEF RevMeta
    <3> QED
      BY <1>0, <1>1, <2>1, <3>1, <3>2, StoreAssumption DEF BackupsFaithful, RevisionFaithful
  <2> QED
    BY <2>2, <2>3, <2>4, <2>5
<1>2. CASE Fails /\ config' \in SaveFileFails /\ UNCHANGED <<pc, active, acked, revs>>
  <2>1. config' = config
    BY <1>2 DEF SaveFileFails
  <2>2. TypeOK' /\ errors' # 0
    BY <1>0, <1>2, <2>1, WriteTypes DEF TypeOK
  <2>3. PhaseOK' /\ AgreeOK' /\ Durable' /\ NumbersOK'
    BY <1>0, <1>2, <2>1, <2>2 DEF PhaseOK, AgreeOK, Durable, NumbersOK
  <2>4. HistoryShape' /\ IndexBehind' /\ BackupsFaithful' /\ RevisionFaithful'
    BY <1>0, <1>2 DEF HistoryShape, Consecutive, IndexBehind, BackupsFaithful, RevisionFaithful
  <2> QED
    BY <2>2, <2>3, <2>4
<1> QED
  BY <1>0, <1>1, <1>2 DEF OpenNew

\* loadConfig with config.json.
LEMMA OpenExistingKeeps ==
  ASSUME IInv, OpenExisting
  PROVE  IInv'
<1> USE DEF IInv
<1>1. /\ pc' = "load" /\ active' = config /\ acked' = config /\ arg' = NoCfg
      /\ pc = "down" /\ config \in Configs
      /\ UNCHANGED <<revs, revData, config, backups, index, saves, errors, crashes>>
  BY DEF OpenExisting
<1>2. TypeOK'
  BY <1>1 DEF TypeOK, PCs
<1>3. PhaseOK' /\ AgreeOK' /\ Durable' /\ NumbersOK'
  BY <1>1, StoreAssumption DEF PhaseOK, AgreeOK, Durable, NumbersOK, Saving
<1>4. HistoryShape' /\ IndexBehind' /\ BackupsFaithful' /\ RevisionFaithful'
  BY <1>1 DEF HistoryShape, Consecutive, IndexBehind, BackupsFaithful, RevisionFaithful, Loaded
<1> QED
  BY <1>2, <1>3, <1>4

\* loadIndex takes the list and the files from disk.
LEMMA LoadIndexKeeps ==
  ASSUME IInv, LoadIndex
  PROVE  IInv'
<1> USE DEF IInv
<1>1. /\ pc = "load" /\ pc' = "idle" /\ revs' = index.list
      /\ revData' = [n \in Revs |->
                        IF \E i \in 1..Len(index.list) : index.list[i].rev = n
                        THEN backups[n] ELSE NoCfg]
      /\ UNCHANGED <<arg, active, config, backups, index, acked, saves, errors, crashes>>
  BY DEF LoadIndex
<1>2. /\ index.list \in Seq(RevMeta) /\ backups \in [Revs -> Content]
      /\ \A i \in 1..Len(index.list) : index.list[i].rev \in Revs
  BY ListedNumbers DEF TypeOK
<1>3. revData' \in [Revs -> Content]
  BY <1>1, <1>2 DEF Content
<1>4. TypeOK'
  BY <1>1, <1>2, <1>3 DEF TypeOK, PCs
<1>5. PhaseOK' /\ AgreeOK' /\ Durable'
  BY <1>1, StoreAssumption DEF PhaseOK, AgreeOK, Durable, Saving
<1>6. NumbersOK' /\ HistoryShape'
  BY <1>1 DEF NumbersOK, HistoryShape, Consecutive
<1>7. IndexBehind'
  <2>1. index.list # <<>> => index.list[1].rev \in Nat
    BY <1>2, FirstNumber
  <2> QED
    BY <1>1, <2>1 DEF IndexBehind
<1>8. \A i \in 1..Len(revs') : revData'[revs'[i].rev] = backups[revs'[i].rev]
  BY <1>1, <1>2
<1>9. BackupsFaithful' /\ RevisionFaithful'
  BY <1>1, <1>8 DEF BackupsFaithful, RevisionFaithful
<1> QED
  BY <1>4, <1>5, <1>6, <1>7, <1>9

\* The seed revision, and the index with it.
LEMMA SeedKeeps ==
  ASSUME IInv, SeedBackup \/ SeedIndex
  PROVE  IInv'
<1> USE DEF IInv
<1>0. /\ pc \in {"seed", "seedindex"} /\ active = Default /\ 1 \in Revs
      /\ index = NoIndex /\ index.list = <<>> /\ revs = <<[rev |-> 1, cfg |-> Default]>>
      /\ Len(revs) = 1 /\ revs[1].rev = 1 /\ revs[1].cfg = Default /\ revs # <<>>
      /\ \A i \in 1..Len(revs) : i = 1
  <2>1. /\ pc \in {"seed", "seedindex"} /\ active = Default
        /\ index = NoIndex /\ revs = <<[rev |-> 1, cfg |-> Default]>>
    BY DEF SeedBackup, SeedIndex, PhaseOK
  <2>2. 1 \in Revs /\ NoIndex.list = <<>>
    BY StoreAssumption DEF Revs, NoIndex
  <2> QED
    BY <2>1, <2>2
<1>1. CASE SeedBackup
  <2>1. /\ pc = "seed" /\ pc' = "seedindex" /\ (Works \/ Fails)
        /\ UNCHANGED <<arg, active, revs, config, index, acked, saves, crashes>>
    BY <1>1 DEF SeedBackup
  <2>2. /\ backups' \in [Revs -> Content] /\ revData' \in [Revs -> Content]
        /\ backups'[1] \in {Default, NoCfg, Torn}
        /\ revData'[1] \in Configs => revData'[1] = Default
    <3>1. CASE /\ backups' = [backups EXCEPT ![1] = active]
               /\ revData' = [revData EXCEPT ![1] = active]
      BY <1>0, <3>1, StoreAssumption DEF TypeOK, Content
    <3>2. CASE /\ \E f \in WriteFails(backups[1]) : backups' = [backups EXCEPT ![1] = f]
               /\ UNCHANGED revData
      <4>1. backups[1] = NoCfg
        BY <1>0, <2>1 DEF PhaseOK, NoFiles
      <4>2. backups' \in [Revs -> Content] /\ backups'[1] \in {NoCfg, Torn}
        BY <1>0, <3>2, <4>1 DEF WriteFails, TypeOK, Content
      <4> QED
        BY <1>0, <3>2, <4>2 DEF TypeOK, RevisionFaithful
    <3> QED
      BY <1>1, <3>1, <3>2 DEF SeedBackup
  <2>3. TypeOK'
    BY <2>1, <2>2, WriteTypes DEF TypeOK, PCs
  <2>4. PhaseOK' /\ AgreeOK' /\ Durable' /\ NumbersOK'
    <3>1. errors' = 0 => errors = 0
      BY <2>1, StoreAssumption DEF Works, Fails, TypeOK
    <3> QED
      <4>1. config \in Configs /\ active \in Configs /\ config # NoCfg
        BY <2>1, StoreAssumption DEF PhaseOK
      <4>2. PhaseOK'
        BY <2>1, <4>1 DEF PhaseOK, Saving
      <4>3. AgreeOK' /\ Durable' /\ NumbersOK'
        BY <2>1, <3>1 DEF AgreeOK, Durable, NumbersOK
      <4> QED
        BY <4>2, <4>3
  <2>5. HistoryShape' /\ IndexBehind'
    BY <1>0, <2>1 DEF HistoryShape, Consecutive, IndexBehind, Loaded
  <2>6. BackupsFaithful' /\ RevisionFaithful'
    BY <1>0, <2>1, <2>2, StoreAssumption DEF BackupsFaithful, RevisionFaithful
  <2> QED
    BY <2>3, <2>4, <2>5, <2>6
<1>2. CASE SeedIndex
  <2>1. /\ pc = "seedindex" /\ pc' = "idle" /\ (Works \/ Fails)
        /\ index' = IndexOf(revs) \/ index' \in IndexWriteFails
        /\ UNCHANGED <<arg, active, revs, revData, config, backups, acked, saves, crashes>>
    BY <1>2 DEF SeedIndex
  <2>2. /\ index' \in [st : {"absent", "torn", "ok"}, list : Seq(RevMeta)]
        /\ index'.list \in {revs, <<>>}
        /\ index'.st # "ok" => index'.list = <<>>
    <3>1. revs \in Seq(RevMeta) /\ index \in [st : {"absent", "torn", "ok"}, list : Seq(RevMeta)]
      BY DEF TypeOK
    <3>2. CASE index' = IndexOf(revs)
      BY <3>1, <3>2 DEF IndexOf
    <3>3. CASE index' \in IndexWriteFails
      <4>1. index.st = "absent"
        BY <1>0 DEF NoIndex
      <4> QED
        BY <1>0, <3>1, <3>3, <4>1, WriteTypes
    <3> QED
      BY <2>1, <3>2, <3>3
  <2>3. TypeOK'
    BY <2>1, <2>2, WriteTypes DEF TypeOK, PCs
  <2>4. PhaseOK' /\ AgreeOK' /\ Durable' /\ NumbersOK'
    <3>1. errors' = 0 => errors = 0
      BY <2>1, StoreAssumption DEF Works, Fails, TypeOK
    <3>2. config \in Configs
      BY <2>1 DEF PhaseOK
    <3>3. NumbersOK'
      BY <1>0, <2>1, <2>2 DEF NumbersOK
    <3> QED
      BY <2>1, <2>2, <3>1, <3>2, <3>3, StoreAssumption DEF PhaseOK, AgreeOK, Durable, Saving
  <2>5. HistoryShape' /\ IndexBehind'
    <3>1. Consecutive(revs) /\ Consecutive(<<>>)
      BY DEF HistoryShape, Consecutive
    <3>2. Consecutive(revs') /\ Consecutive(index'.list)
      BY <2>1, <2>2, <3>1
    <3>3. Len(revs') <= MaxRevisions /\ Len(index'.list) <= MaxRevisions
      <4>1. Len(<<>>) = 0 /\ Len(revs) = 1 /\ MaxRevisions \in Nat /\ MaxRevisions >= 1
        BY <1>0, StoreAssumption
      <4>2. index'.list = revs \/ index'.list = <<>>
        BY <2>2
      <4>3. revs' = revs
        BY <2>1
      <4>4. Len(revs') = 1
        BY <4>1, <4>3
      <4>5. Len(revs) <= MaxRevisions /\ Len(<<>>) <= MaxRevisions
        BY <4>1
      <4>6. Len(index'.list) <= MaxRevisions
        BY <4>2, <4>5
      <4> QED
        BY <4>1, <4>4, <4>6
    <3>4. IndexBehind'
      BY <1>0, <2>1, <2>2 DEF IndexBehind
    <3> QED
      BY <3>2, <3>3, <3>4 DEF HistoryShape
  <2>6. BackupsFaithful' /\ RevisionFaithful'
    BY <1>0, <2>1, <2>2 DEF BackupsFaithful, RevisionFaithful, Loaded
  <2> QED
    BY <2>3, <2>4, <2>5, <2>6
<1> QED
  BY <1>1, <1>2

\* Save up to its first write.
LEMMA SaveKeeps ==
  ASSUME IInv, NEW c \in Configs, SaveSame(c) \/ SaveNew(c)
  PROVE  IInv'
<1> USE DEF IInv
<1>1. /\ pc = "idle" /\ pc' \in {"idle", "backup"} /\ saves' = saves + 1 /\ saves < MaxSaves
      /\ \/ pc' = "idle" /\ c = active /\ acked' = c /\ arg' = arg
         \/ pc' = "backup" /\ acked' = acked /\ arg' = c
      /\ UNCHANGED <<active, revs, revData, config, backups, index, errors, crashes>>
  BY DEF SaveSame, SaveNew
<1>2. saves \in Nat /\ saves' \in 0..MaxSaves
  BY <1>1, StoreAssumption DEF TypeOK
<1>3. TypeOK'
  BY <1>1, <1>2 DEF TypeOK, PCs
<1>4. PhaseOK' /\ AgreeOK' /\ Durable'
  BY <1>1, StoreAssumption DEF PhaseOK, AgreeOK, Durable, Saving
<1>5. NumbersOK'
  <2>1. revs # <<>> => revs[1].rev <= saves + 1 /\ revs[1].rev \in Nat
    BY <1>1, FirstNumber DEF NumbersOK, TypeOK
  <2>2. index.list # <<>> => index.list[1].rev <= saves + 1 /\ index.list[1].rev \in Nat
    BY <1>1, FirstNumber DEF NumbersOK, TypeOK
  <2> QED
    BY <1>1, <1>2, <2>1, <2>2 DEF NumbersOK
<1>6. HistoryShape' /\ IndexBehind' /\ BackupsFaithful' /\ RevisionFaithful'
  BY <1>1 DEF HistoryShape, Consecutive, IndexBehind, BackupsFaithful, RevisionFaithful, Loaded
<1> QED
  BY <1>3, <1>4, <1>5, <1>6

\* Restore is Save of what a listed revision holds.
LEMMA RestoreKeeps ==
  ASSUME IInv, NEW n \in Revs, Restore(n)
  PROVE  IInv'
<1>1. revData[n] \in Configs /\ (SaveSame(revData[n]) \/ SaveNew(revData[n]))
  BY DEF Restore
<1> QED
  BY <1>1, SaveKeeps

\* While a save is under way its number is within the bound, and is not listed.
LEMMA NextNumber ==
  ASSUME IInv, pc = "backup"
  PROVE  /\ nextRev \in Revs /\ nextRev \in Nat /\ nextRev <= saves + 1
         /\ \A i \in 1..Len(revs) : revs[i].rev \in Revs /\ revs[i].rev # nextRev
         /\ \A i \in 1..Len(index.list) : index.list[i].rev \in Revs /\ index.list[i].rev # nextRev
         /\ index.list # <<>> => index.list[1].rev < nextRev /\ index.list[1].rev \in Nat
<1> USE DEF IInv
<1>1. saves \in 0..MaxSaves /\ MaxSaves \in Nat
  BY StoreAssumption DEF TypeOK
<1>2. revs # <<>> => revs[1].rev \in Nat /\ revs[1].rev <= saves /\ revs[1].rev \in Revs
  BY FirstNumber DEF TypeOK, NumbersOK
<1>3. nextRev \in Revs /\ nextRev \in Nat /\ nextRev <= saves + 1
  BY <1>1, <1>2 DEF nextRev, Revs
<1>4. \A i \in 1..Len(revs) : revs[i].rev \in Revs /\ revs[i].rev # nextRev
  <2> SUFFICES ASSUME NEW i \in 1..Len(revs) PROVE revs[i].rev \in Revs /\ revs[i].rev # nextRev
    OBVIOUS
  <2>1. revs \in Seq(RevMeta) /\ Consecutive(revs)
    BY DEF TypeOK, HistoryShape
  <2>2. revs[i].rev \in Nat /\ revs[1].rev \in Nat /\ revs[i].rev <= revs[1].rev
    BY <2>1, FirstIsLargest
  <2>3. revs # <<>> /\ revs[i].rev \in Revs
    BY <2>1, ListedNumbers
  <2> QED
    BY <2>2, <2>3 DEF nextRev
<1>5. index.list # <<>> => index.list[1].rev < nextRev /\ index.list[1].rev \in Nat
  <2>1. index.list \in Seq(RevMeta)
    BY DEF TypeOK
  <2>2. index.list # <<>> => index.list[1].rev \in Nat
    BY <2>1, FirstNumber
  <2> QED
    BY <1>2, <2>2 DEF nextRev, IndexBehind, Loaded
<1>6. \A i \in 1..Len(index.list) : index.list[i].rev \in Revs /\ index.list[i].rev # nextRev
  <2> SUFFICES ASSUME NEW i \in 1..Len(index.list)
               PROVE  index.list[i].rev \in Revs /\ index.list[i].rev # nextRev
    OBVIOUS
  <2> DEFINE l == index.list
  <2>1. l \in Seq(RevMeta) /\ Consecutive(l)
    BY DEF TypeOK, HistoryShape
  <2>2. l[i].rev \in Nat /\ l[1].rev \in Nat /\ l[i].rev <= l[1].rev
    BY <2>1, FirstIsLargest
  <2>3. l # <<>> /\ l[i].rev \in Revs
    BY <2>1, ListedNumbers
  <2> QED
    BY <1>3, <1>5, <2>2, <2>3
<1> QED
  BY <1>3, <1>4, <1>5, <1>6

\* appendRevision: the number it writes under is not listed anywhere, so that a
\* torn or a new file does not change what a listed revision holds.
LEMMA AppendRevisionKeeps ==
  ASSUME IInv, AppendRevision
  PROVE  IInv'
<1> USE DEF IInv
<1>0. /\ pc = "backup" /\ arg \in Configs /\ config \in Configs /\ active \in Configs
      /\ config # NoCfg /\ arg # NoCfg
      /\ UNCHANGED <<active, config, index, acked, saves, crashes>>
  BY StoreAssumption DEF AppendRevision, PhaseOK, Saving
<1>n. /\ nextRev \in Revs /\ nextRev \in Nat /\ nextRev <= saves + 1
      /\ \A i \in 1..Len(revs) : revs[i].rev \in Revs /\ revs[i].rev # nextRev
      /\ \A i \in 1..Len(index.list) : index.list[i].rev \in Revs /\ index.list[i].rev # nextRev
      /\ index.list # <<>> => index.list[1].rev < nextRev /\ index.list[1].rev \in Nat
  BY <1>0, NextNumber
<1>t. /\ backups \in [Revs -> Content] /\ revData \in [Revs -> Content]
      /\ revs \in Seq(RevMeta) /\ Consecutive(revs) /\ Len(revs) \in Nat
      /\ MaxRevisions \in Nat /\ Len(revs) <= MaxRevisions
  BY <1>0, StoreAssumption, LenProperties DEF TypeOK, HistoryShape
<1>1. CASE /\ Works
           /\ backups' = [backups EXCEPT ![nextRev] = arg]
           /\ revData' = [revData EXCEPT ![nextRev] = arg]
           /\ revs' = <<[rev |-> nextRev, cfg |-> arg]>> \o revs
           /\ pc' = IF Len(revs) >= MaxRevisions THEN "retain" ELSE "active"
           /\ UNCHANGED arg
  <2> DEFINE e == [rev |-> nextRev, cfg |-> arg]
  <2>1. e \in RevMeta /\ e.rev = nextRev /\ e.cfg = arg
    BY <1>0, <1>n DEF RevMeta
  <2> HIDE DEF e
  <2>2. /\ revs' \in Seq(RevMeta) /\ Len(revs') = Len(revs) + 1 /\ revs' # <<>> /\ revs'[1] = e
        /\ \A i \in 1..Len(revs') : i > 1 => revs'[i] = revs[i - 1] /\ i - 1 \in 1..Len(revs)
        /\ Consecutive(revs')
    <3>1. e.rev = IF revs = <<>> THEN 1 ELSE revs[1].rev + 1
      BY <2>1 DEF nextRev
    <3>2. revs' = <<e>> \o revs
      BY <1>1 DEF e
    <3> QED
      BY <1>t, <2>1, <3>1, <3>2, Pushed
  <2>3. backups' \in [Revs -> Content] /\ revData' \in [Revs -> Content]
    BY <1>0, <1>1, <1>t DEF Content
  <2>4. TypeOK'
    BY <1>0, <1>1, <2>2, <2>3, WriteTypes DEF TypeOK, PCs
  <2>5. PhaseOK'
    <3>1. pc' = "retain" => Len(revs') = MaxRevisions + 1
      BY <1>t, <1>1, <2>2
    <3>2. pc' \in {"retain", "active"}
      BY <1>1
    <3> QED
      BY <1>0, <1>1, <3>1, <3>2 DEF PhaseOK
  <2>6. AgreeOK' /\ Durable'
    BY <1>0, <1>1 DEF AgreeOK, Durable, Works
  <2>7. NumbersOK'
    <3>1. pc' # "backup"
      BY <1>1
    <3> QED
      BY <1>0, <1>n, <2>1, <2>2, <3>1 DEF NumbersOK
  <2>8. HistoryShape'
    <3>1. pc' # "retain" => Len(revs') <= MaxRevisions
      BY <1>t, <1>1, <2>2
    <3>2. index' = index
      BY <1>0
    <3> QED
      BY <2>2, <3>1, <3>2 DEF HistoryShape
  <2>9. IndexBehind'
    BY <1>0, <1>n, <2>1, <2>2 DEF IndexBehind
  <2>10. /\ backups'[nextRev] = arg /\ revData'[nextRev] = arg
         /\ \A n \in Revs : n # nextRev => backups'[n] = backups[n] /\ revData'[n] = revData[n]
    BY <1>n, <1>t, <1>1
  <2>11. \A i \in 1..Len(revs') :
            \/ revs'[i] = e
            \/ \E j \in 1..Len(revs) :
                  /\ revs'[i] = revs[j]
                  /\ backups'[revs'[i].rev] = backups[revs[j].rev]
                  /\ revData'[revs'[i].rev] = revData[revs[j].rev]
    <3> SUFFICES ASSUME NEW i \in 1..Len(revs'), i # 1
                 PROVE  \E j \in 1..Len(revs) :
                           /\ revs'[i] = revs[j]
                           /\ backups'[revs'[i].rev] = backups[revs[j].rev]
                           /\ revData'[revs'[i].rev] = revData[revs[j].rev]
      BY <2>2
    <3>1. i > 1
      BY <1>t, <2>2
    <3>2. revs'[i] = revs[i - 1] /\ i - 1 \in 1..Len(revs)
      BY <2>2, <3>1
    <3>3. revs[i - 1].rev \in Revs /\ revs[i - 1].rev # nextRev
      BY <1>n, <3>2
    <3>4. /\ backups'[revs'[i].rev] = backups[revs[i - 1].rev]
          /\ revData'[revs'[i].rev] = revData[revs[i - 1].rev]
      BY <2>10, <3>2, <3>3
    <3> QED
      BY <3>2, <3>4
  <2>12. BackupsFaithful'
    BY <1>0, <2>1, <2>10, <2>11 DEF BackupsFaithful, Loaded
  <2>13. RevisionFaithful'
    <3>1. \A i \in 1..Len(revs') :
             revData'[revs'[i].rev] \in Configs => revData'[revs'[i].rev] = revs'[i].cfg
      BY <2>1, <2>10, <2>11 DEF RevisionFaithful
    <3>2. \A i \in 1..Len(index.list) : backups'[index.list[i].rev] = backups[index.list[i].rev]
      BY <1>n, <2>10
    <3> QED
      BY <1>0, <3>1, <3>2 DEF RevisionFaithful
  <2> QED
    BY <2>4, <2>5, <2>6, <2>7, <2>8, <2>9, <2>12, <2>13
<1>2. CASE /\ Fails
           /\ \E f \in WriteFails(backups[nextRev]) :
                 backups' = [backups EXCEPT ![nextRev] = f]
           /\ pc' = "idle" /\ arg' = NoCfg
           /\ UNCHANGED <<revData, revs>>
  <2>1. /\ backups' \in [Revs -> Content]
        /\ \A n \in Revs : backups'[n] \in {backups[n], Torn, NoCfg}
    BY <1>n, <1>2, WriteTypes
  <2>2. TypeOK' /\ errors' # 0
    BY <1>0, <1>2, <2>1, WriteTypes DEF TypeOK, PCs
  <2>3. PhaseOK' /\ AgreeOK' /\ Durable'
    BY <1>0, <1>2, <2>2 DEF PhaseOK, AgreeOK, Durable, Saving
  <2>4. NumbersOK'
    <3>1. revs # <<>> => revs[1].rev \in Nat /\ revs[1].rev <= saves
      BY <1>0, <1>t, FirstNumber DEF NumbersOK
    <3> QED
      BY <1>0, <1>2, <3>1, StoreAssumption DEF NumbersOK, TypeOK
  <2>5. HistoryShape' /\ IndexBehind' /\ BackupsFaithful' /\ RevisionFaithful'
    BY <1>0, <1>2, <2>1, <2>2, DamageKeeps DEF Loaded, PCs
  <2> QED
    BY <2>2, <2>3, <2>4, <2>5
<1> QED
  BY <1>1, <1>2 DEF AppendRevision

\* Retention: the file and the data of the entry that leaves the list.
LEMMA RetainKeeps ==
  ASSUME IInv, Retain
  PROVE  IInv'
<1> USE DEF IInv
<1> DEFINE oldest == revs[Len(revs)].rev
<1>0. /\ pc = "retain" /\ pc' = "active" /\ (Works \/ Fails)
      /\ backups' = [backups EXCEPT ![oldest] = NoCfg] \/ UNCHANGED backups
      /\ revData' = [revData EXCEPT ![oldest] = NoCfg]
      /\ revs' = SubSeq(revs, 1, Len(revs) - 1)
      /\ UNCHANGED <<arg, active, config, index, acked, saves, crashes>>
  BY DEF Retain
<1>1. /\ revs \in Seq(RevMeta) /\ Consecutive(revs) /\ Len(revs) \in Nat /\ Len(revs) > 1
      /\ Len(revs) = MaxRevisions + 1 /\ MaxRevisions \in Nat
      /\ arg \in Configs /\ config \in Configs /\ active \in Configs /\ config # NoCfg
  BY <1>0, StoreAssumption DEF TypeOK, HistoryShape, PhaseOK, Saving
<1>2. /\ revs' \in Seq(RevMeta) /\ Len(revs') = Len(revs) - 1 /\ revs' # <<>> /\ revs'[1] = revs[1]
      /\ \A i \in 1..Len(revs') : revs'[i] = revs[i] /\ i \in 1..Len(revs)
      /\ Consecutive(revs')
  BY <1>0, <1>1, Dropped
<1>3. /\ backups' \in [Revs -> Content] /\ revData' \in [Revs -> Content]
      /\ \A n \in Revs : backups'[n] \in {backups[n], NoCfg} /\ revData'[n] \in {revData[n], NoCfg}
  <2>1. oldest \in Revs /\ backups \in [Revs -> Content] /\ revData \in [Revs -> Content]
    BY <1>1, ListedNumbers DEF TypeOK
  <2> HIDE DEF oldest
  <2> QED
    BY <1>0, <2>1 DEF Content
<1>4. TypeOK'
  BY <1>0, <1>2, <1>3, WriteTypes DEF TypeOK, PCs
<1>5. PhaseOK'
  BY <1>0, <1>1 DEF PhaseOK, Saving
<1>6. AgreeOK' /\ Durable'
  <2>1. errors' = 0 => errors = 0
    BY <1>0, StoreAssumption DEF Works, Fails, TypeOK
  <2> QED
    BY <1>0, <2>1 DEF AgreeOK, Durable
<1>7. NumbersOK' /\ IndexBehind'
  <2>1. revs # <<>>
    BY <1>1
  <2> QED
    BY <1>0, <1>2, <2>1 DEF NumbersOK, IndexBehind, Loaded
<1>8. HistoryShape'
  <2>1. Len(revs') <= MaxRevisions
    BY <1>1, <1>2
  <2> QED
    BY <1>0, <1>2, <2>1 DEF HistoryShape
<1>9. /\ \A i \in 1..Len(revs) : revs[i].rev \in Revs
      /\ \A i \in 1..Len(index.list) : index.list[i].rev \in Revs
  BY <1>1, ListedNumbers DEF TypeOK
<1> HIDE DEF oldest
<1>10. \A i \in 1..Len(revs') :
          /\ revs'[i] = revs[i] /\ i \in 1..Len(revs)
          /\ backups'[revs'[i].rev] \in {backups[revs[i].rev], NoCfg}
          /\ revData'[revs'[i].rev] \in {revData[revs[i].rev], NoCfg}
  BY <1>2, <1>3, <1>9
<1>11. BackupsFaithful'
  BY <1>0, <1>10, StoreAssumption DEF BackupsFaithful, Loaded
<1>12. \A i \in 1..Len(index.list) :
          backups'[index.list[i].rev] \in {backups[index.list[i].rev], NoCfg}
  BY <1>3, <1>9
<1>13. RevisionFaithful'
  <2>1. index' = index
    BY <1>0
  <2> QED
    BY <1>10, <1>12, <2>1, StoreAssumption DEF RevisionFaithful
<1> QED
  BY <1>4, <1>5, <1>6, <1>7, <1>8, <1>11, <1>13

\* writeActive: config.json is renamed into place or stays as it was.
LEMMA WriteActiveKeeps ==
  ASSUME IInv, WriteActive
  PROVE  IInv'
<1> USE DEF IInv
<1>0. /\ pc = "active" /\ active' = arg /\ arg \in Configs /\ config \in Configs
      /\ config # NoCfg /\ arg # NoCfg
      /\ \/ Works /\ config' = arg /\ pc' = "index" /\ arg' = arg
         \/ Fails /\ config' = config /\ pc' = "idle" /\ arg' = NoCfg
      /\ UNCHANGED <<revs, revData, backups, index, acked, saves, crashes>>
  BY StoreAssumption DEF WriteActive, SaveFileFails, PhaseOK, Saving
<1>1. TypeOK' /\ (Fails => errors' # 0) /\ (Works => errors' = errors)
  BY <1>0, WriteTypes DEF TypeOK, PCs, Works
<1>2. PhaseOK'
  BY <1>0, StoreAssumption DEF PhaseOK, Saving
<1>3. AgreeOK' /\ Durable'
  BY <1>0, <1>1 DEF AgreeOK, Durable
<1>4. NumbersOK' /\ HistoryShape' /\ IndexBehind' /\ BackupsFaithful' /\ RevisionFaithful'
  BY <1>0 DEF NumbersOK, HistoryShape, Consecutive, IndexBehind, BackupsFaithful,
     RevisionFaithful, Loaded
<1> QED
  BY <1>1, <1>2, <1>3, <1>4

\* saveIndex lists what is in memory, or leaves the old list or none.
LEMMA SaveIndexKeeps ==
  ASSUME IInv, SaveIndex
  PROVE  IInv'
<1> USE DEF IInv
<1>0. /\ pc = "index" /\ pc' = "idle" /\ arg' = NoCfg /\ acked' = arg /\ (Works \/ Fails)
      /\ index' = IndexOf(revs) \/ index' \in IndexWriteFails
      /\ arg \in Configs /\ config \in Configs /\ active \in Configs /\ config # NoCfg
      /\ UNCHANGED <<active, revs, revData, config, backups, saves, crashes>>
  BY StoreAssumption DEF SaveIndex, PhaseOK, Saving
<1>1. /\ index' \in [st : {"absent", "torn", "ok"}, list : Seq(RevMeta)]
      /\ index'.list \in {revs, index.list, <<>>}
      /\ index'.st # "ok" => index'.list = <<>>
  <2>1. CASE index' = IndexOf(revs)
    BY <2>1 DEF IndexOf, TypeOK
  <2>2. CASE index' \in IndexWriteFails
    BY <2>2, WriteTypes DEF PhaseOK
  <2> QED
    BY <1>0, <2>1, <2>2
<1>2. TypeOK'
  BY <1>0, <1>1, WriteTypes DEF TypeOK, PCs
<1>3. PhaseOK'
  BY <1>0, <1>1 DEF PhaseOK, Saving
<1>4. AgreeOK' /\ Durable'
  <2>1. errors' = 0 => errors = 0
    BY <1>0, StoreAssumption DEF Works, Fails, TypeOK
  <2> QED
    BY <1>0, <2>1 DEF AgreeOK, Durable
<1>5. revs # <<>> => revs[1].rev \in Nat
  BY FirstNumber DEF TypeOK
<1>6. NumbersOK' /\ IndexBehind'
  <2>1. NumbersOK'
    BY <1>0, <1>1 DEF NumbersOK
  <2>2. IndexBehind'
    BY <1>0, <1>1, <1>5 DEF IndexBehind, Loaded
  <2> QED
    BY <2>1, <2>2
<1>7. HistoryShape'
  <2>1. Consecutive(revs) /\ Consecutive(index.list) /\ Consecutive(<<>>)
    BY DEF HistoryShape, Consecutive
  <2>2. Len(revs) <= MaxRevisions /\ Len(index.list) <= MaxRevisions /\ Len(<<>>) <= MaxRevisions
    BY <1>0, StoreAssumption DEF HistoryShape
  <2>3. Consecutive(index'.list) /\ Len(index'.list) <= MaxRevisions
    BY <1>1, <2>1, <2>2
  <2> QED
    BY <1>0, <2>1, <2>2, <2>3 DEF HistoryShape
<1>8. BackupsFaithful'
  BY <1>0 DEF BackupsFaithful, Loaded
<1>9. RevisionFaithful'
  BY <1>0, <1>1 DEF RevisionFaithful, BackupsFaithful, Loaded
<1> QED
  BY <1>2, <1>3, <1>4, <1>6, <1>7, <1>8, <1>9

\* A crash loses what is in memory, and may tear the file being written: an
\* unlisted backup, or the index.
LEMMA CrashKeeps ==
  ASSUME IInv, Crash
  PROVE  IInv'
<1> USE DEF IInv
<1>0. /\ pc # "down" /\ pc' = "down" /\ crashes' \in 0..MaxCrashes
      /\ active' = NoCfg /\ revs' = <<>> /\ revData' = NoFiles
      /\ config' = config /\ config \in Configs /\ config # NoCfg
      /\ index' = index \/ index' \in IndexWriteFails
      /\ UNCHANGED <<arg, acked, saves, errors>>
  BY StoreAssumption DEF Crash, SaveFileFails, TypeOK, PhaseOK
<1>1. /\ backups' \in [Revs -> Content]
      /\ \A n \in Revs : backups'[n] \in {backups[n], Torn}
  <2>1. CASE UNCHANGED backups
    BY <2>1 DEF TypeOK
  <2>2. CASE pc = "seed" /\ \E f \in WriteFails(backups[1]) : backups' = [backups EXCEPT ![1] = f]
    <3>1. 1 \in Revs
      BY StoreAssumption DEF Revs
    <3> QED
      BY <2>2, <3>1, WriteTypes
  <2>3. CASE pc = "backup" /\ \E f \in WriteFails(backups[nextRev]) :
                backups' = [backups EXCEPT ![nextRev] = f]
    BY <2>3, NextNumber, WriteTypes
  <2> QED
    BY <2>1, <2>2, <2>3 DEF Crash
<1>2. /\ index' \in [st : {"absent", "torn", "ok"}, list : Seq(RevMeta)]
      /\ index'.list \in {index.list, <<>>}
      /\ index'.st # "ok" => index'.list = <<>>
  BY <1>0, WriteTypes DEF PhaseOK, TypeOK
<1>3. TypeOK'
  <2>1. NoFiles \in [Revs -> Content] /\ <<>> \in Seq(RevMeta)
    BY DEF NoFiles, Content
  <2> QED
    BY <1>0, <1>1, <1>2, <2>1 DEF TypeOK, PCs
<1>4. PhaseOK' /\ AgreeOK' /\ Durable'
  BY <1>0, <1>2 DEF PhaseOK, AgreeOK, Durable, Saving
<1>5. NumbersOK' /\ IndexBehind' /\ BackupsFaithful'
  BY <1>0, <1>2 DEF NumbersOK, IndexBehind, BackupsFaithful, Loaded
<1>6. HistoryShape'
  <2>1. Consecutive(index.list) /\ Consecutive(<<>>) /\ Len(index.list) <= MaxRevisions
        /\ Len(<<>>) <= MaxRevisions
    BY StoreAssumption DEF HistoryShape, Consecutive
  <2> QED
    BY <1>0, <1>2, <2>1 DEF HistoryShape
<1>7. RevisionFaithful'
  <2>1. \A i \in 1..Len(index.list) : index.list[i].rev \in Revs
    BY ListedNumbers DEF TypeOK
  <2>2. \A i \in 1..Len(index'.list) :
            /\ i \in 1..Len(index.list) /\ index'.list[i] = index.list[i]
            /\ backups'[index.list[i].rev] \in {backups[index.list[i].rev], Torn}
    BY <1>1, <1>2, <2>1
  <2> QED
    BY <1>0, <2>2, StoreAssumption DEF RevisionFaithful
<1> QED
  BY <1>3, <1>4, <1>5, <1>6, <1>7

LEMMA NextIInv == IInv /\ [Next]_vars => IInv'
<1> SUFFICES ASSUME IInv, [Next]_vars PROVE IInv'
  OBVIOUS
<1>1. CASE OpenNew \/ OpenExisting \/ LoadIndex \/ SeedBackup \/ SeedIndex
  BY <1>1, OpenNewKeeps, OpenExistingKeeps, LoadIndexKeeps, SeedKeeps
<1>2. CASE \E c \in Configs : SaveSame(c) \/ SaveNew(c)
  BY <1>2, SaveKeeps
<1>3. CASE \E n \in Revs : Restore(n)
  BY <1>3, RestoreKeeps
<1>4. CASE AppendRevision \/ Retain \/ WriteActive \/ SaveIndex
  BY <1>4, AppendRevisionKeeps, RetainKeeps, WriteActiveKeeps, SaveIndexKeeps
<1>5. CASE Crash
  BY <1>5, CrashKeeps
<1>6. CASE UNCHANGED vars
  BY <1>6 DEF vars, IInv, TypeOK, PhaseOK, AgreeOK, Durable, NumbersOK, HistoryShape,
     Consecutive, IndexBehind, BackupsFaithful, RevisionFaithful
<1> QED
  BY <1>1, <1>2, <1>3, <1>4, <1>5, <1>6 DEF Next

LEMMA Invariance == Spec => []IInv
<1>1. Init => IInv
  BY InitIInv
<1>2. IInv /\ [Next]_vars => IInv'
  BY NextIInv
<1> QED
  BY <1>1, <1>2, PTL DEF Spec

-----------------------------------------------------------------------------
(* Theorems *)

\* Every variable keeps its type: in particular config.json is never torn, so
\* that Open never refuses to start, and no save runs out of numbers.
THEOREM StoreTypeCorrect == Spec => []TypeOK
<1>1. IInv => TypeOK
  BY DEF IInv
<1> QED
  BY <1>1, Invariance, PTL

\* Wherever the process dies, and as long as no write failed, config.json holds
\* what Save last acknowledged or what it was saving.
THEOREM AcknowledgedDurable == Spec => []Durable
<1>1. IInv => Durable
  BY DEF IInv
<1> QED
  BY <1>1, Invariance, PTL

\* The history in memory and the one in revisions.json are runs of consecutive
\* numbers of at most MaxRevisions entries, failing writes and crashes included.
THEOREM HistoryConsecutive == Spec => []HistoryShape
<1>1. IInv => HistoryShape
  BY DEF IInv
<1> QED
  BY <1>1, Invariance, PTL

\* What Revision and Restore read under a listed number is what was saved under
\* it, although a lost index or a failed Save lets numbers be used again.
THEOREM RestoresFaithful == Spec => []RevisionFaithful
<1>1. IInv => RevisionFaithful
  BY DEF IInv
<1> QED
  BY <1>1, Invariance, PTL

=============================================================================
