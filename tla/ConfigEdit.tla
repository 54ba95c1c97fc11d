----------------------------- MODULE ConfigEdit -----------------------------
(***************************************************************************)
(* The handlers of router/internal/api/server.go that edit one item of the *)
(* configuration: networks, static routes, firewall rules, port forwards   *)
(* and WireGuard tunnels.  Each reads the effective configuration, changes *)
(* one of its slices and hands the whole to applyNewConfig.                *)
(*                                                                         *)
(* A Go slice is a reference: effectiveConfig returns a deep copy of the   *)
(* committed configuration, but the slices of a pending one as they are.   *)
(* So the model has a heap of arrays, and a configuration is a slice: the  *)
(* list of one kind of item, chosen in Init; the handlers leave the other  *)
(* lists alone.  What becomes of windows and timers otherwise is the       *)
(* subject of ConfirmedCommit, the files of a Save that of Store.          *)
(***************************************************************************)
EXTENDS Naturals, Sequences, FiniteSets, FiniteSetsExt

CONSTANTS
    Requests,   \* handlers in flight
    Kinds,      \* the kinds of items considered
    Ids,        \* identifiers and names of items
    Values,     \* what else is in an item, as far as Validate accepts it
    MaxLen,     \* bound: items in the list
    MaxEdits,   \* bound: edits ever begun
    MaxWindows  \* bound: windows ever opened by other requests

\* What Validate refuses in an item; the masked private key of a tunnel.
Bad == "bad"
Masked == "***"

ASSUME ConfigEditAssumption ==
    /\ Kinds \subseteq {"network", "route", "rule", "portforward", "tunnel"}
    /\ Bad \notin Values /\ Masked \notin Values
    /\ IsFiniteSet(Requests)
    /\ MaxLen \in Nat \ {0, 1} /\ MaxEdits \in Nat /\ MaxWindows \in Nat

VARIABLES
    kind,     \* the kind of item of this behaviour
    heap,     \* the arrays behind the slices
    active,   \* Store.active
    pend,     \* Server.pend: its slice, and whether a transaction opened it
    commit,   \* the configuration commitPending has taken out of Server.pend
    disk,     \* config.json
    req,      \* requests in flight
    overtaken,  \* history: the requests since whose reading another was saved
    shared,   \* history: an edit wrote to an array that was not its own
    edits, windows

vars == <<kind, heap, active, pend, commit, disk, req, overtaken, shared, edits,
          windows>>

\* Every reference may be to an array of its own, and one is being allocated.
Arrays == 1..(Cardinality(Requests) + 4)

Nil == [a |-> 0, len |-> 0]
NoWindow == [open |-> FALSE, txn |-> FALSE, s |-> Nil]

\* A request: where it is, its configuration, and whether that is its own copy.
Idle == [pc |-> "idle", s |-> Nil, copy |-> FALSE]

\* Only networks have a name beside their identifier.  A tunnel's value is its
\* private key.
Items(k) ==
    {i \in [id : Ids, name : Ids, v : Values \cup {Bad}
                                      \cup IF k = "tunnel" THEN {Masked} ELSE {}] :
        k # "network" => i.name = i.id}

\* The configurations that the model starts from, or finds in a request, are
\* made of items that are named like their identifiers.
Plain(k) == {i \in Items(k) : i.name = i.id /\ i.v \in Values}

-----------------------------------------------------------------------------
(* Slices *)

Held == {active, pend.s, commit} \cup {req[r].s : r \in Requests}
Refs == {s.a : s \in Held}
Fresh == Min(Arrays \ Refs)

\* Unused room of an array; the runtime decides how much there is.
Room == [id |-> "", name |-> "", v |-> ""]
Grown(list) == {list, Append(list, Room)}

Content(s) == IF s = Nil THEN <<>> ELSE SubSeq(heap[s.a], 1, s.len)

\* The garbage collector: arrays without a reference are forgotten.
Becomes(h) == heap' = [a \in Arrays |-> IF a \in Refs' THEN h[a] ELSE <<>>]

Without(list, i) == SubSeq(list, 1, i - 1) \o SubSeq(list, i + 1, Len(list))

-----------------------------------------------------------------------------
(* Validate, as far as it looks at the list *)

Unique(list, field) ==
    \A i, j \in 1..Len(list) : list[i][field] = list[j][field] => i = j

\* Rules and routes have unique identifiers, networks and tunnels unique names;
\* port forwards may repeat theirs.
Valid(list) ==
    /\ \A i \in 1..Len(list) : list[i].v # Bad
    /\ kind \in {"rule", "route"} => Unique(list, "id")
    /\ kind \in {"network", "tunnel"} => Unique(list, "name")

Init ==
    /\ kind \in Kinds
    /\ \E i \in Plain(kind) :
          /\ disk = <<i>>
          /\ heap = [a \in Arrays |-> IF a = 1 THEN <<i>> ELSE <<>>]
    /\ active = [a |-> 1, len |-> 1]
    /\ pend = NoWindow /\ commit = Nil
    /\ req = [r \in Requests |-> Idle]
    /\ overtaken = {} /\ shared = FALSE /\ edits = 0 /\ windows = 0

-----------------------------------------------------------------------------
(* Handlers *)

\* Mutant: Store.Current returns its own slices.
CurrentUncloned(r) ==
    /\ req' = [req EXCEPT ![r] = [pc |-> "edit", s |-> active, copy |-> TRUE]]
    /\ Becomes(heap)

\* Store.Current: a deep copy.
Current(r) ==
    /\ req' = [req EXCEPT ![r] = [pc |-> "edit", s |-> [a |-> Fresh, len |-> active.len],
                                  copy |-> TRUE]]
    /\ \E array \in Grown(Content(active)) : Becomes([heap EXCEPT ![Fresh] = array])

\* A request arrives and reads effectiveConfig.  What it asks for is chosen
\* when it comes to matter.
Begin(r) ==
    /\ req[r] = Idle /\ edits < MaxEdits
    /\ edits' = edits + 1
    /\ overtaken' = overtaken \ {r}
    /\ UNCHANGED <<kind, active, pend, commit, disk, shared, windows>>
    /\ IF pend.open
       THEN /\ req' = [req EXCEPT ![r] = [pc |-> "edit", s |-> pend.s, copy |-> FALSE]]
            /\ Becomes(heap)
       ELSE Current(r)

Matches(item, id) == item.id = id \/ (kind = "network" /\ item.name = id)
Found(list, id) == {i \in 1..Len(list) : Matches(list[i], id)}

\* What an Add refuses as existing: a port forward never, a tunnel is replaced.
Exists(list, item) ==
    /\ kind \in {"network", "route", "rule"}
    /\ \E i \in 1..Len(list) :
          list[i].id = item.id \/ (kind = "network" /\ list[i].name = item.name)

\* A patch keeps the identifier; a tunnel keeps its key when the new one is masked.
Merged(old, new) ==
    [new EXCEPT !.id = old.id,
                !.name = IF kind = "network" THEN @ ELSE old.name,
                !.v = IF kind = "tunnel" /\ @ = Masked THEN old.v ELSE @]

\* Somebody else refers to the array of this request.
Aliased(r) ==
    req[r].s.a \in {active.a, pend.s.a, commit.a} \cup {req[q].s.a : q \in Requests \ {r}}

Answer(r) == req' = [req EXCEPT ![r] = Idle]
GoesOn(r, pc, s) == req' = [req EXCEPT ![r].pc = pc, ![r].s = s]

\* 404 or 409: the item is not there, or is there already.
EditRefused(r) ==
    /\ req[r].pc = "edit"
    /\ LET list == Content(req[r].s)
       IN  \/ \E i \in Items(kind) : Exists(list, i)
          \/ \E id \in Ids : Found(list, id) = {}
    /\ Answer(r)
    /\ UNCHANGED <<kind, overtaken, active, pend, commit, disk, shared, edits, windows>>
    /\ Becomes(heap)

\* c.X[i] = item, in place.
Replace(r, id, item) ==
    /\ req[r].pc = "edit"
    /\ LET s == req[r].s
           at == Found(Content(s), id)
       IN  /\ at # {}
           /\ GoesOn(r, "validate", s)
           /\ shared' = (shared \/ Aliased(r))
           /\ UNCHANGED <<kind, overtaken, active, pend, commit, disk, edits, windows>>
           /\ Becomes([heap EXCEPT ![s.a][Min(at)] = Merged(@, item)])

\* append(c.X, item), into the room of the array or into a new one.
Add(r, item) ==
    /\ req[r].pc = "edit"
    /\ LET s == req[r].s
           list == Content(s)
       IN  /\ ~Exists(list, item)
           /\ kind = "tunnel" => Found(list, item.id) = {}
           /\ s.len < MaxLen
           /\ UNCHANGED <<kind, overtaken, active, pend, commit, disk, edits, windows>>
           /\ IF Len(heap[s.a]) > s.len
              THEN /\ GoesOn(r, "validate", [s EXCEPT !.len = @ + 1])
                   /\ shared' = (shared \/ Aliased(r))
                   /\ Becomes([heap EXCEPT ![s.a][s.len + 1] = item])
              ELSE /\ GoesOn(r, "validate", [a |-> Fresh, len |-> s.len + 1])
                   /\ UNCHANGED shared
                   /\ \E array \in Grown(Append(list, item)) :
                         Becomes([heap EXCEPT ![Fresh] = array])

\* Mutant: the list is cut at the item, append(c.X[:i]).
DeleteTwo(r, id) ==
    /\ req[r].pc = "edit"
    /\ LET s == req[r].s
           list == Content(s)
           at == Found(list, id)
       IN  /\ at # {}
           /\ GoesOn(r, "validate", [s EXCEPT !.len = Min(at) - 1])
           /\ shared' = (shared \/ Aliased(r))
           /\ UNCHANGED <<kind, overtaken, active, pend, commit, disk, edits, windows>>
           /\ Becomes(heap)

\* append(c.X[:i], c.X[i+1:]...): the items after it move down in place, and
\* the last one is still where it was.
Delete(r, id) ==
    /\ req[r].pc = "edit"
    /\ LET s == req[r].s
           list == Content(s)
           at == Found(list, id)
       IN  /\ at # {}
           /\ GoesOn(r, "validate", [s EXCEPT !.len = @ - 1])
           /\ shared' = (shared \/ Aliased(r))
           /\ UNCHANGED <<kind, overtaken, active, pend, commit, disk, edits, windows>>
           /\ Becomes([heap EXCEPT ![s.a] =
                         Without(list, Min(at)) \o SubSeq(@, s.len, Len(@))])

hNetworkAdd(r) == kind = "network" /\ \E n \in Items(kind) : Add(r, n)
hRouteAdd(r) == kind = "route" /\ \E rt \in Items(kind) : Add(r, rt)
hRuleAdd(r) == kind = "rule" /\ \E ru \in Items(kind) : Add(r, ru)
hPFAdd(r) == kind = "portforward" /\ \E pf \in Items(kind) : Add(r, pf)
hWGAdd(r) == kind = "tunnel" /\ \E t \in Items(kind) : Add(r, t) \/ Replace(r, t.id, t)

hNetworkPatch(r) == kind = "network" /\ \E id \in Ids, n \in Items(kind) : Replace(r, id, n)
hRulePatch(r) == kind = "rule" /\ \E id \in Ids, ru \in Items(kind) : Replace(r, id, ru)
hPFPatch(r) == kind = "portforward" /\ \E id \in Ids, pf \in Items(kind) : Replace(r, id, pf)

hNetworkDelete(r) == kind = "network" /\ \E id \in Ids : Delete(r, id)
hRouteDelete(r) == kind = "route" /\ \E id \in Ids : Delete(r, id)
hRuleDelete(r) == kind = "rule" /\ \E id \in Ids : Delete(r, id)
hPFDelete(r) == kind = "portforward" /\ \E id \in Ids : Delete(r, id)
hWGDelete(r) == kind = "tunnel" /\ \E name \in Ids : Delete(r, name)

Edit(r) ==
    \/ hNetworkAdd(r) \/ hNetworkPatch(r) \/ hNetworkDelete(r)
    \/ hRouteAdd(r) \/ hRouteDelete(r)
    \/ hRuleAdd(r) \/ hRulePatch(r) \/ hRuleDelete(r)
    \/ hPFAdd(r) \/ hPFPatch(r) \/ hPFDelete(r)
    \/ hWGAdd(r) \/ hWGDelete(r)

-----------------------------------------------------------------------------
(* applyNewConfig *)

\* Mutant: an edit of one item is not validated.
ValidateNot(r) ==
    /\ req[r].pc = "validate"
    /\ GoesOn(r, "check", req[r].s)
    /\ UNCHANGED <<kind, overtaken, active, pend, commit, disk, shared, edits, windows>>
    /\ Becomes(heap)

\* Validate, 400.
Validate(r) ==
    /\ req[r].pc = "validate"
    /\ IF Valid(Content(req[r].s)) THEN GoesOn(r, "check", req[r].s) ELSE Answer(r)
    /\ UNCHANGED <<kind, overtaken, active, pend, commit, disk, shared, edits, windows>>
    /\ Becomes(heap)

\* 409 while the window of a transaction is open; these handlers have none.
CheckPending(r) ==
    /\ req[r].pc = "check"
    /\ IF pend.open /\ pend.txn THEN Answer(r) ELSE GoesOn(r, "apply", req[r].s)
    /\ UNCHANGED <<kind, overtaken, active, pend, commit, disk, shared, edits, windows>>
    /\ Becomes(heap)

\* engine.Apply fails, 500.
ApplyFails(r) ==
    /\ req[r].pc = "apply"
    /\ Answer(r)
    /\ UNCHANGED <<kind, overtaken, active, pend, commit, disk, shared, edits, windows>>
    /\ Becomes(heap)

\* With confirm_seconds: a window, in place of the one that is open.
OpensWindow(r) ==
    /\ req[r].pc = "apply"
    /\ pend' = [open |-> TRUE, txn |-> FALSE, s |-> req[r].s]
    /\ Answer(r)
    /\ UNCHANGED <<kind, overtaken, active, commit, disk, shared, edits, windows>>
    /\ Becomes(heap)

\* Store.Save, which keeps the slices it is given; sameConfig compares content.
Save(s) ==
    IF Content(s) = Content(active)
    THEN UNCHANGED <<active, disk, overtaken>>
    ELSE active' = s /\ disk' = Content(s) /\ overtaken' = Requests

\* ... without.
SaveEdit(r) ==
    /\ req[r].pc = "apply"
    /\ Save(req[r].s)
    /\ GoesOn(r, "clear", Nil)
    /\ UNCHANGED <<kind, pend, commit, shared, edits, windows>>
    /\ Becomes(heap)

\* "an immediate commit supersedes any pending window"
ClearPending(r) ==
    /\ req[r].pc = "clear"
    /\ pend' = NoWindow
    /\ Answer(r)
    /\ UNCHANGED <<kind, overtaken, active, commit, disk, shared, edits, windows>>
    /\ Becomes(heap)

-----------------------------------------------------------------------------
(* Windows, as far as other requests open and close them *)

\* hTxnApply or hConfigPut: a configuration decoded from the request.
OtherWindow(list, txn) ==
    /\ ~pend.open /\ windows < MaxWindows
    /\ windows' = windows + 1
    /\ Valid(list)
    /\ pend' = [open |-> TRUE, txn |-> txn, s |-> [a |-> Fresh, len |-> Len(list)]]
    /\ UNCHANGED <<kind, overtaken, active, commit, disk, req, shared, edits>>
    /\ \E array \in Grown(list) : Becomes([heap EXCEPT ![Fresh] = array])

\* commitPending, its critical section and its Save.
CommitTake ==
    /\ pend.open /\ commit = Nil
    /\ commit' = pend.s
    /\ pend' = NoWindow
    /\ UNCHANGED <<kind, overtaken, active, disk, req, shared, edits, windows>>
    /\ Becomes(heap)

CommitSave ==
    /\ commit # Nil
    /\ Save(commit)
    /\ commit' = Nil
    /\ UNCHANGED <<kind, pend, req, shared, edits, windows>>
    /\ Becomes(heap)

\* rollbackPending, or the timer.
WindowEnds ==
    /\ pend.open
    /\ pend' = NoWindow
    /\ UNCHANGED <<kind, overtaken, active, commit, disk, req, shared, edits, windows>>
    /\ Becomes(heap)

\* The daemon dies and starts again from config.json.
Restart ==
    /\ active' = [a |-> 1, len |-> Len(disk)]
    /\ pend' = NoWindow /\ commit' = Nil
    /\ req' = [r \in Requests |-> Idle]
    /\ UNCHANGED <<kind, overtaken, disk, shared, edits, windows>>
    /\ \E array \in Grown(disk) : Becomes([heap EXCEPT ![1] = array])

Others ==
    \/ \E i, j \in Plain(kind), txn \in BOOLEAN : OtherWindow(<<i, j>>, txn)
    \/ CommitTake
    \/ CommitSave
    \/ WindowEnds
    \/ Restart

Next ==
    \/ \E r \in Requests :
          \/ Begin(r)
          \/ Edit(r) \/ EditRefused(r)
          \/ Validate(r) \/ CheckPending(r) \/ ApplyFails(r) \/ OpensWindow(r)
          \/ SaveEdit(r) \/ ClearPending(r)
    \/ Others

Spec == Init /\ [][Next]_vars

-----------------------------------------------------------------------------
(* Properties *)

Slices == [a : Arrays, len : 0..MaxLen]

\* The types of the variables; no slice is longer than its array, or reaches
\* into its unused room.
TypeOK ==
    /\ kind \in Kinds
    /\ heap \in [Arrays -> Seq(Items(kind) \cup {Room})]
    /\ active \in Slices /\ commit \in Slices \cup {Nil}
    /\ pend \in [open : BOOLEAN, txn : BOOLEAN, s : Slices \cup {Nil}]
    /\ disk \in Seq(Items(kind))
    /\ req \in [Requests -> [pc : {"idle", "edit", "validate", "check", "apply", "clear"},
                             s : Slices \cup {Nil}, copy : BOOLEAN]]
    /\ \A s \in Held \ {Nil} :
          s.len <= Len(heap[s.a]) /\ \A i \in 1..s.len : heap[s.a][i] \in Items(kind)
    /\ overtaken \subseteq Requests /\ shared \in BOOLEAN
    /\ edits \in 0..MaxEdits /\ windows \in 0..MaxWindows

(***************************************************************************)
(* An edit that found no window open works on a copy of its own: nobody    *)
(* else refers to the array it changes before it is validated, applied and *)
(* saved, so an edit that is refused (400, 404, 409, 500) leaves no trace. *)
(***************************************************************************)
EditsOwnCopy ==
    \A r \in Requests : req[r].copy /\ req[r].s # Nil => ~Aliased(r)

(***************************************************************************)
(* Unless an edit has written to the slices of a pending configuration,    *)
(* everything that is pending, being confirmed, committed or on disk has   *)
(* passed Validate, and config.json holds what Store.active holds,         *)
(* whatever edits overlap and wherever they are refused.                   *)
(***************************************************************************)
SoundUnlessShared ==
    ~shared =>
        /\ \A list \in {Content(active), Content(pend.s), Content(commit), disk} : Valid(list)
        /\ disk = Content(active)

\* One item is removed, replaced or added at the end, at most.
OneItem(old, new) ==
    \/ \E i \in 1..Len(old) : new = Without(old, i)
    \/ /\ Len(new) \in {Len(old), Len(old) + 1}
       /\ Cardinality({i \in 1..Len(new) : i > Len(old) \/ new[i] # old[i]}) <= 1

(***************************************************************************)
(* An edit is lost only to another that had read the configuration before  *)
(* it was saved: one that nobody overtook since it read the committed      *)
(* configuration changes a single item of it when it is saved, unless an   *)
(* edit has written to the slices of a pending configuration.              *)
(***************************************************************************)
EditsOneItem ==
    [][\A r \in Requests :
          SaveEdit(r) /\ req[r].copy /\ r \notin overtaken /\ ~shared
             => OneItem(Content(active), Content(active)')]_vars

=============================================================================
