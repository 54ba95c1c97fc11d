------------------------------ MODULE EventLog ------------------------------
(***************************************************************************)
(* The audit log and the system events of router/internal/store/store.go:  *)
(* a buffer in memory, newest first and bounded, and a file of one JSON    *)
(* line per record that is appended to and read back by Open; and the two  *)
(* handlers that serve them (router/internal/api/server.go).               *)
(*                                                                         *)
(* Store.mu makes every operation one step.  An append may fail half way,  *)
(* its error ignored, and the process may die; dying inside an append is   *)
(* one that fails, and then a crash.  A client follows the events by       *)
(* asking for those after the last one it has seen.                        *)
(***************************************************************************)
EXTENDS Naturals, SequencesExt

CONSTANTS
    EventRingSize,  \* events in memory (1024 in the code)
    AuditRingSize,  \* audit records in memory (2000 in the code)
    Limits,         \* limits that clients give; 0 is none
    MaxEvents,      \* bound: events ever recorded
    MaxAudits,      \* bound: audit records ever written
    MaxErrors,      \* bound: appends that fail
    MaxCrashes      \* bound: deaths of the process

ASSUME EventLogAssumption ==
    /\ EventRingSize \in Nat \ {0} /\ AuditRingSize \in Nat \ {0}
    /\ Limits \subseteq Nat
    /\ MaxEvents \in Nat /\ MaxAudits \in Nat /\ MaxErrors \in Nat /\ MaxCrashes \in Nat

VARIABLES
    up,         \* the process runs
    events,     \* Store.events
    eventSeq,   \* Store.eventSeq
    eventFile,  \* events.jsonl
    audit,      \* Store.audit
    auditFile,  \* audit.jsonl
    last,       \* the follower: the ID it asks for events after
    seen,       \* the follower: the events it was given
    recorded, audited,   \* history: records made so far, which numbers them
    evicted,    \* history: events that have left a full buffer
    damaged,    \* history: IDs of events that events.jsonl may not hold
    auditLost,  \* history: audit.jsonl may not hold every record
    errors, crashes

vars == <<up, events, eventSeq, eventFile, audit, auditFile, last, seen, recorded, audited,
          evicted, damaged, auditLost, errors, crashes>>

\* type Event; n is history: which event it is, whatever its ID.  An audit
\* record has no ID.
Event == [id : 1..MaxEvents, n : 1..MaxEvents]
Record == [n : 1..MaxAudits]

\* A line of a file: "line", a record and its newline; "open", a record that
\* lacks the newline; "cut", the beginning of one; "bad", a line that does not
\* parse.
Line(kind, e) == [kind |-> kind, rec |-> e]

Init ==
    /\ up = FALSE
    /\ events = <<>> /\ eventSeq = 0 /\ eventFile = <<>>
    /\ audit = <<>> /\ auditFile = <<>>
    /\ last = 0 /\ seen = {}
    /\ recorded = 0 /\ audited = 0 /\ evicted = {} /\ damaged = {} /\ auditLost = FALSE
    /\ errors = 0 /\ crashes = 0

-----------------------------------------------------------------------------
(* Buffers and files *)

\* Mutant: the buffer is cut at its newest end.
KeepOldest(s, size) == IF Len(s) > size THEN SubSeq(s, Len(s) - size + 1, Len(s)) ELSE s

\* s[:size]
Keep(s, size) == IF Len(s) > size THEN SubSeq(s, 1, size) ELSE s

\* append([]T{e}, s...), cut to the size of the buffer.
Push(s, e, size) == Keep(<<e>> \o s, size)

\* O_APPEND: what is written continues a line that has no newline, and the two
\* make one that does not parse.
Glued(file) == file # <<>> /\ file[Len(file)].kind \in {"open", "cut"}
Continue(file, kind, e) ==
    IF Glued(file) THEN [file EXCEPT ![Len(file)] = Line(IF kind = "line" THEN "bad" ELSE "cut", e)]
                   ELSE Append(file, Line(kind, e))

\* The appends that fail: nothing is written, or a part of the line.
AppendFails(file, e) == {file, Continue(file, "cut", e), Continue(file, "open", e)}

\* The records of the lines that parse, each put before those already read.
Parsed(file) ==
    LET read[i \in 0..Len(file)] ==
            IF i = 0 THEN <<>>
            ELSE IF file[i].kind \in {"line", "open"} THEN <<file[i].rec>> \o read[i - 1]
            ELSE read[i - 1]
    IN  read[Len(file)]

-----------------------------------------------------------------------------
(* Open *)

\* Mutant: the sequence goes on from the number of events, not from their IDs.
loadedSeqByCount(list) == Len(list)

\* eventSeq after loadEvents: the largest ID of the file.
loadedSeq(list) == Max({e.id : e \in ToSet(list)} \cup {0})

\* loadAudit and loadEvents.
Open ==
    /\ ~up
    /\ up' = TRUE
    /\ events' = Keep(Parsed(eventFile), EventRingSize)
    /\ eventSeq' = loadedSeq(Parsed(eventFile))
    /\ audit' = Keep(Parsed(auditFile), AuditRingSize)
    /\ UNCHANGED <<eventFile, auditFile, last, seen, recorded, audited, evicted, damaged,
                   auditLost, errors, crashes>>

Crash ==
    /\ up /\ crashes < MaxCrashes
    /\ crashes' = crashes + 1
    /\ up' = FALSE
    /\ events' = <<>> /\ eventSeq' = 0 /\ audit' = <<>>
    /\ UNCHANGED <<eventFile, auditFile, last, seen, recorded, audited, evicted, damaged,
                   auditLost, errors>>

-----------------------------------------------------------------------------
(* Recording *)

\* Server.event and Store.Event
RecordEvent ==
    /\ up /\ recorded < MaxEvents
    /\ recorded' = recorded + 1
    /\ eventSeq' = eventSeq + 1
    /\ LET e == [id |-> eventSeq + 1, n |-> recorded + 1]
       IN  /\ events' = Push(events, e, EventRingSize)
           /\ evicted' = evicted \cup {x.n : x \in ToSet(events) \ ToSet(events')}
           /\ \/ /\ eventFile' = Continue(eventFile, "line", e)
                 /\ damaged' = IF Glued(eventFile) THEN damaged \cup {e.id} ELSE damaged
                 /\ UNCHANGED errors
              \/ /\ errors < MaxErrors /\ errors' = errors + 1
                 /\ eventFile' \in AppendFails(eventFile, e)
                 /\ damaged' = damaged \cup {e.id}
    /\ UNCHANGED <<up, audit, auditFile, last, seen, audited, auditLost, crashes>>

\* Server.audit and Store.Audit
RecordAudit ==
    /\ up /\ audited < MaxAudits
    /\ audited' = audited + 1
    /\ LET e == [n |-> audited + 1]
       IN  /\ audit' = Push(audit, e, AuditRingSize)
           /\ \/ /\ auditFile' = Continue(auditFile, "line", e)
                 /\ auditLost' = (auditLost \/ Glued(auditFile))
                 /\ UNCHANGED errors
              \/ /\ errors < MaxErrors /\ errors' = errors + 1
                 /\ auditFile' \in AppendFails(auditFile, e)
                 /\ auditLost' = TRUE
    /\ UNCHANGED <<up, events, eventSeq, eventFile, last, seen, recorded, evicted, damaged,
                   crashes>>

-----------------------------------------------------------------------------
(* Reading *)

\* Store.Events
Events(since) ==
    LET out[i \in 0..Len(events)] ==
            IF i = 0 THEN <<>>
            ELSE IF events[i].id > since THEN Append(out[i - 1], events[i]) ELSE out[i - 1]
    IN  out[Len(events)]

\* Mutant: the limit as the comment beside it describes it.
limitedNewest(evs, limit) ==
    IF limit > 0 /\ Len(evs) > limit THEN SubSeq(evs, 1, limit) ELSE evs

\* hEvents: evs[len(evs)-limit:], of a list that is newest first.
limited(evs, limit) ==
    IF limit > 0 /\ Len(evs) > limit THEN SubSeq(evs, Len(evs) - limit + 1, Len(evs)) ELSE evs

\* A client asks for the events after the last one it was given.
hEvents(limit) ==
    /\ up
    /\ LET evs == limited(Events(last), limit)
       IN  /\ last' = IF evs = <<>> THEN last ELSE evs[1].id
           /\ seen' = seen \cup {e.n : e \in ToSet(evs)}
    /\ UNCHANGED <<up, events, eventSeq, eventFile, audit, auditFile, recorded, audited,
                   evicted, damaged, auditLost, errors, crashes>>

\* AuditLog, which hAudit serves: the newest records.
AuditLog(limit) == IF limit <= 0 THEN audit ELSE Keep(audit, limit)

Next ==
    \/ Open
    \/ Crash
    \/ RecordEvent
    \/ RecordAudit
    \/ \E limit \in Limits : hEvents(limit)

Spec == Init /\ [][Next]_vars

-----------------------------------------------------------------------------
(* Properties *)

Lines(R) == [kind : {"line", "open", "cut", "bad"}, rec : R]

\* The types of the variables.
TypeOK ==
    /\ up \in BOOLEAN
    /\ events \in Seq(Event) /\ eventSeq \in 0..MaxEvents
    /\ audit \in Seq(Record)
    /\ eventFile \in Seq(Lines(Event)) /\ auditFile \in Seq(Lines(Record))
    /\ last \in 0..MaxEvents /\ seen \subseteq 1..MaxEvents
    /\ recorded \in 0..MaxEvents /\ audited \in 0..MaxAudits
    /\ evicted \subseteq 1..MaxEvents /\ damaged \subseteq 1..MaxEvents /\ auditLost \in BOOLEAN
    /\ errors \in 0..MaxErrors /\ crashes \in 0..MaxCrashes

Newer(a, b) == a.n > b.n

(***************************************************************************)
(* What Store.Events and AuditLog return is newest first, without          *)
(* repetition and no longer than the buffer, also after a restart from     *)
(* files with torn and glued lines; and no event in memory or on disk has  *)
(* an ID that the next one could get again while it is there.              *)
(***************************************************************************)
NewestFirst ==
    /\ Len(events) <= EventRingSize /\ Len(audit) <= AuditRingSize
    /\ \A i, j \in 1..Len(events) :
          i < j => Newer(events[i], events[j]) /\ events[i].id > events[j].id
    /\ \A i, j \in 1..Len(audit) : i < j => Newer(audit[i], audit[j])
    /\ up => \A e \in ToSet(events) \cup ToSet(Parsed(eventFile)) : e.id <= eventSeq

(***************************************************************************)
(* As long as no append failed, a restart loses nothing: Open would read   *)
(* back exactly the events and audit records that are in memory, and go on *)
(* with the same sequence number; and the first audit record served is the *)
(* last one written, whatever the limit.                                   *)
(***************************************************************************)
ReloadFaithful ==
    up => /\ damaged = {} =>
               /\ events = Keep(Parsed(eventFile), EventRingSize)
               /\ eventSeq = loadedSeq(Parsed(eventFile))
          /\ ~auditLost =>
               /\ audit = Keep(Parsed(auditFile), AuditRingSize)
               /\ audited > 0 => \A limit \in Limits : AuditLog(limit)[1].n = audited

(***************************************************************************)
(* A client that asks for the events after the last one it was given, with *)
(* any limit, never skips one that is in the buffer: it has seen every     *)
(* buffered event up to that ID, across restarts, except one that it was   *)
(* too late for (a reload can bring it back into the buffer) or that was   *)
(* given the ID of an earlier event which events.jsonl had lost.           *)
(***************************************************************************)
FollowerSkipsNothing ==
    \A e \in ToSet(events) : e.id <= last => e.n \in seen \cup evicted \/ e.id \in damaged

=============================================================================
