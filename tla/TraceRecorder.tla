----------------------------- MODULE TraceRecorder -----------------------------
(***************************************************************************)
(* The bounded action trace of src/trace-recorder.ts and its reader in     *)
(* src/cli/trace-store.ts: what a recorder keeps, what it exports, what a  *)
(* reader accepts and what a later process resumes from.                   *)
(*                                                                         *)
(* An event is its sequence number, the occurrence it stands for (what a   *)
(* person reading the trace would call "that click") and its size.  A size *)
(* stands for what the code measures of an event: its bytes, as exported,  *)
(* and the nodes a reader counts, those of its input and of its approval,  *)
(* media and content boundary.  An odd event is small, but its input has a *)
(* key too long or lists too deep for the reader: the recorder shortens    *)
(* texts, never keys.  A huge one has such a key, as long as a request may *)
(* be, which is longer than an export may be.                              *)
(***************************************************************************)
EXTENDS Naturals, SequencesExt

CONSTANTS MaxEvents,       \* events a recorder keeps
          MaxExportBytes,  \* bytes an export may have
          MaxReadEvents,   \* events a reader accepts
          MaxReadNodes,    \* nodes of input a reader accepts, over all events
          SmallBytes, LargeBytes, HugeBytes, SmallNodes, LargeNodes

EventSizes == {"small", "large", "odd", "huge"}

ASSUME RecorderBounds ==
  /\ MaxEvents \in Nat \ {0} /\ MaxExportBytes \in Nat
  /\ MaxReadEvents \in Nat /\ MaxReadNodes \in Nat
  /\ {SmallBytes, LargeBytes, HugeBytes, SmallNodes, LargeNodes} \subseteq Nat

Event == [sequence : Nat \ {0}, what : Nat \ {0}, size : EventSizes]
Export == [omitted : Nat, events : Seq(Event)]
Recorder == [omitted : Nat, events : Seq(Event), next : Nat \ {0}]

EmptyRecorder == [omitted |-> 0, events |-> <<>>, next |-> 1]

Count(events, sizes) == Cardinality({i \in DOMAIN events : events[i].size \in sizes})
Bytes(events) ==
  SmallBytes * Count(events, {"small", "odd"}) + LargeBytes * Count(events, {"large"})
    + HugeBytes * Count(events, {"huge"})
Nodes(events) ==
  SmallNodes * Count(events, {"small", "odd", "huge"}) + LargeNodes * Count(events, {"large"})

Newest(events, n) == SubSeq(events, Len(events) - n + 1, Len(events))

(* All events a recorder or an export accounts for.                         *)
Total(e) == e.omitted + Len(e.events)

(* Faulty: what the ring forgets is not counted as omitted.                 *)
RecordedUncounted(r, what, size) ==
  LET events == Append(r.events, [sequence |-> r.next, what |-> what, size |-> size])
  IN  [omitted |-> r.omitted,
       events |-> IF Len(events) > MaxEvents THEN Tail(events) ELSE events,
       next |-> r.next + 1]

(* record: the event takes the next number; the ring forgets its oldest.    *)
Recorded(r, what, size) ==
  LET events == Append(r.events, [sequence |-> r.next, what |-> what, size |-> size])
      over == Len(events) > MaxEvents
  IN  [omitted |-> IF over THEN r.omitted + 1 ELSE r.omitted,
       events |-> IF over THEN Tail(events) ELSE events,
       next |-> r.next + 1]

(* Faulty: the byte ceiling is not applied.                                 *)
ExportedWhole(r) == [omitted |-> r.omitted, events |-> r.events]

(* snapshot: the newest events that fit, none if the newest is too large    *)
(* itself, the others counted as omitted.                                   *)
Exported(r) ==
  LET kept == Max({n \in 0..Len(r.events) : Bytes(Newest(r.events, n)) <= MaxExportBytes})
  IN  [omitted |-> r.omitted + Len(r.events) - kept, events |-> Newest(r.events, kept)]

(* Faulty: what earlier processes omitted is not carried on.                *)
ResumedAfresh(e) ==
  LET kept == IF Len(e.events) < MaxEvents THEN Len(e.events) ELSE MaxEvents
      events == Newest(e.events, kept)
  IN  [omitted |-> Len(e.events) - kept,
       events |-> events,
       next |-> Max({0} \cup {ev.sequence : ev \in ToSet(events)}) + 1]

(* Faulty: numbering goes on from the number of events found.               *)
ResumedByLength(e) ==
  LET kept == IF Len(e.events) < MaxEvents THEN Len(e.events) ELSE MaxEvents
  IN  [omitted |-> e.omitted + Len(e.events) - kept,
       events |-> Newest(e.events, kept),
       next |-> kept + 1]

(* initialTrace: the newest events again, and numbering after the greatest, *)
(* from one where the export has no events.                                 *)
Resumed(e) ==
  LET kept == IF Len(e.events) < MaxEvents THEN Len(e.events) ELSE MaxEvents
      events == Newest(e.events, kept)
  IN  [omitted |-> e.omitted + Len(e.events) - kept,
       events |-> events,
       next |-> Max({0} \cup {ev.sequence : ev \in ToSet(events)}) + 1]

(* validateBoundedJson: one budget of nodes for all events of a file, and   *)
(* bounds on keys and depth for each.                                       *)
InputsAccepted(events) ==
  /\ Nodes(events) <= MaxReadNodes
  /\ \A i \in DOMAIN events : events[i].size \in {"small", "large"}

(* validateTraceExport.                                                     *)
Readable(e) ==
  /\ Len(e.events) <= MaxReadEvents
  /\ Bytes(e.events) <= MaxExportBytes
  /\ \A i \in 1..(Len(e.events) - 1) : e.events[i].sequence < e.events[i + 1].sequence
  /\ InputsAccepted(e.events)
=============================================================================
