----------------------------- MODULE TraceRedaction ----------------------------
(***************************************************************************)
(* What the trace records of a call's input (src/trace-recorder.ts) and    *)
(* what a later process accepts of it (src/cli/trace-store.ts).  An input  *)
(* is a JSON value: a scalar, a text, a list, or a map of fields in order. *)
(* Of a text only the words it contains matter, of a key the class that    *)
(* the patterns of the code put it in.  "sensitive" also stands for the    *)
(* `text' of browser_type, which the pattern covers like any other `text'. *)
(* A "long" key is one of no other class that is longer than a reader      *)
(* takes; no key is ever shortened.                                        *)
(***************************************************************************)
EXTENDS Naturals, SequencesExt

CONSTANTS MaxFields,  \* fields recorded of one map
          MaxItems,   \* items recorded of one list
          MaxDepth,   \* depth down to which maps and lists are recorded
          MaxNodes,   \* nodes recorded of one input
          MaxRefs,    \* refs taken from one input
          ReadDepth   \* depth a reader accepts

Keys == {"plain", "sensitive", "value", "url", "ref", "long"}

Scalar == [kind |-> "scalar"]
Text(words) == [kind |-> "text", words |-> words]
List(items) == [kind |-> "list", items |-> items]
Map(fields) == [kind |-> "map", fields |-> fields]
Field(key, value) == [key |-> key, value |-> value]
Nested(v) == v.kind \in {"list", "map"}
Children(v) ==
  IF v.kind = "list" THEN v.items
  ELSE IF v.kind = "map" THEN [i \in DOMAIN v.fields |-> v.fields[i].value] ELSE <<>>

ShouldRedactInput(key) == key \in {"sensitive", "value"}

(* collectSensitiveStrings: what is to be struck from texts elsewhere is a  *)
(* text under a sensitive key, or one in a list there; maps there are not   *)
(* searched, they are only summarised.  (The code keeps the hundred longest *)
(* of them.)                                                                *)
RECURSIVE SensitiveStrings(_)
SensitiveStrings(v) ==
  LET Found(c) == IF c.kind = "text" /\ c.words # {} THEN {c.words} ELSE {}
      Under(f) ==
        IF ShouldRedactInput(f.key)
        THEN Found(f.value)
               \cup (IF f.value.kind = "list" THEN UNION {Found(c) : c \in ToSet(f.value.items)}
                     ELSE {})
        ELSE SensitiveStrings(f.value)
  IN  CASE v.kind = "map" -> UNION {Under(f) : f \in ToSet(v.fields)}
        [] v.kind = "list" -> UNION {SensitiveStrings(c) : c \in ToSet(v.items)}
        [] OTHER -> {}

(* redactTraceText: every sensitive text that occurs is replaced.           *)
RedactText(words, sensitive) == Text(words \ UNION {s \in sensitive : s \subseteq words})
RedactionSummary == [kind |-> "summary"]
Omitted == [kind |-> "omitted"]

(* redactValue and redactObject, which spend one budget of nodes from left  *)
(* to right: `nodes' is what is left of it, below zero when it is used up.  *)
(* A list does not count as a level of depth, a map does.                   *)
RECURSIVE RedactValue(_, _, _, _)
RedactValue(v, depth, nodes, sensitive) ==
  LET Spend(acc, value, inner) ==
        LET left == acc.nodes - 1
        IN  IF left < 0 THEN [value |-> Omitted, nodes |-> left]
            ELSE RedactValue(value, inner, left, sensitive)
      Item(acc, c) ==
        LET r == Spend(acc, c, depth)
        IN  [out |-> Append(acc.out, r.value), nodes |-> r.nodes]
      Entry(acc, f) ==
        LET r == IF acc.nodes > 0 /\ ShouldRedactInput(f.key)
                 THEN [value |-> RedactionSummary, nodes |-> acc.nodes - 1]
                 ELSE Spend(acc, f.value, depth + 1)
        IN  [out |-> Append(acc.out, Field(f.key, r.value)), nodes |-> r.nodes]
      Start == [out |-> <<>>, nodes |-> nodes]
  IN  CASE v.kind = "scalar" -> [value |-> v, nodes |-> nodes]
        [] v.kind = "text" -> [value |-> RedactText(v.words, sensitive), nodes |-> nodes]
        [] Nested(v) /\ depth >= MaxDepth -> [value |-> Omitted, nodes |-> nodes]
        [] v.kind = "list" /\ depth < MaxDepth ->
             LET kept == SubSeq(v.items, 1, Min({Len(v.items), MaxItems}))
                 r == FoldLeft(Item, Start, kept)
                 more == IF Len(v.items) > MaxItems THEN <<Omitted>> ELSE <<>>
             IN  [value |-> List(r.out \o more), nodes |-> r.nodes]
        [] v.kind = "map" /\ depth < MaxDepth ->
             LET kept == SubSeq(v.fields, 1, Min({Len(v.fields), MaxFields}))
                 r == FoldLeft(Entry, Start, kept)
                 more == IF Len(v.fields) > MaxFields THEN <<Field("_omittedFields", Scalar)>>
                         ELSE <<>>
             IN  [value |-> Map(r.out \o more), nodes |-> r.nodes]

RedactTraceInput(input) ==
  RedactValue(input, 0, MaxNodes, SensitiveStrings(input)).value

(* collectTargetRefs: the texts under `ref', each once, down to a depth.    *)
RECURSIVE TargetRefs(_, _, _)
TargetRefs(v, depth, refs) ==
  LET Visit(acc, c) == TargetRefs(c, depth + 1, acc)
      Entry(acc, f) ==
        IF f.key = "ref" /\ f.value.kind = "text" /\ f.value.words # {}
        THEN IF f.value.words \in ToSet(acc) THEN acc ELSE Append(acc, f.value.words)
        ELSE Visit(acc, f.value)
  IN  IF depth > MaxDepth \/ Len(refs) >= MaxRefs THEN refs
      ELSE CASE v.kind = "list" -> FoldLeft(Visit, refs, v.items)
             [] v.kind = "map" -> FoldLeft(Entry, refs, v.fields)
             [] OTHER -> refs

-----------------------------------------------------------------------------
(* validateBoundedJson, the reader: what it takes is at most so deep, and   *)
(* no key of it is long.  A summary is a map itself.                        *)
RECURSIVE Depth(_)
Depth(v) ==
  LET children == ToSet(Children(v))
  IN  IF v.kind = "summary" THEN 1
      ELSE IF children = {} THEN 0 ELSE 1 + Max({Depth(c) : c \in children})

RECURSIVE LongKeys(_)
LongKeys(v) ==
  \/ v.kind = "map" /\ \E f \in ToSet(v.fields) : f.key = "long"
  \/ \E c \in ToSet(Children(v)) : LongKeys(c)

Accepted(v) == Depth(v) <= ReadDepth /\ ~LongKeys(v)

RECURSIVE Texts(_)
Texts(v) ==
  IF v.kind = "text" THEN {v.words} ELSE UNION {Texts(c) : c \in ToSet(Children(v))}

RECURSIVE Size(_)
Size(v) ==
  IF v.kind \in {"list", "map"}
  THEN FoldLeft(LAMBDA n, c : n + Size(c), 1, Children(v)) ELSE 1

(* Lists directly within lists.                                             *)
RECURSIVE ListsNest(_)
ListsNest(v) ==
  \E c \in ToSet(Children(v)) : (v.kind = "list" /\ c.kind = "list") \/ ListsNest(c)

-----------------------------------------------------------------------------
(* What of a call must not be in its record is not in it: no text recorded  *)
(* contains one that was given under a sensitive key.                       *)
SecretsStayOut(input) ==
  \A s \in SensitiveStrings(input), t \in Texts(RedactTraceInput(input)) : ~(s \subseteq t)

(* An input without lists in lists and long keys is recorded in a form that *)
(* the next process accepts: the reader's depth is twice the recorder's,    *)
(* for a list and a map on each level.  With lists in lists the recorded    *)
(* depth has no bound but the nodes, and a long key is recorded as it is.   *)
RecordIsReadable(input) ==
  ~ListsNest(input) /\ ~LongKeys(input) => Accepted(RedactTraceInput(input))

(* The budget bounds the record: beyond it only marks of omission remain,   *)
(* at most one more than a level may have on each level.                    *)
RecordIsBounded(input) ==
  LET level == (IF MaxFields > MaxItems THEN MaxFields ELSE MaxItems) + 1
  IN  Size(RedactTraceInput(input)) <= 1 + MaxNodes + (MaxNodes + 1) * level

(* The refs of a call are the distinct texts under `ref' within reach, and  *)
(* no more than the limit.                                                  *)
RefsAreFound(input) ==
  LET refs == TargetRefs(input, 0, <<>>)
  IN  /\ IsInjective(refs)
      /\ Len(refs) <= MaxRefs
      /\ ToSet(refs) \subseteq Texts(input)
=============================================================================
