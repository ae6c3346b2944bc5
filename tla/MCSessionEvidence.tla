--------------------------- MODULE MCSessionEvidence ---------------------------
(* MCEvidence.cfg: a persistent session with two calls at a time, a crash,  *)
(* a restart and a refused write, and a recorder so small that it forgets.  *)
(* MCEvidenceOversized.cfg: the same with events larger than an export.     *)
(* MCEvidenceResume.cfg: the recorder's and the reader's own limits, and    *)
(* calls with large inputs.  MCEvidenceDisposable.cfg: a disposable session.*)
(* The redaction of a call's input is checked on its own, on nested inputs  *)
(* deeper and wider than its limits.                                        *)
EXTENDS SessionEvidence

(* In MCEvidence.cfg the call that may be a takeover leaves an event larger *)
(* than an export when it is none, the other a large one.                   *)
MixedSizes == [c \in Calls |-> IF c \in Takeovers THEN {"huge"} ELSE {"large"}]
LargeSizes == [c \in Calls |-> {"large"}]
HugeSizes == [c \in Calls |-> {"huge"}]

Redaction == INSTANCE TraceRedaction
  WITH MaxFields <- 2, MaxItems <- 2, MaxDepth <- 2, MaxNodes <- 4, MaxRefs <- 2, ReadDepth <- 4

UpTo(n, S) == UNION {[1..k -> S] : k \in 0..n}
Leaves == {Redaction!Scalar, Redaction!Text({"a"}), Redaction!Text({"a", "b"})}
FieldsOf(values) ==
  {Redaction!Field(k, v) : k \in {"plain", "sensitive", "ref", "long"}, v \in values}
Flat == {Redaction!List(items) : items \in UpTo(3, Leaves)}
          \cup {Redaction!Map(fields) : fields \in UpTo(2, FieldsOf(Leaves))}
Deep == {Redaction!List(<<v, w>>) : v \in Flat, w \in Leaves}
          \cup {Redaction!Map(<<f>>) : f \in FieldsOf(Flat)}
InListsOfMaps(v) ==
  Redaction!Map(<<Redaction!Field("plain",
    Redaction!List(<<Redaction!Map(<<Redaction!Field("plain", v)>>)>>))>>)
Inputs == {InListsOfMaps(v) : v \in Flat \cup Deep}
            \cup {Redaction!Map(<<f, g>>) :
                    f \in FieldsOf(Flat \cup Deep), g \in FieldsOf({Redaction!Text({"a"})})}
            \cup {Redaction!Map(fields) : fields \in UpTo(3, FieldsOf(Leaves))}

(* No recorded text contains one given under a sensitive key.               *)
ASSUME SecretsStayOutOfTraces == \A input \in Inputs : Redaction!SecretsStayOut(input)
(* The record of an input without lists in lists and long keys can be read  *)
(* back, as deep as it may be; one of four lists in each other cannot, nor  *)
(* one with a long key, which a call of any tool may bring.                 *)
ASSUME TracesAreReadable ==
  /\ \A input \in Inputs : Redaction!RecordIsReadable(input)
  /\ \E input \in Inputs : Redaction!Depth(Redaction!RedactTraceInput(input)) = 4
  /\ LET In(v) == Redaction!List(<<v>>)
         nested == Redaction!Map(<<Redaction!Field("plain", In(In(In(In(Redaction!Scalar)))))>>)
         long == Redaction!Map(<<Redaction!Field("long", Redaction!Scalar)>>)
     IN  /\ ~Redaction!Accepted(Redaction!RedactTraceInput(nested))
         /\ ~Redaction!Accepted(Redaction!RedactTraceInput(long))
(* What is recorded of an input stays within the budget.                    *)
ASSUME TracesAreBounded == \A input \in Inputs : Redaction!RecordIsBounded(input)
(* The refs of a call are distinct texts of it, up to their limit.          *)
ASSUME RefsAreFoundOnce == \A input \in Inputs : Redaction!RefsAreFound(input)
=============================================================================
