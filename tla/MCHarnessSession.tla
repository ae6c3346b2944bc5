-------------------------- MODULE MCHarnessSession --------------------------
(* A batch and two calls that may be its steps or run beside it, a takeover, *)
(* two pages that open and close, and a navigation.                          *)
EXTENDS HarnessSession, TLC

Interchangeable == Permutations(Operations \ Batches)

(* Two states go on alike, but for the names they give out, when they differ *)
(* only in the names given so far, in references that are no longer honoured *)
(* and in the epochs: an epoch only grows, so that what is not honoured now  *)
(* never will be.                                                            *)
Kept(p) == IF Honoured(p) THEN <<refs[p].since, refs[p].document>> ELSE <<>>
Holding(o) ==
  CASE phase[o] = "reading" -> <<held[o].page, held[o].since>>
    [] phase[o] = "closing" -> <<held[o].page>>
    [] OTHER -> <<>>

WithoutHistory ==
  <<vars, phase, parent, verdict, active, pages, awaiting, documents, gone, lost, trace,
    [p \in Pages |-> Kept(p)], [o \in Operations |-> Holding(o)]>>
=============================================================================
