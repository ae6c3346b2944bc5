--------------------------- MODULE MCPageReferences ---------------------------
(* MCReferences.cfg: two snapshots of a page of up to two elements and a    *)
(* third in its iframe, or of a page without one but perhaps a modal, or of *)
(* what is inside a target of either; two changes.                          *)
(* MCReferencesScope.cfg: one snapshot of a page that does not change; what  *)
(* is inside a target of the iframe is mistaken.                            *)
EXTENDS PageReferences, TLC

TwoAndOne == [main |-> 2, child |-> 1]

MCInit == Init /\ (child => modal = Nothing)
MCSpec == MCInit /\ [][Next]_refVars

(* The two looks at an element agree, with up to two dialogs.               *)
ASSUME LooksAgreeWithin2 ==
  \A el \in LayoutsOf(UNION {[1..n -> Dialogs] : n \in 0..2}) : LooksAgree(el)

Interchangeable == Permutations(Elements) \cup Permutations(Keys)
=============================================================================
