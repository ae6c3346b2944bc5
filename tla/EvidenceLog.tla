------------------------------ MODULE EvidenceLog ------------------------------
(***************************************************************************)
(* What a session that keeps its files promises about its evidence (the    *)
(* comments of persistEvidence in src/cli/runtime.ts and of the recorders  *)
(* it resumes): each store is a log that only grows.  What a process has   *)
(* noted reaches the disk in order and is never taken back from it; a call *)
(* is told that it is saved only of what is on the disk; and a process     *)
(* that is lost takes with it nothing but what was not there yet, so that  *)
(* the next one goes on exactly where the disk ends.                       *)
(***************************************************************************)
EXTENDS Naturals

CONSTANT Logs

VARIABLES up,       \* whether a process serves the session
          known,    \* log -> entries the process has noted or resumed
          stored,   \* log -> entries on the disk
          promised  \* log -> entries of which a call was told that they are saved

Nothing == [l \in Logs |-> 0]

Init == ~up /\ known = Nothing /\ stored = Nothing /\ promised = Nothing

(* A process resumes what is stored, and may note at once that it began.    *)
Open ==
  /\ ~up /\ up'
  /\ known' \in [Logs -> Nat]
  /\ \A l \in Logs : known'[l] \in {stored[l], stored[l] + 1}
  /\ UNCHANGED <<stored, promised>>

Note ==
  /\ up
  /\ known' \in [Logs -> Nat]
  /\ \A l \in Logs : known'[l] \in {known[l], known[l] + 1}
  /\ UNCHANGED <<up, stored, promised>>

Store(l) ==
  /\ up
  /\ \E n \in stored[l]..known[l] : stored' = [stored EXCEPT ![l] = n]
  /\ UNCHANGED <<up, known, promised>>

Answer ==
  /\ up
  /\ promised' \in [Logs -> Nat]
  /\ \A l \in Logs : promised'[l] \in promised[l]..stored[l]
  /\ UNCHANGED <<up, known, stored>>

Lose ==
  /\ up /\ ~up'
  /\ known' = Nothing
  /\ UNCHANGED <<stored, promised>>

Next == Open \/ Note \/ Answer \/ Lose \/ \E l \in Logs : Store(l)

Spec == Init /\ [][Next]_<<up, known, stored, promised>>
=============================================================================
