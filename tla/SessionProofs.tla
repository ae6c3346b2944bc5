---------------------------- MODULE SessionProofs ----------------------------
(***************************************************************************)
(* What Control promises for any operations, requests and leases, and what *)
(* HarnessSession promises on top of it for any calls, batches, pages and  *)
(* takeovers.                                                              *)
(***************************************************************************)
EXTENDS HarnessSession, FiniteSetTheorems, TLAPS

(***************************************************************************)
(* Control.  HumanIsAlone is not inductive: a continuation grants the      *)
(* pause without looking at the counter again, so the proof has to carry   *)
(* that a resolved waiter means a drained session (ReadyMeansDrained),     *)
(* which in turn needs that only the pausing request can have a waiter.    *)
(***************************************************************************)
Pending(id) == takeover[id] \in {"draining", "ready"}

DrainingHasWork ==
  \A id \in RequestIds :
    takeover[id] = "draining" => state = "pausing" /\ activeAutomation > 0

PendingOwnsPause ==
  \A id \in RequestIds :
    Pending(id) => \/ state = "closed"
                   \/ state = "pausing" /\ request.id = id

ReadyMeansDrained ==
  \A id \in RequestIds :
    state = "pausing" /\ takeover[id] = "ready" => activeAutomation = 0

QuietWhenPaused == state \in {"paused", "human-control"} => activeAutomation = 0

PauseIsPending == state = "pausing" => Pending(request.id)

IInv ==
  /\ TypeOK
  /\ CountIsExact
  /\ RequestMatchesState
  /\ DrainingHasWork
  /\ PendingOwnsPause
  /\ ReadyMeansDrained
  /\ QuietWhenPaused
  /\ PauseIsPending

-----------------------------------------------------------------------------
(* Adding or removing one operation moves the size of the running set by    *)
(* exactly one: what keeps the counter of runAutomation exact.              *)
LEMMA RunningCount ==
  ASSUME NEW S, S \subseteq Operations
  PROVE  /\ IsFiniteSet(S) /\ Cardinality(S) \in Nat
         /\ Cardinality(S) = 0 <=> S = {}
         /\ \A o \in Operations \ S : Cardinality(S \cup {o}) = Cardinality(S) + 1
         /\ \A o \in S : Cardinality(S \ {o}) = Cardinality(S) - 1
<1>1. IsFiniteSet(S)
  BY FiniteOperations, FS_Subset
<1>2. Cardinality(S) \in Nat /\ (Cardinality(S) = 0 <=> S = {})
  BY <1>1, FS_CardinalityType, FS_EmptySet
<1>3. \A o \in Operations \ S : Cardinality(S \cup {o}) = Cardinality(S) + 1
  BY <1>1, FS_AddElement
<1>4. \A o \in S : Cardinality(S \ {o}) = Cardinality(S) - 1
  BY <1>1, FS_RemoveElement
<1> QED BY <1>1, <1>2, <1>3, <1>4

(* The session starts in the inductive invariant.                           *)
LEMMA InitIInv == Init => IInv
<1> SUFFICES ASSUME Init PROVE IInv
  OBVIOUS
<1>1. TypeOK
  BY DEF Init, TypeOK, States, Phases
<1>2. CountIsExact
  BY FS_EmptySet DEF Init, CountIsExact
<1>3. RequestMatchesState
  BY DEF Init, RequestMatchesState
<1>4. DrainingHasWork /\ PendingOwnsPause /\ ReadyMeansDrained
  BY DEF Init, DrainingHasWork, PendingOwnsPause, ReadyMeansDrained, Pending
<1>5. QuietWhenPaused /\ PauseIsPending
  BY DEF Init, QuietWhenPaused, PauseIsPending
<1> QED BY <1>1, <1>2, <1>3, <1>4, <1>5 DEF IInv

(* Waking the waiters only turns draining calls into ready ones.            *)
LEMMA WokenType ==
  ASSUME TypeOK, NEW count, NEW who
  PROVE  /\ Woken(count, who) \in [RequestIds -> Phases]
         /\ \A id \in RequestIds :
              Woken(count, who)[id] =
                IF takeover[id] = "draining" /\ (count = 0 \/ who = "closed")
                THEN "ready" ELSE takeover[id]
BY DEF TypeOK, Woken, Phases

LEMMA AdmitIInv ==
  ASSUME IInv, NEW o \in Operations, Admit(o)
  PROVE  IInv'
<1> USE DEF IInv, Admit
<1>1. TypeOK'
  BY DEF TypeOK
<1>2. CountIsExact'
  BY RunningCount DEF TypeOK, CountIsExact
<1>3. RequestMatchesState'
  BY DEF RequestMatchesState
<1>4. DrainingHasWork' /\ PendingOwnsPause' /\ ReadyMeansDrained'
  BY DEF TypeOK, DrainingHasWork, PendingOwnsPause, ReadyMeansDrained, Pending
<1>5. QuietWhenPaused' /\ PauseIsPending'
  BY DEF QuietWhenPaused, PauseIsPending
<1> QED BY <1>1, <1>2, <1>3, <1>4, <1>5

LEMMA ExitIInv ==
  ASSUME IInv, NEW o \in Operations, Exit(o)
  PROVE  IInv'
<1> USE DEF IInv, Exit
<1>1. activeAutomation > 0 /\ activeAutomation' = activeAutomation - 1
  BY RunningCount DEF TypeOK, CountIsExact
<1>2. TypeOK'
  BY <1>1, WokenType DEF TypeOK
<1>3. CountIsExact'
  BY <1>1, RunningCount DEF TypeOK, CountIsExact
<1>4. RequestMatchesState'
  BY DEF RequestMatchesState
<1>5. \A id \in RequestIds :
        takeover'[id] = IF takeover[id] = "draining" /\ (activeAutomation' = 0 \/ state = "closed")
                        THEN "ready" ELSE takeover[id]
  BY WokenType
<1>6. DrainingHasWork' /\ PendingOwnsPause' /\ ReadyMeansDrained'
  BY <1>1, <1>5 DEF TypeOK, DrainingHasWork, PendingOwnsPause, ReadyMeansDrained, Pending
<1>7. QuietWhenPaused' /\ PauseIsPending'
  BY <1>1, <1>5 DEF TypeOK, Request, QuietWhenPaused, PauseIsPending, Pending, RequestMatchesState
<1> QED BY <1>2, <1>3, <1>4, <1>6, <1>7

LEMMA RequestTakeoverIInv ==
  ASSUME IInv, NEW r \in RequestIds, RequestTakeover(r)
  PROVE  IInv'
<1> USE DEF IInv, RequestTakeover, TransitionTo
<1>1. TypeOK'
  BY DEF TypeOK, States, Phases, Request
<1>2. CountIsExact'
  BY DEF CountIsExact
<1>3. RequestMatchesState'
  <2>1. request' \in Request /\ ~request'.paused /\ ~request'.acquired
    BY DEF Request
  <2> QED BY <2>1, NoneIsNoValue DEF RequestMatchesState
<1>4. \A id \in RequestIds : ~Pending(id)
  BY DEF PendingOwnsPause
<1>5. DrainingHasWork' /\ PendingOwnsPause' /\ ReadyMeansDrained'
  BY <1>4 DEF TypeOK, DrainingHasWork, PendingOwnsPause, ReadyMeansDrained, Pending
<1>6. QuietWhenPaused' /\ PauseIsPending'
  BY DEF TypeOK, QuietWhenPaused, PauseIsPending, Pending
<1> QED BY <1>1, <1>2, <1>3, <1>5, <1>6

LEMMA GrantedIInv ==
  ASSUME IInv, NEW r \in RequestIds, Granted(r)
  PROVE  IInv'
<1> USE DEF IInv, Granted, TransitionTo
<1>1. request \in Request /\ request' = [request EXCEPT !.paused = TRUE]
  BY DEF TypeOK
<1>2. request' \in Request /\ request'.id = request.id
       /\ request'.paused /\ request'.acquired = request.acquired
  BY <1>1 DEF Request
<1>3. TypeOK'
  BY <1>2 DEF TypeOK, States, Phases
<1>4. CountIsExact'
  BY DEF CountIsExact
<1>5. request # None /\ request' # None
  BY <1>1, <1>2, NoneIsNoValue
<1>6. RequestMatchesState'
  BY <1>2, <1>5 DEF RequestMatchesState
<1>7. request.id = r /\ activeAutomation = 0
  BY DEF PendingOwnsPause, ReadyMeansDrained, Pending
<1>8. \A id \in RequestIds : takeover'[id] # "draining" /\ takeover'[id] # "ready"
  BY <1>7 DEF TypeOK, PendingOwnsPause, Pending
<1>9. DrainingHasWork' /\ PendingOwnsPause' /\ ReadyMeansDrained'
  BY <1>8 DEF DrainingHasWork, PendingOwnsPause, ReadyMeansDrained, Pending
<1>10. QuietWhenPaused' /\ PauseIsPending'
  BY <1>7 DEF QuietWhenPaused, PauseIsPending
<1> QED BY <1>3, <1>4, <1>6, <1>9, <1>10

LEMMA RejectedIInv ==
  ASSUME IInv, NEW r \in RequestIds, Rejected(r)
  PROVE  IInv' /\ state = "closed"
<1> USE DEF IInv, Rejected
<1>1. state = "closed"
  BY DEF PendingOwnsPause, Pending, RequestMatchesState
<1>2. TypeOK'
  BY DEF TypeOK, Phases
<1>3. CountIsExact' /\ RequestMatchesState'
  BY DEF CountIsExact, RequestMatchesState
<1>4. DrainingHasWork' /\ PendingOwnsPause' /\ ReadyMeansDrained'
  BY <1>1 DEF TypeOK, DrainingHasWork, PendingOwnsPause, ReadyMeansDrained, Pending
<1>5. QuietWhenPaused' /\ PauseIsPending'
  BY <1>1 DEF QuietWhenPaused, PauseIsPending
<1> QED BY <1>1, <1>2, <1>3, <1>4, <1>5

LEMMA TakeControlIInv ==
  ASSUME IInv, NEW r \in RequestIds, NEW l \in LeaseIds, TakeControl(r, l)
  PROVE  IInv'
<1> USE DEF IInv, TakeControl, TransitionTo
<1>1. request \in Request /\ request' = [request EXCEPT !.acquired = TRUE]
  BY DEF TypeOK
<1>2. request' \in Request /\ request'.id = request.id
       /\ request'.acquired /\ request'.paused = request.paused
  BY <1>1 DEF Request
<1>3. TypeOK'
  BY <1>2 DEF TypeOK, States
<1>4. CountIsExact'
  BY DEF CountIsExact
<1>5. request'.paused /\ l # None
  BY <1>2, NoneIsNoValue DEF RequestMatchesState
<1>6. RequestMatchesState'
  BY <1>2, <1>5, NoneIsNoValue DEF RequestMatchesState
<1>7. DrainingHasWork' /\ PendingOwnsPause' /\ ReadyMeansDrained'
  BY DEF TypeOK, DrainingHasWork, PendingOwnsPause, ReadyMeansDrained, Pending
<1>8. QuietWhenPaused' /\ PauseIsPending'
  BY DEF QuietWhenPaused, PauseIsPending
<1> QED BY <1>3, <1>4, <1>6, <1>7, <1>8

LEMMA ResumeAutomationIInv ==
  ASSUME IInv, NEW r \in RequestIds, NEW l \in LeaseIds, ResumeAutomation(r, l)
  PROVE  IInv'
<1> USE DEF IInv, ResumeAutomation, TransitionTo
<1>1. TypeOK'
  BY DEF TypeOK, States
<1>2. CountIsExact' /\ RequestMatchesState'
  BY DEF CountIsExact, RequestMatchesState
<1>3. DrainingHasWork' /\ PendingOwnsPause' /\ ReadyMeansDrained'
  BY DEF TypeOK, DrainingHasWork, PendingOwnsPause, ReadyMeansDrained, Pending
<1>4. QuietWhenPaused' /\ PauseIsPending'
  BY DEF QuietWhenPaused, PauseIsPending
<1> QED BY <1>1, <1>2, <1>3, <1>4

LEMMA CloseIInv ==
  ASSUME IInv, Close
  PROVE  IInv'
<1> USE DEF IInv, Close, TransitionTo
<1>1. TypeOK'
  BY WokenType DEF TypeOK, States
<1>2. CountIsExact' /\ RequestMatchesState'
  BY DEF CountIsExact, RequestMatchesState
<1>3. \A id \in RequestIds : takeover'[id] # "draining"
  BY WokenType
<1>4. DrainingHasWork' /\ PendingOwnsPause' /\ ReadyMeansDrained'
  BY <1>3 DEF DrainingHasWork, PendingOwnsPause, ReadyMeansDrained, Pending
<1>5. QuietWhenPaused' /\ PauseIsPending'
  BY DEF QuietWhenPaused, PauseIsPending
<1> QED BY <1>1, <1>2, <1>4, <1>5

(* Every step of the protocol preserves the inductive invariant.            *)
LEMMA NextIInv == IInv /\ [Next]_vars => IInv'
<1> SUFFICES ASSUME IInv, [Next]_vars PROVE IInv'
  OBVIOUS
<1>1. CASE UNCHANGED vars
  BY <1>1 DEF vars, IInv, TypeOK, CountIsExact, RequestMatchesState, DrainingHasWork,
              PendingOwnsPause, ReadyMeansDrained, QuietWhenPaused, PauseIsPending, Pending
<1>2. ASSUME NEW o \in Operations, Admit(o) \/ Exit(o) PROVE IInv'
  BY <1>2, AdmitIInv, ExitIInv
<1>3. ASSUME NEW id \in RequestIds, RequestTakeover(id) \/ Continue(id) PROVE IInv'
  BY <1>3, RequestTakeoverIInv, GrantedIInv, RejectedIInv DEF Continue
<1>4. ASSUME NEW id \in RequestIds, NEW l \in LeaseIds,
             TakeControl(id, l) \/ ResumeAutomation(id, l)
      PROVE  IInv'
  BY <1>4, TakeControlIInv, ResumeAutomationIInv
<1>5. CASE Close
  BY <1>5, CloseIInv
<1> QED BY <1>1, <1>2, <1>3, <1>4, <1>5 DEF Next

LEMMA SpecIInv == Spec => []IInv
BY InitIInv, NextIInv, PTL DEF Spec

-----------------------------------------------------------------------------
(* Every variable keeps its type.                                           *)
THEOREM TypeCorrect == Spec => []TypeOK
<1>1. IInv => TypeOK
  BY DEF IInv
<1> QED BY <1>1, SpecIInv, PTL

(* While a person owns the browser, or may take it, no operation that       *)
(* runAutomation admitted is still executing.                               *)
THEOREM HumanAlone == Spec => []HumanIsAlone
<1>1. IInv => HumanIsAlone
  BY RunningCount DEF IInv, TypeOK, CountIsExact, QuietWhenPaused, HumanIsAlone
<1> QED BY <1>1, SpecIInv, PTL

(* A caller waits in drainWaiters only while an operation is left to wake   *)
(* it.                                                                      *)
THEOREM WakeupsAreNotLost == Spec => []NoLostWakeup
<1>1. IInv => NoLostWakeup
  <2> SUFFICES ASSUME IInv, NEW id \in RequestIds, takeover[id] = "draining"
               PROVE  state = "pausing" /\ running # {}
    BY DEF NoLostWakeup
  <2>1. state = "pausing" /\ Cardinality(running) > 0
    BY DEF IInv, DrainingHasWork, CountIsExact
  <2> QED BY <2>1, RunningCount DEF IInv, TypeOK
<1> QED BY <1>1, SpecIInv, PTL

(* A pause has exactly one call that can finish it: the one status() shows. *)
THEOREM PauseOwnership == Spec => []PauseHasOneOwner
<1>1. IInv => PauseHasOneOwner
  <2> SUFFICES ASSUME IInv, state = "pausing"
               PROVE  /\ request # None
                      /\ {id \in RequestIds : takeover[id] \in {"draining", "ready"}} = {request.id}
    BY DEF PauseHasOneOwner
  <2>1. request # None
    BY DEF IInv, RequestMatchesState
  <2>2. request.id \in RequestIds
    BY <2>1 DEF IInv, TypeOK, Request
  <2>3. Pending(request.id)
    BY DEF IInv, PauseIsPending
  <2>4. \A id \in RequestIds : Pending(id) => id = request.id
    BY DEF IInv, PendingOwnsPause
  <2> QED BY <2>1, <2>2, <2>3, <2>4 DEF Pending
<1> QED BY <1>1, SpecIInv, PTL

(* status() never shows a request or a lease that the state does not allow. *)
THEOREM RequestAgreesWithState == Spec => []RequestMatchesState
<1>1. IInv => RequestMatchesState
  BY DEF IInv
<1> QED BY <1>1, SpecIInv, PTL

(* A waiting takeover is only ever defeated by the session closing.         *)
THEOREM TakeoverIsNotSuperseded == Spec => OnlyCloseDefeatsTakeover
<1> DEFINE Defeat == \A id \in RequestIds :
                       takeover[id] # "rejected" /\ takeover'[id] = "rejected"
                         => state = "closed"
<1>1. IInv /\ [Next]_vars => [Defeat]_vars
  <2> SUFFICES ASSUME IInv, Next, NEW id \in RequestIds,
                      takeover[id] # "rejected", takeover'[id] = "rejected"
               PROVE  state = "closed"
    OBVIOUS
  <2> USE DEF IInv
  <2>1. ASSUME NEW o \in Operations, Admit(o) \/ Exit(o) PROVE FALSE
    <3>1. CASE Admit(o)
      BY <3>1 DEF Admit
    <3>2. CASE Exit(o)
      BY <3>2, WokenType DEF Exit
    <3> QED BY <2>1, <3>1, <3>2
  <2>2. ASSUME NEW r \in RequestIds, RequestTakeover(r) PROVE FALSE
    BY <2>2 DEF RequestTakeover, TypeOK
  <2>3. ASSUME NEW r \in RequestIds, Continue(r) PROVE state = "closed"
    <3>1. CASE Granted(r)
      BY <3>1 DEF Granted, TypeOK
    <3>2. CASE Rejected(r)
      BY <3>2, RejectedIInv
    <3> QED BY <2>3, <3>1, <3>2 DEF Continue
  <2>4. ASSUME NEW r \in RequestIds, NEW l \in LeaseIds,
               TakeControl(r, l) \/ ResumeAutomation(r, l)
        PROVE  FALSE
    BY <2>4 DEF TakeControl, ResumeAutomation
  <2>5. CASE Close
    BY <2>5, WokenType DEF Close
  <2> QED BY <2>1, <2>2, <2>3, <2>4, <2>5 DEF Next
<1> QED BY <1>1, SpecIInv, PTL DEF Spec, OnlyCloseDefeatsTakeover

-----------------------------------------------------------------------------
(* StaleLeaseStaysDead is not inductive either: that a resumption names the *)
(* lease of its own request needs that the lease in force was handed out    *)
(* for the request the session shows, and that no request is resumed twice, *)
(* which holds because every request starts unused.                         *)
LeaseBook ==
  /\ leaseId # None => leases[leaseId] = request.id
  /\ request # None => resumed[request.id] = None /\ takeover[request.id] # "unused"
  /\ \A id \in RequestIds : takeover[id] = "unused" => resumed[id] = None

LBook == StaleLeaseStaysDead /\ LeaseBook

LEMMA InitLBook == Init => LBook
BY DEF Init, LBook, LeaseBook, StaleLeaseStaysDead

LEMMA TakeControlLBook ==
  ASSUME IInv, LBook, NEW r \in RequestIds, NEW l \in LeaseIds, TakeControl(r, l)
  PROVE  LBook'
<1> USE NoneIsNoValue DEF LBook, IInv, TakeControl, TransitionTo
<1>1. request \in Request /\ request' = [request EXCEPT !.acquired = TRUE]
  BY DEF TypeOK
<1>2. request' # None /\ request'.id = r /\ leaseId' = l /\ l # None
  BY <1>1 DEF Request
<1>3. leases' = [leases EXCEPT ![l] = r] /\ leases \in [LeaseIds -> RequestIds \cup {None}]
  BY DEF TypeOK
<1>4. leaseId = None
  BY DEF RequestMatchesState
<1>5. LeaseBook'
  BY <1>2, <1>3 DEF LeaseBook
<1>6. \A id \in RequestIds : resumed'[id] # None => leases'[resumed'[id]] = id
  BY <1>3 DEF StaleLeaseStaysDead
<1>7. \A m \in LeaseIds : leases'[m] # None =>
        \/ leaseId' = m /\ request'.id = leases'[m]
        \/ resumed'[leases'[m]] = m
        \/ state' = "closed"
  BY <1>2, <1>3, <1>4 DEF StaleLeaseStaysDead
<1> QED BY <1>5, <1>6, <1>7 DEF StaleLeaseStaysDead

LEMMA ResumeAutomationLBook ==
  ASSUME IInv, LBook, NEW r \in RequestIds, NEW l \in LeaseIds, ResumeAutomation(r, l)
  PROVE  LBook'
<1> USE NoneIsNoValue DEF LBook, IInv, ResumeAutomation, TransitionTo
<1>1. resumed' = [resumed EXCEPT ![r] = l] /\ resumed \in [RequestIds -> LeaseIds \cup {None}]
  BY DEF TypeOK
<1>2. leases[l] = r /\ resumed[r] = None /\ takeover[r] # "unused"
  BY DEF LeaseBook
<1>3. LeaseBook'
  BY <1>1, <1>2 DEF LeaseBook
<1>4. \A id \in RequestIds : resumed'[id] # None => leases'[resumed'[id]] = id
  BY <1>1, <1>2 DEF StaleLeaseStaysDead
<1>5. ASSUME NEW m \in LeaseIds, leases'[m] # None
      PROVE  resumed'[leases'[m]] = m
  <2>1. leases[m] \in RequestIds /\ leases'[m] = leases[m]
    BY <1>5 DEF TypeOK
  <2>2. CASE m = l
    BY <1>1, <1>2, <2>1, <2>2
  <2>3. CASE m # l
    <3>1. resumed[leases[m]] = m
      BY <2>1, <2>3 DEF StaleLeaseStaysDead
    <3> QED BY <1>1, <1>2, <2>1, <3>1
  <2> QED BY <2>2, <2>3
<1> QED BY <1>3, <1>4, <1>5 DEF StaleLeaseStaysDead

LEMMA NextLBook == IInv /\ LBook /\ [Next]_vars => LBook'
<1> SUFFICES ASSUME IInv, LBook, [Next]_vars PROVE LBook'
  OBVIOUS
<1> USE NoneIsNoValue DEF LBook, LeaseBook, StaleLeaseStaysDead
<1>1. CASE UNCHANGED vars
  BY <1>1 DEF vars
<1>2. ASSUME NEW o \in Operations, Admit(o) PROVE LBook'
  BY <1>2 DEF Admit
<1>3. ASSUME NEW o \in Operations, Exit(o) PROVE LBook'
  <2>1. \A id \in RequestIds : takeover'[id] = "unused" <=> takeover[id] = "unused"
    BY <1>3, WokenType DEF Exit, IInv
  <2>2. request # None => request.id \in RequestIds
    BY DEF IInv, TypeOK, Request
  <2> QED BY <1>3, <2>1, <2>2 DEF Exit
<1>4. ASSUME NEW r \in RequestIds, RequestTakeover(r) PROVE LBook'
  <2>1. leaseId = None /\ leaseId' = None /\ request' # None /\ request'.id = r
    <3>1. request' \in Request /\ request'.id = r
      BY <1>4 DEF RequestTakeover, Request
    <3> QED BY <1>4, <3>1 DEF RequestTakeover, IInv, RequestMatchesState
  <2>2. \A id \in RequestIds : takeover'[id] = "unused" => takeover[id] = "unused"
    BY <1>4 DEF RequestTakeover, IInv, TypeOK
  <2>3. takeover'[r] # "unused" /\ resumed[r] = None
    BY <1>4 DEF RequestTakeover, IInv, TypeOK
  <2> QED BY <1>4, <2>1, <2>2, <2>3 DEF RequestTakeover
<1>5. ASSUME NEW r \in RequestIds, Granted(r) PROVE LBook'
  <2>1. request \in Request /\ request' = [request EXCEPT !.paused = TRUE]
    BY <1>5 DEF Granted, IInv, TypeOK
  <2>2. request' # None /\ request'.id = request.id /\ request.id \in RequestIds
    BY <2>1 DEF Request
  <2>3. \A id \in RequestIds : takeover'[id] = "unused" <=> takeover[id] = "unused"
    BY <1>5 DEF Granted, IInv, TypeOK
  <2>4. leaseId' = leaseId /\ leaseId = None
    BY <1>5 DEF Granted, IInv, RequestMatchesState
  <2> QED BY <1>5, <2>2, <2>3, <2>4 DEF Granted, TransitionTo
<1>6. ASSUME NEW r \in RequestIds, Rejected(r) PROVE LBook'
  <2>1. \A id \in RequestIds : takeover'[id] = "unused" <=> takeover[id] = "unused"
    BY <1>6 DEF Rejected, IInv, TypeOK
  <2>2. request # None => request.id \in RequestIds
    BY DEF IInv, TypeOK, Request
  <2> QED BY <1>6, <2>1, <2>2 DEF Rejected
<1>7. ASSUME NEW r \in RequestIds, NEW l \in LeaseIds,
             TakeControl(r, l) \/ ResumeAutomation(r, l)
      PROVE  LBook'
  BY <1>7, TakeControlLBook, ResumeAutomationLBook
<1>8. CASE Close
  <2>1. \A id \in RequestIds : takeover'[id] = "unused" => takeover[id] = "unused"
    BY <1>8, WokenType DEF Close, IInv
  <2> QED BY <1>8, <2>1 DEF Close, TransitionTo
<1> QED BY <1>1, <1>2, <1>3, <1>4, <1>5, <1>6, <1>7, <1>8 DEF Next, Continue

(* A takeover ends with the lease that was handed out for it: neither a     *)
(* lease nor a request of an earlier takeover gives the browser back.       *)
THEOREM StaleLeases == Spec => []StaleLeaseStaysDead
<1>1. LBook => StaleLeaseStaysDead
  BY DEF LBook
<1> QED BY <1>1, InitLBook, NextLBook, SpecIInv, PTL DEF Spec

-----------------------------------------------------------------------------
(* The protocol implements the promise of BrowserOwnership: every step of   *)
(* the session is one step of the promise or leaves its view unchanged.     *)
THEOREM OwnershipImplemented == Spec => ImplementsOwnership
<1>1. Init => Ownership!Init
  BY DEF Init, Ownership!Init, Owner
<1>2. IInv /\ [Next]_vars => [Ownership!Next]_<<Owner, running>>
  <2> SUFFICES ASSUME IInv, [Next]_vars
               PROVE  Ownership!Next \/ UNCHANGED <<Owner, running>>
    OBVIOUS
  <2> USE DEF Ownership!Next, Owner
  <2>1. CASE UNCHANGED vars
    BY <2>1 DEF vars
  <2>2. ASSUME NEW o \in Operations, Admit(o)
        PROVE  Ownership!Next
    BY <2>2 DEF Admit, Ownership!Start
  <2>3. ASSUME NEW o \in Operations, Exit(o)
        PROVE  Ownership!Next
    BY <2>3 DEF Exit, Ownership!Finish
  <2>4. ASSUME NEW r \in RequestIds, RequestTakeover(r)
        PROVE  Ownership!Next
    BY <2>4 DEF RequestTakeover, TransitionTo, Ownership!Yield
  <2>5. ASSUME NEW r \in RequestIds, Continue(r)
        PROVE  UNCHANGED <<Owner, running>>
    BY <2>5 DEF Continue, Granted, Rejected, TransitionTo
  <2>6. ASSUME NEW r \in RequestIds, NEW l \in LeaseIds, TakeControl(r, l)
        PROVE  Ownership!Next
    <3>1. running = {}
      BY <2>6, RunningCount
         DEF TakeControl, IInv, TypeOK, CountIsExact, QuietWhenPaused
    <3> QED BY <2>6, <3>1 DEF TakeControl, TransitionTo, Ownership!Acquire
  <2>7. ASSUME NEW r \in RequestIds, NEW l \in LeaseIds, ResumeAutomation(r, l)
        PROVE  Ownership!Next
    BY <2>7 DEF ResumeAutomation, TransitionTo, Ownership!Return
  <2>8. CASE Close
    BY <2>8 DEF Close, TransitionTo, Ownership!Shut, IInv, TypeOK, States
  <2> QED BY <2>1, <2>2, <2>3, <2>4, <2>5, <2>6, <2>7, <2>8 DEF Next
<1> QED BY <1>1, <1>2, SpecIInv, PTL DEF Spec, ImplementsOwnership, Ownership!Spec

-----------------------------------------------------------------------------
(***************************************************************************)
(* HarnessSession.  The steps of the session fall into a few shapes that   *)
(* say what becomes of the calls, the trace and the owner of the browser   *)
(* (Starts, Advances, Returns, Turns, Rests); all that is said about       *)
(* records, batches and pauses is proved for the shapes.                   *)
(***************************************************************************)
Working == {"checking", "acting", "reading", "closing"}
Inside == Working \cup {"recording", "leaving"}

-----------------------------------------------------------------------------
(* The shapes of a step.                                                    *)
CallKept == UNCHANGED <<state, revision, running>>

Starts(o, b) ==
  /\ Callable(o, b)
  /\ parent' = [parent EXCEPT ![o] = b]
  /\ UNCHANGED <<state, revision>>
  /\ \/ /\ Enter(o, "refused") /\ verdict' = [verdict EXCEPT ![o] = "blocked"]
        /\ UNCHANGED <<trace, running>>
     \/ /\ state = "automation" /\ running' = running \cup {o}
        /\ Enter(o, "leaving") /\ verdict' = [verdict EXCEPT ![o] = "unavailable"]
        /\ Note([who |-> o, what |-> "unavailable"])
     \/ /\ state = "automation" /\ running' = running \cup {o}
        /\ Enter(o, "checking") /\ UNCHANGED <<verdict, trace>>

Goes(o) ==
  /\ \/ phase[o] = "checking" /\ Enter(o, "acting")
     \/ phase[o] = "acting" /\ o \notin Batches /\ Enter(o, "reading")
     \/ phase[o] = "acting" /\ o \notin Batches /\ Enter(o, "closing")
  /\ UNCHANGED <<verdict, trace>>

Settles(o) ==
  /\ \/ phase[o] \in {"checking", "reading", "closing"}
     \/ phase[o] = "acting" /\ o \notin Batches
     \/ phase[o] = "acting" /\ \A s \in Steps(o) : phase[s] = "done"
  /\ \E how \in {"ok", "failed"} : Settle(o, how)

Reports(o) ==
  /\ \/ phase[o] = "recording" /\ Enter(o, "leaving")
     \/ phase[o] = "refused" /\ Enter(o, "done")
  /\ Note([who |-> o, what |-> verdict[o]])
  /\ UNCHANGED verdict

Advances(o) == (Goes(o) \/ Settles(o) \/ Reports(o)) /\ UNCHANGED parent /\ CallKept

Returns(o) ==
  /\ phase[o] = "leaving" /\ Enter(o, "done")
  /\ running' = running \ {o}
  /\ UNCHANGED <<state, revision, parent, verdict, trace>>

CallsKept == UNCHANGED <<phase, parent, verdict, running>>

Turns(what) ==
  /\ CallsKept
  /\ Note([who |-> None, what |-> what]) /\ revision' = revision + 1
  /\ \/ what = "pause-requested" /\ state = "automation" /\ state' = "pausing"
     \/ what = "paused" /\ state = "pausing" /\ state' = "paused" /\ running = {}
     \/ what = "human-control-acquired" /\ state = "paused" /\ state' = "human-control"
     \/ what = "automation-resumed" /\ state = "human-control" /\ state' = "automation"

Rests ==
  /\ CallsKept /\ UNCHANGED trace
  /\ revision' \in Nat /\ revision' >= revision
  /\ state' \in {state, "closed"}

Shape ==
  \/ \E o \in Operations : (\E b \in Batches \cup {None} : Starts(o, b)) \/ Advances(o) \/ Returns(o)
  \/ \E what \in Events : Turns(what)
  \/ Rests

(* A person who has the browser, or is about to get it, is alone.           *)
LEMMA GrantedIsAlone ==
  ASSUME IInv
  PROVE  /\ state \in {"paused", "human-control"} => running = {}
         /\ \A id \in RequestIds : Granted(id) => running = {}
<1>1. activeAutomation = Cardinality(running) /\ running \subseteq Operations
  BY DEF IInv, CountIsExact, TypeOK
<1>2. activeAutomation = 0 => running = {}
  BY <1>1, RunningCount
<1> QED BY <1>2 DEF IInv, QuietWhenPaused, ReadyMeansDrained, Granted

(* Every step is a step of the protocol or leaves it alone.                 *)
LEMMA SessionRefinesControl == SessionNext => [Next]_vars
<1> SUFFICES ASSUME SessionNext PROVE [Next]_vars
  OBVIOUS
<1>1. ASSUME NEW o \in Operations, NEW b \in Batches \cup {None}, Refuse(o, b) \/ Begin(o, b)
      PROVE  [Next]_vars
  BY <1>1 DEF Refuse, Begin, Next
<1>2. ASSUME NEW o \in Operations, CallStep(o) PROVE [Next]_vars
  BY <1>2 DEF CallStep, RecordRefusal, Denied, Allowed, Act, SelectPage, BeginClose, CloseTarget,
     PageCloses, EndClose, BeginSnapshot, EndSnapshot, EndBatch, Record, Return, Next
<1>3. ASSUME NEW id \in RequestIds, Takeover(id) \/ Answer(id) PROVE [Next]_vars
  BY <1>3 DEF Takeover, Answer, Next, Continue
<1>4. CASE EndSession
  BY <1>4 DEF EndSession, Next
<1>5. ASSUME NEW p \in Pages, PageOpens(p) \/ PageCloses(p) \/ Navigate(p) PROVE [Next]_vars
  BY <1>5 DEF PageOpens, PageCloses, Navigate
<1> QED BY <1>1, <1>2, <1>3, <1>4, <1>5 DEF SessionNext

LEMMA Shapes ==
  ASSUME IInv, SessionNext
  PROVE  Shape
<1> USE DEF vars
<1>0. revision \in Nat
  BY DEF IInv, TypeOK
<1>1. ASSUME NEW o \in Operations, NEW b \in Batches \cup {None}, Refuse(o, b) \/ Begin(o, b)
      PROVE  Shape
  <2>1. Starts(o, b)
    BY <1>1 DEF Refuse, Begin, Starts, Admit
  <2> QED BY <2>1 DEF Shape
<1>2. ASSUME NEW o \in Operations, CallStep(o) PROVE Shape
  <2>1. CASE CloseTarget(o)
    <3>1. Rests
      BY <1>0, <2>1 DEF CloseTarget, PageCloses, Rests, CallsKept
    <3> QED BY <3>1 DEF Shape
  <2>2. CASE Return(o)
    <3>1. Returns(o)
      BY <2>2 DEF Return, Exit, Returns
    <3> QED BY <3>1 DEF Shape
  <2>3. CASE RecordRefusal(o) \/ Record(o)
    <3>1. Reports(o) /\ UNCHANGED parent /\ CallKept
      BY <2>3 DEF RecordRefusal, Record, Reports, CallKept
    <3> QED BY <3>1 DEF Shape, Advances
  <2>4. CASE Allowed(o) \/ (\E p \in Pages : BeginClose(o, p)) \/ BeginSnapshot(o)
    <3>1. Goes(o) /\ UNCHANGED parent /\ CallKept
      BY <2>4 DEF Allowed, BeginClose, BeginSnapshot, Goes, CallKept
    <3> QED BY <3>1 DEF Shape, Advances
  <2>5. CASE Denied(o) \/ Act(o) \/ (\E p \in Pages : SelectPage(o, p))
    <3>1. Settles(o) /\ UNCHANGED parent /\ CallKept
      BY <2>5 DEF Denied, Act, SelectPage, Settles, CallKept
    <3> QED BY <3>1 DEF Shape, Advances
  <2>6. CASE EndClose(o) \/ EndSnapshot(o) \/ EndBatch(o)
    <3>1. Settles(o) /\ UNCHANGED parent /\ CallKept
      BY <2>6 DEF EndClose, EndSnapshot, EndBatch, Settles, CallKept
    <3> QED BY <3>1 DEF Shape, Advances
  <2> QED BY <1>2, <2>1, <2>2, <2>3, <2>4, <2>5, <2>6 DEF CallStep
<1>3. ASSUME NEW id \in RequestIds, Takeover(id) \/ Answer(id) PROVE Shape
  <2>1. CASE Takeover(id)
    <3>1. \E what \in Events : Turns(what)
      BY <2>1 DEF Takeover, Observed, Turns, CallsKept, Events, RequestTakeover, TakeControl,
         ResumeAutomation, TransitionTo
    <3> QED BY <3>1 DEF Shape
  <2>2. CASE Granted(id) /\ Answer(id)
    <3>1. ~Rejected(id) /\ running = {}
      BY <2>2, GrantedIsAlone DEF Granted, Rejected
    <3>2. Turns("paused")
      BY <2>2, <3>1 DEF Answer, Observed, Turns, CallsKept, Granted, TransitionTo
    <3> QED BY <3>2 DEF Shape, Events
  <2>3. CASE Rejected(id) /\ Answer(id)
    <3>1. ~Granted(id)
      BY <2>3 DEF Granted, Rejected
    <3>2. Rests
      BY <1>0, <2>3, <3>1 DEF Answer, Rejected, Unobserved, Rests, CallsKept
    <3> QED BY <3>2 DEF Shape
  <2> QED BY <1>3, <2>1, <2>2, <2>3 DEF Answer
<1>4. CASE EndSession
  <2>1. Rests
    BY <1>0, <1>4 DEF EndSession, Close, Unobserved, Rests, CallsKept, TransitionTo
  <2> QED BY <2>1 DEF Shape
<1>5. ASSUME NEW p \in Pages, PageOpens(p) \/ PageCloses(p) \/ Navigate(p) PROVE Shape
  <2>1. Rests
    BY <1>0, <1>5 DEF PageOpens, PageCloses, Navigate, Rests, CallsKept
  <2> QED BY <2>1 DEF Shape
<1> QED BY <1>1, <1>2, <1>3, <1>4, <1>5 DEF SessionNext

-----------------------------------------------------------------------------
(* Calls, their verdicts and the trace.                                     *)
CallTypes ==
  /\ phase \in [Operations -> CallPhases]
  /\ parent \in [Operations -> Batches \cup {None}]
  /\ verdict \in [Operations -> Verdicts]
  /\ trace \in Seq(Entries)

CallsFit ==
  \A o \in Operations :
    /\ phase[o] \in Inside <=> o \in running
    /\ phase[o] = "refused" => verdict[o] = "blocked"
    /\ phase[o] \in {"new"} \cup Working => verdict[o] = "none"
    /\ phase[o] = "recording" => verdict[o] = "ok"
    /\ phase[o] \in {"leaving", "done"} => verdict[o] # "none"

(* Where in the trace a call is, once there is anything to record.          *)
RecordsFit ==
  \A o \in Operations :
    IF phase[o] \in {"leaving", "done"} THEN \E i \in Nat : Records(o) = {i}
    ELSE Records(o) = {}

(* What one more entry does to the trace.                                   *)
LEMMA NoteFacts ==
  ASSUME trace \in Seq(Entries), NEW e \in Entries, Note(e)
  PROVE  /\ trace' \in Seq(Entries)
         /\ Len(trace) \in Nat /\ Len(trace') = Len(trace) + 1
         /\ DOMAIN trace = 1..Len(trace) /\ DOMAIN trace' = 1..Len(trace) + 1
         /\ \A i \in 1..Len(trace) : trace'[i] = trace[i]
         /\ trace'[Len(trace) + 1] = e
BY DEF Note

LEMMA NoteRecords ==
  ASSUME trace \in Seq(Entries), NEW e \in Entries, Note(e)
  PROVE  \A o \in Operations :
           /\ Records(o) \subseteq 1..Len(trace)
           /\ Records(o)' = IF e.who = o THEN Records(o) \cup {Len(trace) + 1} ELSE Records(o)
BY NoteFacts DEF Records

LEMMA CallEntry ==
  ASSUME NEW o \in Operations, NEW how \in Verdicts
  PROVE  /\ [who |-> o, what |-> how] \in Entries
         /\ [who |-> o, what |-> how].who = o /\ [who |-> o, what |-> how].what = how
BY DEF Entries

LEMMA EventEntry ==
  ASSUME NEW what \in Events
  PROVE  /\ [who |-> None, what |-> what] \in Entries
         /\ [who |-> None, what |-> what].who = None /\ [who |-> None, what |-> what].what = what
         /\ None \notin Operations
BY NoneIsNoCall DEF Entries

LEMMA InitCalls == SessionInit => CallTypes /\ CallsFit /\ RecordsFit
<1> SUFFICES ASSUME SessionInit PROVE CallTypes /\ CallsFit /\ RecordsFit
  OBVIOUS
<1>1. CallTypes
  BY DEF SessionInit, CallTypes, CallPhases, Verdicts
<1>2. CallsFit
  BY DEF SessionInit, Init, CallsFit, Inside, Working
<1>3. RecordsFit
  BY DEF SessionInit, RecordsFit, Records
<1> QED BY <1>1, <1>2, <1>3

(* A call that starts, advances or returns, seen by itself: where it goes,  *)
(* and what it leaves in the trace.                                         *)
Step(o, how, noted) ==
  /\ phase' = [phase EXCEPT ![o] = phase'[o]] /\ verdict' = [verdict EXCEPT ![o] = how]
  /\ phase'[o] \in CallPhases /\ how \in Verdicts
  /\ IF noted THEN Note([who |-> o, what |-> how]) ELSE UNCHANGED trace
  /\ \/ /\ phase[o] = "new" /\ phase'[o] = "refused" /\ how = "blocked" /\ ~noted
        /\ running' = running
     \/ /\ phase[o] = "new" /\ phase'[o] = "leaving" /\ how = "unavailable" /\ noted
        /\ running' = running \cup {o} /\ state = "automation"
     \/ /\ phase[o] = "new" /\ phase'[o] = "checking" /\ how = verdict[o] /\ ~noted
        /\ running' = running \cup {o} /\ state = "automation"
     \/ /\ phase[o] \in Working /\ phase'[o] \in Working /\ how = verdict[o] /\ ~noted
        /\ running' = running
     \/ /\ phase[o] \in Working /\ phase'[o] = "recording" /\ how = "ok" /\ ~noted
        /\ running' = running
     \/ /\ phase[o] \in Working /\ phase'[o] = "leaving" /\ how = "failed" /\ noted
        /\ running' = running
     \/ /\ phase[o] = "recording" /\ phase'[o] = "leaving" /\ how = verdict[o] /\ noted
        /\ running' = running
     \/ /\ phase[o] = "refused" /\ phase'[o] = "done" /\ how = verdict[o] /\ noted
        /\ running' = running
     \/ /\ phase[o] = "leaving" /\ phase'[o] = "done" /\ how = verdict[o] /\ ~noted
        /\ running' = running \ {o}

LEMMA CallsTakeSteps ==
  ASSUME CallTypes, NEW o \in Operations,
         (\E b \in Batches \cup {None} : Starts(o, b)) \/ Advances(o) \/ Returns(o)
  PROVE  /\ UNCHANGED <<state, revision>>
         /\ \E how \in Verdicts, noted \in BOOLEAN : Step(o, how, noted)
<1> USE DEF CallTypes
<1>1. verdict[o] \in Verdicts /\ verdict = [verdict EXCEPT ![o] = verdict[o]]
  OBVIOUS
<1>2. ASSUME NEW b \in Batches \cup {None}, Starts(o, b)
      PROVE  \/ Step(o, "blocked", FALSE) \/ Step(o, "unavailable", TRUE)
             \/ Step(o, verdict[o], FALSE)
  BY <1>1, <1>2 DEF Starts, Callable, Step, Enter, CallPhases, Verdicts
<1>3. ASSUME Goes(o), CallKept PROVE Step(o, verdict[o], FALSE)
  BY <1>1, <1>3 DEF Goes, CallKept, Step, Enter, CallPhases, Working
<1>4. ASSUME Settles(o), CallKept PROVE Step(o, "ok", FALSE) \/ Step(o, "failed", TRUE)
  BY <1>4 DEF Settles, Settle, CallKept, Step, Enter, CallPhases, Verdicts, Working
<1>5. ASSUME Reports(o), CallKept PROVE Step(o, verdict[o], TRUE)
  BY <1>1, <1>5 DEF Reports, CallKept, Step, Enter, CallPhases
<1>6. ASSUME Returns(o) PROVE Step(o, verdict[o], FALSE)
  BY <1>1, <1>6 DEF Returns, Step, Enter, CallPhases
<1>7. UNCHANGED <<state, revision>>
  BY DEF Starts, Advances, CallKept, Returns
<1>8. "blocked" \in Verdicts /\ "unavailable" \in Verdicts /\ "ok" \in Verdicts /\ "failed" \in Verdicts
  BY DEF Verdicts
<1> QED BY <1>1, <1>2, <1>3, <1>4, <1>5, <1>6, <1>7, <1>8 DEF Advances

LEMMA StepCalls ==
  ASSUME CallTypes, CallsFit, RecordsFit, NEW o \in Operations,
         NEW how \in Verdicts, NEW noted \in BOOLEAN, Step(o, how, noted)
  PROVE  /\ phase' \in [Operations -> CallPhases] /\ verdict' \in [Operations -> Verdicts]
         /\ trace' \in Seq(Entries) /\ CallsFit' /\ RecordsFit'
<1>1. /\ phase' \in [Operations -> CallPhases] /\ verdict' \in [Operations -> Verdicts]
      /\ verdict'[o] = how
      /\ \A x \in Operations \ {o} : phase'[x] = phase[x] /\ verdict'[x] = verdict[x]
  BY DEF Step, CallTypes
<1>2. trace' \in Seq(Entries)
  BY NoteFacts, CallEntry DEF Step, CallTypes
<1>3. CallsFit'
  <2>1. ASSUME NEW x \in Operations \ {o}
        PROVE  /\ phase'[x] = phase[x] /\ verdict'[x] = verdict[x]
               /\ x \in running' <=> x \in running
    BY <1>1 DEF Step
  <2>2. /\ phase'[o] \in Inside <=> o \in running'
        /\ phase'[o] = "refused" => verdict'[o] = "blocked"
        /\ phase'[o] \in {"new"} \cup Working => verdict'[o] = "none"
        /\ phase'[o] = "recording" => verdict'[o] = "ok"
        /\ phase'[o] \in {"leaving", "done"} => verdict'[o] # "none"
    BY <1>1 DEF Step, CallsFit, Inside, Working
  <2> QED BY <2>1, <2>2 DEF CallsFit
<1>4. RecordsFit'
  <2>1. ASSUME NEW x \in Operations \ {o}
        PROVE  /\ phase'[x] = phase[x] /\ Records(x)' = Records(x)
               /\ Len(trace) \in Nat /\ Len(trace') >= Len(trace)
    <3>1. Records(x)' = Records(x) /\ Len(trace) \in Nat /\ Len(trace') >= Len(trace)
      BY NoteRecords, NoteFacts, CallEntry DEF Step, CallTypes, Records
    <3> QED BY <1>1, <3>1
  <2>2. Records(o)' = IF noted THEN Records(o) \cup {Len(trace) + 1} ELSE Records(o)
    BY NoteRecords, CallEntry DEF Step, CallTypes, Records
  <2>3. Len(trace) \in Nat /\ Len(trace') = IF noted THEN Len(trace) + 1 ELSE Len(trace)
    BY NoteFacts, CallEntry DEF Step, CallTypes
  <2>4. IF phase[o] \in {"leaving", "done"} THEN \E i \in Nat : Records(o) = {i}
        ELSE Records(o) = {}
    BY DEF RecordsFit
  <2>5. IF phase'[o] \in {"leaving", "done"} THEN \E i \in Nat : Records(o)' = {i}
        ELSE Records(o)' = {}
    <3>1. /\ phase[o] \in {"leaving", "done"} => phase'[o] \in {"leaving", "done"}
          /\ noted <=> phase'[o] \in {"leaving", "done"} /\ phase[o] \notin {"leaving", "done"}
      BY DEF Step, Working
    <3>2. CASE noted
      <4>1. Records(o)' = {Len(trace) + 1} /\ Len(trace) + 1 \in Nat
        BY <2>2, <2>3, <2>4, <3>1, <3>2
      <4> QED BY <3>1, <3>2, <4>1
    <3>3. CASE ~noted
      BY <2>2, <2>3, <2>4, <3>1, <3>3
    <3> QED BY <3>2, <3>3
  <2>6. ASSUME NEW x \in Operations \ {o}
        PROVE  IF phase'[x] \in {"leaving", "done"} THEN \E i \in Nat : Records(x)' = {i}
               ELSE Records(x)' = {}
    BY <2>1, <2>6 DEF RecordsFit
  <2> QED BY <2>5, <2>6 DEF RecordsFit
<1> QED BY <1>1, <1>2, <1>3, <1>4

LEMMA TurnCalls ==
  ASSUME CallTypes, CallsFit, RecordsFit, NEW what \in Events, Turns(what)
  PROVE  CallTypes' /\ CallsFit' /\ RecordsFit'
<1>1. CallTypes'
  BY NoteFacts, EventEntry DEF Turns, CallsKept, CallTypes
<1>2. CallsFit'
  BY DEF Turns, CallsKept, CallsFit
<1>3. \A o \in Operations : Records(o)' = Records(o)
  BY NoteRecords, EventEntry DEF Turns, CallTypes
<1>4. Len(trace) \in Nat /\ Len(trace') = Len(trace) + 1
  BY NoteFacts, EventEntry DEF Turns, CallTypes
<1>5. RecordsFit'
  BY <1>3, <1>4 DEF RecordsFit, Turns, CallsKept
<1> QED BY <1>1, <1>2, <1>5

LEMMA NextCalls ==
  ASSUME CallTypes, CallsFit, RecordsFit, Shape
  PROVE  CallTypes' /\ CallsFit' /\ RecordsFit'
<1>1. ASSUME NEW o \in Operations,
             (\E b \in Batches \cup {None} : Starts(o, b)) \/ Advances(o) \/ Returns(o)
      PROVE  CallTypes' /\ CallsFit' /\ RecordsFit'
  <2>1. parent' \in [Operations -> Batches \cup {None}]
    BY <1>1 DEF CallTypes, Starts, Advances, Returns
  <2> QED BY <1>1, <2>1, CallsTakeSteps, StepCalls DEF CallTypes
<1>2. ASSUME NEW what \in Events, Turns(what) PROVE CallTypes' /\ CallsFit' /\ RecordsFit'
  BY <1>2, TurnCalls
<1>3. CASE Rests
  BY <1>3 DEF Rests, CallsKept, CallTypes, CallsFit, RecordsFit, Records
<1> QED BY <1>1, <1>2, <1>3 DEF Shape

-----------------------------------------------------------------------------
(* Batches.  A step is recorded while its batch acts; of two steps of one   *)
(* batch, one has passed, and the one that failed is recorded last.         *)
StepFits(o) ==
  parent[o] # None =>
    /\ o \notin Batches /\ phase[o] # "new"
    /\ phase[parent[o]] \in {"acting", "recording", "leaving", "done"}
    /\ phase[parent[o]] # "acting" => phase[o] = "done"
    /\ \A i \in Records(o), j \in Records(parent[o]) : i < j

Passed(o) == phase[o] = "done" /\ verdict[o] = "ok"

SiblingsFit(o, s) ==
  parent[o] = parent[s] /\ parent[o] # None /\ o # s =>
    /\ Passed(o) \/ Passed(s)
    /\ verdict[o] \notin {"none", "ok"} => \A i \in Records(o), j \in Records(s) : j < i

BatchFit ==
  /\ \A o \in Operations :
       StepFits(o) /\ (phase[o] \in {"reading", "closing"} => o \notin Batches)
  /\ \A o, s \in Operations : SiblingsFit(o, s)

(* A batch that acts ends, and only when its steps are done.                *)
EndsWhole(o) ==
  o \in Batches /\ phase[o] = "acting" =>
    /\ phase'[o] \in {"recording", "leaving"}
    /\ \A s \in Steps(o) : phase[s] = "done"

(* What a step of one call changes for itself and for the others.           *)
LEMMA StepFacts ==
  ASSUME CallTypes, CallsFit, RecordsFit, NEW o \in Operations,
         NEW how \in Verdicts, NEW noted \in BOOLEAN, Step(o, how, noted)
  PROVE  /\ \A x \in Operations \ {o} :
              phase'[x] = phase[x] /\ verdict'[x] = verdict[x] /\ Records(x)' = Records(x)
         /\ verdict'[o] = how
         /\ IF noted THEN Records(o) = {} /\ Records(o)' = {Len(trace) + 1}
            ELSE Records(o)' = Records(o)
         /\ Len(trace) \in Nat
         /\ \A x \in Operations : Records(x) \subseteq 1..Len(trace)
<1>1. verdict'[o] = how /\ \A x \in Operations \ {o} : phase'[x] = phase[x] /\ verdict'[x] = verdict[x]
  BY DEF Step, CallTypes
<1>2. \A x \in Operations \ {o} : Records(x)' = Records(x)
  BY NoteRecords, CallEntry DEF Step, CallTypes, Records
<1>3. Records(o)' = IF noted THEN Records(o) \cup {Len(trace) + 1} ELSE Records(o)
  BY NoteRecords, CallEntry DEF Step, CallTypes, Records
<1>4. noted => phase[o] \notin {"leaving", "done"}
  BY DEF Step, Working
<1>5. noted => Records(o) = {}
  BY <1>4 DEF RecordsFit
<1>6. Len(trace) \in Nat /\ \A x \in Operations : Records(x) \subseteq 1..Len(trace)
  BY DEF CallTypes, Records
<1> QED BY <1>1, <1>2, <1>3, <1>5, <1>6

LEMMA AdvanceBatches ==
  ASSUME CallTypes, CallsFit, RecordsFit, BatchFit, NEW o \in Operations,
         NEW how \in Verdicts, NEW noted \in BOOLEAN, Step(o, how, noted),
         UNCHANGED parent, phase[o] # "new", EndsWhole(o),
         phase'[o] \in {"reading", "closing"} => o \notin Batches
  PROVE  BatchFit'
<1>0. /\ \A x \in Operations \ {o} :
           phase'[x] = phase[x] /\ verdict'[x] = verdict[x] /\ Records(x)' = Records(x)
      /\ verdict'[o] = how
      /\ IF noted THEN Records(o) = {} /\ Records(o)' = {Len(trace) + 1}
         ELSE Records(o)' = Records(o)
      /\ Len(trace) \in Nat
      /\ \A x \in Operations : Records(x) \subseteq 1..Len(trace)
  BY StepFacts
<1>1. /\ phase[o] # "done" /\ phase'[o] # "new"
      /\ phase[o] \notin {"acting", "checking", "reading", "closing"} => how = verdict[o]
      /\ how = "none" \/ how = "ok" \/ how = verdict[o] \/ noted
      /\ phase[o] \in {"recording", "leaving"} => phase'[o] \in {"leaving", "done"}
  BY DEF Step, Working, CallsFit
<1>2. \A x \in Operations : parent[x] \in Operations \cup {None} /\ (parent[x] # None => parent[x] \in Batches)
  BY BatchesAreCalls, NoneIsNoCall DEF CallTypes
<1>3. ASSUME NEW x \in Operations PROVE StepFits(x)'
  <2> SUFFICES ASSUME NEW b \in Operations, b = parent[x], b # None
               PROVE  /\ x \notin Batches /\ phase'[x] # "new"
                      /\ phase'[b] \in {"acting", "recording", "leaving", "done"}
                      /\ phase'[b] # "acting" => phase'[x] = "done"
                      /\ \A i \in Records(x)', j \in Records(b)' : i < j
    BY <1>2 DEF StepFits
  <2>1. /\ b \in Batches
        /\ x \notin Batches /\ phase[x] # "new"
        /\ phase[b] \in {"acting", "recording", "leaving", "done"}
        /\ phase[b] # "acting" => phase[x] = "done"
        /\ \A i \in Records(x), j \in Records(b) : i < j
    BY <1>2 DEF BatchFit, StepFits
  <2>2. CASE x = o
    <3>1. phase[b] = "acting" /\ b # o
      BY <1>1, <2>1, <2>2
    <3>2. Records(b)' = {} /\ phase'[b] = "acting"
      BY <1>0, <2>1, <3>1 DEF RecordsFit
    <3> QED BY <1>1, <2>1, <2>2, <3>2
  <2>3. CASE b = o
    <3>1. x # o /\ x \in Steps(o)
      BY <2>1, <2>3 DEF Steps
    <3>2. phase[o] = "acting" => phase'[o] \in {"recording", "leaving"} /\ phase[x] = "done"
      BY <2>1, <2>3, <3>1 DEF EndsWhole
    <3>3. phase'[o] \in {"recording", "leaving", "done"} /\ phase'[x] = "done"
      BY <1>0, <1>1, <2>1, <2>3, <3>1, <3>2
    <3>4. \A i \in Records(x)', j \in Records(b)' : i < j
      <4>1. Records(x)' = Records(x) /\ Records(x) \subseteq 1..Len(trace)
        BY <1>0, <3>1
      <4>2. CASE noted
        BY <1>0, <2>3, <4>1, <4>2
      <4>3. CASE ~noted
        BY <1>0, <2>1, <2>3, <4>1, <4>3
      <4> QED BY <4>2, <4>3
    <3> QED BY <2>1, <2>3, <3>1, <3>3, <3>4
  <2>4. CASE x # o /\ b # o
    BY <1>0, <2>1, <2>4
  <2> QED BY <2>2, <2>3, <2>4
<1>4. ASSUME NEW x \in Operations, NEW y \in Operations PROVE SiblingsFit(x, y)'
  <2> SUFFICES ASSUME parent[x] = parent[y], parent[x] # None, x # y
               PROVE  /\ Passed(x)' \/ Passed(y)'
                      /\ verdict'[x] \notin {"none", "ok"} =>
                           \A i \in Records(x)', j \in Records(y)' : j < i
    BY DEF SiblingsFit
  <2>1. /\ Passed(x) \/ Passed(y)
        /\ verdict[x] \notin {"none", "ok"} => \A i \in Records(x), j \in Records(y) : j < i
    BY DEF BatchFit, SiblingsFit
  <2>2. ASSUME NEW z \in Operations, Passed(z) PROVE Passed(z)' /\ z # o
    BY <1>0, <1>1, <2>2 DEF Passed
  <2>3. CASE x = o
    <3>1. Records(y)' = Records(y) /\ Records(y) \subseteq 1..Len(trace)
      BY <1>0, <2>3
    <3>2. CASE noted
      BY <1>0, <2>1, <2>2, <2>3, <3>1, <3>2
    <3>3. CASE ~noted
      BY <1>0, <1>1, <2>1, <2>2, <2>3, <3>1, <3>3
    <3> QED BY <3>2, <3>3
  <2>4. CASE y = o
    <3>1. Passed(x) /\ verdict'[x] = "ok"
      BY <1>0, <2>1, <2>2, <2>4 DEF Passed
    <3> QED BY <2>2, <3>1
  <2>5. CASE x # o /\ y # o
    BY <1>0, <2>1, <2>2, <2>5
  <2> QED BY <2>3, <2>4, <2>5
<1>5. \A x \in Operations : phase'[x] \in {"reading", "closing"} => x \notin Batches
  BY <1>0 DEF BatchFit
<1> QED BY <1>3, <1>4, <1>5 DEF BatchFit

LEMMA StartBatches ==
  ASSUME CallTypes, CallsFit, RecordsFit, BatchFit, NEW o \in Operations,
         NEW how \in Verdicts, NEW noted \in BOOLEAN, Step(o, how, noted),
         NEW b \in Batches \cup {None}, Callable(o, b), parent' = [parent EXCEPT ![o] = b]
  PROVE  BatchFit'
<1>0. /\ \A x \in Operations \ {o} :
           phase'[x] = phase[x] /\ verdict'[x] = verdict[x] /\ Records(x)' = Records(x)
      /\ verdict'[o] = how
      /\ IF noted THEN Records(o) = {} /\ Records(o)' = {Len(trace) + 1}
         ELSE Records(o)' = Records(o)
      /\ Len(trace) \in Nat
      /\ \A x \in Operations : Records(x) \subseteq 1..Len(trace)
  BY StepFacts
<1>1. phase[o] = "new" /\ phase'[o] \in {"refused", "leaving", "checking"}
  BY DEF Callable, Step, Working
<1>2. /\ \A x \in Operations : parent[x] # None => parent[x] \in Operations /\ parent[x] # o /\ x # o
      /\ \A x \in Operations \ {o} : parent'[x] = parent[x]
      /\ parent'[o] = b
  BY <1>1, BatchesAreCalls, NoneIsNoCall DEF CallTypes, BatchFit, StepFits
<1>3. b # None => /\ b \in Operations /\ b # o /\ phase[b] = "acting" /\ o \notin Batches
                  /\ \A x \in Operations : parent[x] = b => Passed(x)
  BY <1>1, BatchesAreCalls DEF Callable, MayFollow, Steps, Passed
<1>4. ASSUME NEW x \in Operations PROVE StepFits(x)'
  <2>1. CASE x = o /\ b # None
    <3>1. Records(b)' = {} /\ phase'[b] = "acting"
      BY <1>0, <1>3, <2>1 DEF RecordsFit
    <3>2. phase'[o] # "new" /\ o \notin Batches /\ parent'[o] = b
      BY <1>1, <1>2, <1>3, <2>1
    <3> QED BY <2>1, <3>1, <3>2 DEF StepFits
  <2>2. CASE x = o /\ b = None
    BY <1>2, <2>2 DEF StepFits
  <2>3. CASE x # o
    <3>1. parent'[x] = parent[x] /\ phase'[x] = phase[x] /\ Records(x)' = Records(x) /\ StepFits(x)
      BY <1>0, <1>2, <2>3 DEF BatchFit
    <3>2. CASE parent[x] = None
      BY <3>1, <3>2 DEF StepFits
    <3>3. CASE parent[x] # None
      <4>1. phase'[parent[x]] = phase[parent[x]] /\ Records(parent[x])' = Records(parent[x])
        BY <1>0, <1>2, <3>3
      <4> QED BY <3>1, <4>1 DEF StepFits
    <3> QED BY <3>2, <3>3
  <2> QED BY <2>1, <2>2, <2>3
<1>5. ASSUME NEW x \in Operations, NEW y \in Operations PROVE SiblingsFit(x, y)'
  <2> SUFFICES ASSUME parent'[x] = parent'[y], parent'[x] # None, x # y
               PROVE  /\ Passed(x)' \/ Passed(y)'
                      /\ verdict'[x] \notin {"none", "ok"} =>
                           \A i \in Records(x)', j \in Records(y)' : j < i
    BY DEF SiblingsFit
  <2>1. ASSUME NEW z \in Operations, z # o, Passed(z) PROVE Passed(z)'
    BY <1>0, <2>1 DEF Passed
  <2>2. CASE x = o
    <3>1. Passed(y) /\ y # o /\ Records(y)' = Records(y) /\ Records(y) \subseteq 1..Len(trace)
      BY <1>0, <1>2, <1>3, <2>2
    <3>2. Records(o) = {}
      BY <1>1 DEF RecordsFit
    <3>3. \A i \in Records(o)' : i = Len(trace) + 1
      BY <1>0, <3>2
    <3> QED BY <1>0, <2>1, <2>2, <3>1, <3>3
  <2>3. CASE y = o
    <3>1. Passed(x) /\ x # o
      BY <1>2, <1>3, <2>3
    <3>2. verdict'[x] = "ok"
      BY <1>0, <3>1 DEF Passed
    <3> QED BY <2>1, <3>1, <3>2
  <2>4. CASE x # o /\ y # o
    BY <1>0, <1>2, <2>1, <2>4 DEF BatchFit, SiblingsFit
  <2> QED BY <2>2, <2>3, <2>4
<1>6. \A x \in Operations : phase'[x] \in {"reading", "closing"} => x \notin Batches
  BY <1>0, <1>1 DEF BatchFit
<1> QED BY <1>4, <1>5, <1>6 DEF BatchFit

LEMMA NextBatches ==
  ASSUME CallTypes, CallsFit, RecordsFit, BatchFit, Shape
  PROVE  BatchFit'
<1>1. ASSUME NEW o \in Operations, NEW b \in Batches \cup {None}, Starts(o, b) PROVE BatchFit'
  BY <1>1, CallsTakeSteps, StartBatches DEF Starts
<1>2. ASSUME NEW o \in Operations, Advances(o) \/ Returns(o) PROVE BatchFit'
  <2>1. phase[o] # "new" /\ UNCHANGED parent
    BY <1>2 DEF Advances, Goes, Settles, Reports, Returns
  <2>2. EndsWhole(o) /\ (phase'[o] \in {"reading", "closing"} => o \notin Batches)
    <3>1. CASE Goes(o)
      BY <3>1 DEF Goes, Enter, EndsWhole, CallTypes
    <3>2. CASE Settles(o)
      BY <3>2 DEF Settles, Settle, Enter, EndsWhole, CallTypes
    <3>3. CASE Reports(o) \/ Returns(o)
      BY <3>3 DEF Reports, Returns, Enter, EndsWhole, CallTypes
    <3> QED BY <1>2, <3>1, <3>2, <3>3 DEF Advances
  <2> QED BY <1>2, <2>1, <2>2, CallsTakeSteps, AdvanceBatches
<1>3. ASSUME UNCHANGED <<phase, parent, verdict>>, \A x \in Operations : Records(x)' = Records(x)
      PROVE  BatchFit'
  BY <1>3, BatchesAreCalls DEF BatchFit, StepFits, SiblingsFit, Passed, CallTypes
<1>4. ASSUME NEW what \in Events, Turns(what) PROVE BatchFit'
  BY <1>3, <1>4, NoteRecords, EventEntry DEF Turns, CallsKept, CallTypes
<1>5. CASE Rests
  BY <1>3, <1>5 DEF Rests, CallsKept, Records
<1> QED BY <1>1, <1>2, <1>4, <1>5 DEF Shape

-----------------------------------------------------------------------------
(* Pauses.  Whoever is still inside a call, or may yet begin one, has no     *)
(* pause behind him that was not lifted.                                    *)
Lifted ==
  \A j \in 1..Len(trace) : trace[j].what = "paused" =>
    \E k \in j..Len(trace) : trace[k].what = "automation-resumed"

PauseFit ==
  /\ running # {} \/ state \in {"automation", "pausing"} => Lifted
  /\ PauseIsQuiet

LEMMA InitPauses == SessionInit => BatchFit /\ PauseFit
<1> SUFFICES ASSUME SessionInit PROVE BatchFit /\ PauseFit
  OBVIOUS
<1>1. BatchFit
  BY DEF SessionInit, BatchFit, StepFits, SiblingsFit
<1>2. PauseFit
  BY DEF SessionInit, PauseFit, Lifted, PauseIsQuiet
<1> QED BY <1>1, <1>2

LEMMA LiftedStays ==
  ASSUME CallTypes, NEW e \in Entries, Note(e), Lifted, e.what # "paused"
  PROVE  Lifted'
<1>1. /\ Len(trace) \in Nat /\ Len(trace') = Len(trace) + 1
      /\ \A i \in 1..Len(trace) : trace'[i] = trace[i]
      /\ trace'[Len(trace) + 1] = e
  BY NoteFacts DEF CallTypes
<1> SUFFICES ASSUME NEW j \in 1..Len(trace'), trace'[j].what = "paused"
             PROVE  \E k \in j..Len(trace') : trace'[k].what = "automation-resumed"
  BY DEF Lifted
<1>2. j \in 1..Len(trace) /\ trace[j].what = "paused"
  BY <1>1
<1>3. PICK k \in j..Len(trace) : trace[k].what = "automation-resumed"
  BY <1>2 DEF Lifted
<1>4. k \in j..Len(trace') /\ trace'[k].what = "automation-resumed"
  BY <1>1, <1>2, <1>3
<1> QED BY <1>4

LEMMA QuietStays ==
  ASSUME CallTypes, PauseIsQuiet, NEW e \in Entries, Note(e),
         e.who # None /\ e.what # "blocked" => Lifted /\ e.what # "paused"
  PROVE  PauseIsQuiet'
<1>1. /\ Len(trace) \in Nat
      /\ DOMAIN trace = 1..Len(trace) /\ DOMAIN trace' = 1..Len(trace) + 1
      /\ \A i \in 1..Len(trace) : trace'[i] = trace[i]
      /\ trace'[Len(trace) + 1] = e
  BY NoteFacts DEF CallTypes
<1> SUFFICES ASSUME NEW i \in 1..Len(trace) + 1, trace'[i].who # None, trace'[i].what # "blocked",
                    NEW j \in 1..i, trace'[j].what = "paused"
             PROVE  \E k \in j..i : trace'[k].what = "automation-resumed"
  BY <1>1 DEF PauseIsQuiet
<1>2. CASE i \in 1..Len(trace)
  <2>1. PICK k \in j..i : trace[k].what = "automation-resumed"
    BY <1>1, <1>2 DEF PauseIsQuiet
  <2>2. trace'[k] = trace[k]
    BY <1>1, <1>2, <2>1
  <2> QED BY <2>1, <2>2
<1>3. CASE i = Len(trace) + 1
  <2>1. Lifted /\ j \in 1..Len(trace) /\ trace[j].what = "paused"
    BY <1>1, <1>3
  <2>2. PICK k \in j..Len(trace) : trace[k].what = "automation-resumed"
    BY <2>1 DEF Lifted
  <2>3. k \in j..i /\ trace'[k].what = "automation-resumed"
    BY <1>1, <1>3, <2>1, <2>2
  <2> QED BY <2>3
<1> QED BY <1>1, <1>2, <1>3

LEMMA NextPauses ==
  ASSUME CallTypes, CallsFit, RecordsFit, PauseFit, Shape
  PROVE  PauseFit'
<1>1. ASSUME NEW o \in Operations, NEW how \in Verdicts, NEW noted \in BOOLEAN,
             Step(o, how, noted), UNCHANGED state
      PROVE  PauseFit'
  <2>1. how # "paused"
    BY DEF Verdicts
  <2>2. running' # {} => running # {} \/ state = "automation"
    BY <1>1 DEF Step
  <2>3. CASE noted
    <3> DEFINE e == [who |-> o, what |-> how]
    <3>1. Note(e) /\ e \in Entries /\ e.what = how /\ e.who = o
      BY <1>1, <2>3, CallEntry DEF Step
    <3>2. how = "blocked" \/ Lifted
      BY <1>1, <2>3 DEF Step, CallsFit, PauseFit, Inside, Working
    <3> HIDE DEF e
    <3>3. PauseIsQuiet'
      BY <2>1, <3>1, <3>2, QuietStays DEF PauseFit
    <3>4. Lifted => Lifted'
      BY <2>1, <3>1, LiftedStays
    <3> QED BY <1>1, <2>2, <3>3, <3>4 DEF PauseFit
  <2>4. CASE ~noted
    <3>1. UNCHANGED trace
      BY <1>1, <2>4 DEF Step
    <3> QED BY <1>1, <2>2, <3>1 DEF PauseFit, Lifted, PauseIsQuiet
  <2> QED BY <2>3, <2>4
<1>2. ASSUME NEW what \in Events, Turns(what) PROVE PauseFit'
  <2> DEFINE e == [who |-> None, what |-> what]
  <2>1. Note(e) /\ e \in Entries /\ e.what = what /\ e.who = None
    BY <1>2, EventEntry DEF Turns
  <2> HIDE DEF e
  <2>2. PauseIsQuiet'
    BY <2>1, QuietStays DEF PauseFit
  <2>3. CASE what = "paused"
    BY <1>2, <2>2, <2>3 DEF Turns, CallsKept, PauseFit
  <2>4. CASE what = "automation-resumed"
    <3>1. /\ Len(trace) \in Nat /\ Len(trace') = Len(trace) + 1
          /\ trace'[Len(trace) + 1].what = "automation-resumed"
      BY <2>1, <2>4, NoteFacts DEF CallTypes
    <3>2. Lifted'
      BY <3>1 DEF Lifted
    <3> QED BY <2>2, <3>2 DEF PauseFit
  <2>5. CASE what \notin {"paused", "automation-resumed"}
    <3>1. Lifted => Lifted'
      BY <2>1, <2>5, LiftedStays
    <3>2. running' = running /\ (state' \in {"automation", "pausing"} => state \in {"automation", "pausing"})
      BY <1>2, <2>5 DEF Turns, CallsKept
    <3> QED BY <2>2, <3>1, <3>2 DEF PauseFit
  <2> QED BY <2>3, <2>4, <2>5
<1>3. CASE Rests
  BY <1>3 DEF Rests, CallsKept, PauseFit, Lifted, PauseIsQuiet
<1> QED BY <1>1, <1>2, <1>3, CallsTakeSteps DEF Shape

-----------------------------------------------------------------------------
(* Pages.  Once a person has lost the active page, no call begins to work   *)
(* before reconcileActivePage has looked at the pages again.                *)
PageTypes ==
  /\ active \in Pages
  /\ pages \in Seq(Pages) /\ IsInjective(pages)
  /\ awaiting \in BOOLEAN
  /\ gone \subseteq Pages \ Open
  /\ lost \subseteq gone

LostFit ==
  active \in lost =>
    /\ awaiting \/ state \in {"human-control", "closed"}
    /\ \A o \in Operations : phase[o] \notin Working

LEMMA OpenIsPages ==
  ASSUME pages \in Seq(Pages)
  PROVE  /\ Open \subseteq Pages
         /\ pages # <<>> => Head(pages) \in Open /\ Last(pages) \in Open
BY DEF Open, ToSet, Last

LEMMA ConcatFacts ==
  ASSUME NEW S, NEW a \in Seq(S), NEW c \in Seq(S)
  PROVE  /\ a \o c \in Seq(S) /\ Len(a \o c) = Len(a) + Len(c)
         /\ \A j \in 1..Len(a) + Len(c) :
              (a \o c)[j] = IF j <= Len(a) THEN a[j] ELSE c[j - Len(a)]
OBVIOUS

(* What splice does to a list without repetitions.                          *)
LEMMA RemoveAtFacts ==
  ASSUME pages \in Seq(Pages), IsInjective(pages), NEW i \in DOMAIN pages,
         pages' = RemoveAt(pages, i)
  PROVE  pages' \in Seq(Pages) /\ IsInjective(pages)' /\ Open' = Open \ {pages[i]}
<1> DEFINE n == Len(pages)
<1>1. n \in Nat /\ DOMAIN pages = 1..n /\ i \in 1..n
  OBVIOUS
<1>2. /\ SubSeq(pages, 1, i - 1) \in Seq(Pages) /\ Len(SubSeq(pages, 1, i - 1)) = i - 1
      /\ \A j \in 1..i - 1 : SubSeq(pages, 1, i - 1)[j] = pages[j]
  BY <1>1
<1>3. /\ SubSeq(pages, i + 1, n) \in Seq(Pages) /\ Len(SubSeq(pages, i + 1, n)) = n - i
      /\ \A j \in 1..n - i : SubSeq(pages, i + 1, n)[j] = pages[j + i]
  BY <1>1
<1>4. /\ pages' \in Seq(Pages) /\ Len(pages') = n - 1
      /\ \A j \in 1..n - 1 : pages'[j] = IF j < i THEN pages[j] ELSE pages[j + 1]
  <2> DEFINE a == SubSeq(pages, 1, i - 1)
             c == SubSeq(pages, i + 1, n)
  <2>1. pages' = a \o c
    BY DEF RemoveAt
  <2>2. a \in Seq(Pages) /\ c \in Seq(Pages) /\ Len(a) = i - 1 /\ Len(c) = n - i
    BY <1>2, <1>3
  <2>3. (\A j \in 1..i - 1 : a[j] = pages[j]) /\ \A j \in 1..n - i : c[j] = pages[j + i]
    BY <1>2, <1>3
  <2> HIDE DEF a, c, n
  <2>4. /\ pages' \in Seq(Pages) /\ Len(pages') = (i - 1) + (n - i)
        /\ \A j \in 1..(i - 1) + (n - i) :
             pages'[j] = IF j <= i - 1 THEN a[j] ELSE c[j - (i - 1)]
    <3>1. /\ a \o c \in Seq(Pages) /\ Len(a \o c) = Len(a) + Len(c)
          /\ \A j \in 1..Len(a) + Len(c) :
               (a \o c)[j] = IF j <= Len(a) THEN a[j] ELSE c[j - Len(a)]
      BY <2>2, ConcatFacts
    <3> QED BY <2>1, <2>2, <3>1
  <2>5. (i - 1) + (n - i) = n - 1
    BY <1>1
  <2>6. ASSUME NEW j \in 1..n - 1 PROVE pages'[j] = IF j < i THEN pages[j] ELSE pages[j + 1]
    <3>1. CASE j < i
      BY <1>1, <2>3, <2>4, <2>5, <3>1
    <3>2. CASE ~(j < i)
      <4>1. j - (i - 1) \in 1..n - i /\ j - (i - 1) + i = j + 1
        BY <1>1, <3>2
      <4>2. pages'[j] = c[j - (i - 1)]
        BY <1>1, <2>4, <2>5, <3>2
      <4> QED BY <2>3, <3>2, <4>1, <4>2
    <3> QED BY <3>1, <3>2
  <2> QED BY <2>4, <2>5, <2>6
<1> HIDE DEF n
<1>5. DOMAIN pages' = 1..n - 1
  BY <1>4
<1>6. IsInjective(pages)'
  <2> SUFFICES ASSUME NEW j \in 1..n - 1, NEW k \in 1..n - 1, pages'[j] = pages'[k]
               PROVE  j = k
    BY <1>5 DEF IsInjective
  <2>1. PICK x \in 1..n : pages'[j] = pages[x] /\ x = IF j < i THEN j ELSE j + 1
    BY <1>1, <1>4
  <2>2. PICK y \in 1..n : pages'[k] = pages[y] /\ y = IF k < i THEN k ELSE k + 1
    BY <1>1, <1>4
  <2>3. x = y
    BY <1>1, <2>1, <2>2 DEF IsInjective
  <2> QED BY <1>1, <2>1, <2>2, <2>3
<1>7. Open' \subseteq Open \ {pages[i]}
  <2> SUFFICES ASSUME NEW j \in 1..n - 1
               PROVE  pages'[j] \in Open \ {pages[i]}
    BY <1>5 DEF Open, ToSet
  <2>1. PICK k \in 1..n : pages'[j] = pages[k] /\ k # i
    BY <1>1, <1>4
  <2>2. pages[k] \in Open
    BY <1>1 DEF Open, ToSet
  <2>3. pages[k] # pages[i]
    BY <1>1, <2>1 DEF IsInjective
  <2> QED BY <2>1, <2>2, <2>3
<1>8. Open \ {pages[i]} \subseteq Open'
  <2> SUFFICES ASSUME NEW j \in 1..n, j # i PROVE pages[j] \in Open'
    BY <1>1 DEF Open, ToSet
  <2>1. CASE j < i
    BY <1>1, <1>4, <1>5, <2>1 DEF Open, ToSet
  <2>2. CASE j > i
    <3>1. j - 1 \in 1..n - 1 /\ pages'[j - 1] = pages[j]
      BY <1>1, <1>4, <2>2
    <3> QED BY <1>5, <3>1 DEF Open, ToSet
  <2> QED BY <1>1, <2>1, <2>2
<1> QED BY <1>4, <1>6, <1>7, <1>8

LEMMA AppendFacts ==
  ASSUME pages \in Seq(Pages), IsInjective(pages), NEW p \in Pages \ Open, pages' = Append(pages, p)
  PROVE  pages' \in Seq(Pages) /\ IsInjective(pages)' /\ Open' = Open \cup {p}
<1>1. /\ pages' \in Seq(Pages) /\ Len(pages) \in Nat /\ DOMAIN pages = 1..Len(pages)
      /\ DOMAIN pages' = 1..Len(pages) + 1
      /\ \A i \in 1..Len(pages) : pages'[i] = pages[i] /\ pages[i] # p
      /\ pages'[Len(pages) + 1] = p
  BY DEF Open, ToSet
<1>2. IsInjective(pages)'
  BY <1>1 DEF IsInjective
<1>3. Open' = Open \cup {p}
  BY <1>1 DEF Open, ToSet
<1> QED BY <1>1, <1>2, <1>3

LEMMA PagesStay ==
  ASSUME PageTypes, LostFit, UNCHANGED <<active, pages, gone, lost>>, awaiting' \in BOOLEAN,
         awaiting => awaiting',
         state \in {"human-control", "closed"} => awaiting' \/ state' \in {"human-control", "closed"},
         \A o \in Operations : phase'[o] \in Working => phase[o] \in Working
  PROVE  PageTypes' /\ LostFit'
BY DEF PageTypes, LostFit, Open

LEMMA BeginPages ==
  ASSUME CallTypes, PageTypes, LostFit, NEW o \in Operations, NEW b \in Batches \cup {None}, Begin(o, b)
  PROVE  PageTypes' /\ LostFit'
<1>1. state = "automation" /\ state' = state /\ UNCHANGED <<pages, gone, lost>>
  BY DEF Begin, Admit
<1>2. CASE Unavailable /\ Enter(o, "leaving") /\ UNCHANGED <<active, awaiting>>
  <2>1. \A x \in Operations : phase'[x] \in Working => phase[x] \in Working
    BY <1>2 DEF Enter, CallTypes, Working
  <2> QED BY <1>1, <1>2, <2>1, PagesStay DEF PageTypes
<1>3. CASE ~Unavailable /\ Reconciled
  <2>1. active \in lost => active' \in Open
    <3> SUFFICES ASSUME active \in lost PROVE active' \in Open
      OBVIOUS
    <3>1. awaiting /\ active \notin Open
      BY <1>1 DEF LostFit, PageTypes
    <3>2. pages # <<>>
      BY <1>3, <3>1 DEF Unavailable
    <3> QED BY <1>3, <3>1, <3>2, OpenIsPages DEF Reconciled, PageTypes
  <2>2. active' = active \/ active' \in Open
    BY <1>3, OpenIsPages DEF Reconciled, PageTypes
  <2>3. active' \notin lost
    BY <2>1, <2>2 DEF PageTypes
  <2>4. active' \in Pages /\ awaiting' \in BOOLEAN
    BY <1>3, <2>2, OpenIsPages DEF PageTypes, Reconciled
  <2> QED BY <1>1, <2>3, <2>4 DEF PageTypes, LostFit, Open
<1> QED BY <1>2, <1>3 DEF Begin

LEMMA ClosePages ==
  ASSUME IInv, CallsFit, PageTypes, LostFit, NEW p, PageCloses(p)
  PROVE  PageTypes' /\ LostFit' /\ p \in Open /\ Open' = Open \ {p} /\ gone' = gone \cup {p}
<1>1. PICK i \in DOMAIN pages : pages[i] = p /\ pages' = RemoveAt(pages, i)
  BY DEF PageCloses
<1>2. pages' \in Seq(Pages) /\ IsInjective(pages)' /\ Open' = Open \ {p}
  BY <1>1, RemoveAtFacts DEF PageTypes
<1>3. p \in Open /\ p \in Pages
  BY <1>1, OpenIsPages DEF Open, ToSet, PageTypes
<1>4. UNCHANGED <<active, awaiting, state, phase>> /\ gone' = gone \cup {p} /\ lost' \in {lost, lost \cup {p}}
  BY DEF PageCloses, vars
<1>5. PageTypes'
  BY <1>2, <1>3, <1>4 DEF PageTypes
<1>6. LostFit'
  <2>1. CASE state = "human-control"
    <3>1. \A o \in Operations : phase[o] \notin Working
      BY <2>1, GrantedIsAlone DEF CallsFit, Inside
    <3> QED BY <1>4, <2>1, <3>1 DEF LostFit
  <2>2. CASE state # "human-control"
    <3>1. lost' = lost
      BY <2>2 DEF PageCloses
    <3> QED BY <1>4, <3>1 DEF LostFit
  <2> QED BY <2>1, <2>2
<1> QED BY <1>2, <1>3, <1>4, <1>5, <1>6

(* Which calls work is changed by a call alone: it begins to, or stops.     *)
LEMMA WorkersStay ==
  ASSUME CallTypes, NEW o \in Operations,
         \/ \E b \in Batches \cup {None} : Refuse(o, b)
         \/ CallStep(o)
  PROVE  \A x \in Operations : phase'[x] \in Working => phase[x] \in Working
<1>1. ASSUME NEW b \in Batches \cup {None}, Refuse(o, b)
      PROVE  \A x \in Operations : phase'[x] \in Working => phase[x] \in Working
  BY <1>1 DEF Refuse, Enter, CallTypes, Working
<1>2. ASSUME Settle(o, "ok") \/ Settle(o, "failed") \/ Enter(o, "done") \/ Enter(o, "leaving")
      PROVE  \A x \in Operations : phase'[x] \in Working => phase[x] \in Working
  BY <1>2 DEF Settle, Enter, CallTypes, Working
<1>3. ASSUME phase[o] \in Working, Enter(o, "acting") \/ Enter(o, "closing") \/ Enter(o, "reading")
      PROVE  \A x \in Operations : phase'[x] \in Working => phase[x] \in Working
  BY <1>3 DEF Enter, CallTypes, Working
<1>4. ASSUME CallStep(o) PROVE \A x \in Operations : phase'[x] \in Working => phase[x] \in Working
  <2>1. CASE Allowed(o) \/ (\E p \in Pages : BeginClose(o, p)) \/ BeginSnapshot(o)
    BY <1>3, <2>1 DEF Allowed, BeginClose, BeginSnapshot, Working
  <2>2. CASE CloseTarget(o)
    BY <2>2 DEF CloseTarget, PageCloses
  <2>3. CASE RecordRefusal(o) \/ Record(o) \/ Return(o)
    BY <1>2, <2>3 DEF RecordRefusal, Record, Return
  <2>4. CASE Denied(o) \/ Act(o) \/ (\E p \in Pages : SelectPage(o, p)) \/ EndClose(o)
    BY <1>2, <2>4 DEF Denied, Act, SelectPage, EndClose
  <2>5. CASE EndSnapshot(o) \/ EndBatch(o)
    BY <1>2, <2>5 DEF EndSnapshot, EndBatch
  <2> QED BY <1>4, <2>1, <2>2, <2>3, <2>4, <2>5 DEF CallStep
<1> QED BY <1>1, <1>4

LEMMA CallPages ==
  ASSUME IInv, CallTypes, CallsFit, PageTypes, LostFit, NEW o \in Operations, CallStep(o)
  PROVE  PageTypes' /\ LostFit'
<1>0. \A x \in Operations : phase'[x] \in Working => phase[x] \in Working
  BY WorkersStay
<1>1. CASE CloseTarget(o)
  BY <1>1, ClosePages DEF CloseTarget
<1>2. ASSUME UNCHANGED <<active, pages, awaiting, gone, lost, state>> PROVE PageTypes' /\ LostFit'
  BY <1>0, <1>2, PagesStay DEF PageTypes
<1>3. ASSUME UNCHANGED <<pages, awaiting, gone, lost, state>>, active' \in Open PROVE PageTypes' /\ LostFit'
  BY <1>3, OpenIsPages DEF PageTypes, LostFit, Open
<1>4. ASSUME NEW p \in Pages, SelectPage(o, p) PROVE PageTypes' /\ LostFit'
  BY <1>3, <1>4 DEF SelectPage, vars
<1>5. CASE EndClose(o)
  <2>1. UNCHANGED <<pages, awaiting, gone, lost, state>>
    BY <1>5 DEF EndClose, vars
  <2>2. active' = active \/ active' \in Open
    BY <1>5, OpenIsPages DEF EndClose, PageTypes
  <2> QED BY <1>2, <1>3, <2>1, <2>2
<1>6. CASE RecordRefusal(o) \/ Denied(o) \/ Allowed(o) \/ Act(o)
  BY <1>2, <1>6 DEF RecordRefusal, Denied, Allowed, Act, vars
<1>7. CASE (\E p \in Pages : BeginClose(o, p)) \/ BeginSnapshot(o) \/ EndSnapshot(o)
  BY <1>2, <1>7 DEF BeginClose, BeginSnapshot, EndSnapshot, vars
<1>8. CASE EndBatch(o) \/ Record(o) \/ Return(o)
  BY <1>2, <1>8 DEF EndBatch, Record, Return, Exit, vars
<1> QED BY <1>1, <1>4, <1>5, <1>6, <1>7, <1>8 DEF CallStep

LEMMA NextPages ==
  ASSUME IInv, CallTypes, CallsFit, PageTypes, LostFit, SessionNext
  PROVE  PageTypes' /\ LostFit'
<1>1. ASSUME NEW o \in Operations, NEW b \in Batches \cup {None}, Refuse(o, b)
      PROVE  PageTypes' /\ LostFit'
  <2>1. \A x \in Operations : phase'[x] \in Working => phase[x] \in Working
    BY <1>1, WorkersStay
  <2> QED BY <1>1, <2>1, PagesStay DEF Refuse, vars, PageTypes
<1>2. ASSUME NEW o \in Operations, NEW b \in Batches \cup {None}, Begin(o, b)
      PROVE  PageTypes' /\ LostFit'
  BY <1>2, BeginPages
<1>3. ASSUME NEW o \in Operations, CallStep(o) PROVE PageTypes' /\ LostFit'
  BY <1>3, CallPages
<1>4. ASSUME NEW id \in RequestIds, Takeover(id) PROVE PageTypes' /\ LostFit'
  <2>1. /\ UNCHANGED <<phase, active, pages, gone, lost>> /\ awaiting' \in BOOLEAN
        /\ awaiting => awaiting'
        /\ state \in {"human-control", "closed"} => awaiting'
    BY <1>4 DEF Takeover, Observed, RequestTakeover, TakeControl, ResumeAutomation, PageTypes
  <2> QED BY <2>1, PagesStay
<1>5. ASSUME NEW id \in RequestIds, Answer(id) PROVE PageTypes' /\ LostFit'
  <2>1. CASE Granted(id) /\ Observed("paused")
    BY <1>5, <2>1, PagesStay DEF Answer, Granted, Observed, PageTypes
  <2>2. CASE Rejected(id) /\ Unobserved
    BY <1>5, <2>2, PagesStay DEF Answer, Rejected, Unobserved, PageTypes
  <2> QED BY <1>5, <2>1, <2>2 DEF Answer
<1>6. CASE EndSession
  BY <1>6, PagesStay DEF EndSession, Close, TransitionTo, Unobserved, PageTypes
<1>7. ASSUME NEW p \in Pages, PageOpens(p) PROVE PageTypes' /\ LostFit'
  <2>1. pages' \in Seq(Pages) /\ IsInjective(pages)' /\ Open' = Open \cup {p}
    BY <1>7, AppendFacts DEF PageOpens, PageTypes
  <2>2. UNCHANGED <<active, awaiting, gone, lost, state, phase>> /\ p \notin gone
    BY <1>7 DEF PageOpens, vars
  <2> QED BY <2>1, <2>2 DEF PageTypes, LostFit
<1>8. ASSUME NEW p \in Pages, PageCloses(p) PROVE PageTypes' /\ LostFit'
  BY <1>8, ClosePages
<1>9. ASSUME NEW p \in Pages, Navigate(p) PROVE PageTypes' /\ LostFit'
  BY <1>9, PagesStay DEF Navigate, vars, PageTypes
<1> QED BY <1>1, <1>2, <1>3, <1>4, <1>5, <1>6, <1>7, <1>8, <1>9 DEF SessionNext

-----------------------------------------------------------------------------
(* Handovers.  revision counts the transitions, so that what was read at a  *)
(* revision can be compared with the place of a handover in the trace.      *)
Handover == {"paused", "automation-resumed"}
HandoverAt == {i \in 1..Len(trace) : trace[i].what \in Handover}
Heard(n) == {i \in 1..n : trace[i].who = None}

HandoverFit ==
  /\ HandoverAt = {} \/ \E m \in HandoverAt : \A i \in HandoverAt : m >= i
  /\ LastHandover \in Nat /\ LastHandover <= revision
  /\ Cardinality(Heard(Len(trace))) <= revision

LEMMA HandoverDef ==
  LastHandover = IF HandoverAt = {} THEN 0 ELSE Cardinality(Heard(Max(HandoverAt)))
BY DEF LastHandover, HandoverAt, Handover, Heard

LEMMA HeardIsFinite ==
  ASSUME NEW n \in Nat
  PROVE  IsFiniteSet(Heard(n)) /\ Cardinality(Heard(n)) \in Nat
<1>1. IsFiniteSet(1..n)
  BY FS_Interval
<1>2. Heard(n) \in SUBSET (1..n)
  BY DEF Heard
<1> QED BY <1>1, <1>2, FS_Subset, FS_CardinalityType

(* The maximum of HandoverAt is in it.                                      *)
LEMMA MaxIsIn ==
  ASSUME NEW S, NEW m \in S, \A i \in S : m >= i
  PROVE  Max(S) \in S /\ \A i \in S : Max(S) >= i
BY DEF Max

(* An entry that is no handover leaves the latest one where it was.         *)
LEMMA HandoverKept ==
  ASSUME CallTypes, HandoverFit, NEW e \in Entries, Note(e), e.what \notin Handover
  PROVE  /\ LastHandover' = LastHandover
         /\ HandoverAt' = HandoverAt
<1>1. /\ Len(trace) \in Nat /\ Len(trace') = Len(trace) + 1
      /\ \A i \in 1..Len(trace) : trace'[i] = trace[i]
      /\ trace'[Len(trace) + 1] = e
  BY NoteFacts DEF CallTypes
<1>2. HandoverAt' = HandoverAt
  BY <1>1 DEF HandoverAt
<1>3. CASE HandoverAt = {}
  BY <1>2, <1>3, HandoverDef DEF LastHandover, HandoverAt, Handover
<1>4. CASE HandoverAt # {}
  <2>1. PICK m \in HandoverAt : \A i \in HandoverAt : m >= i
    BY <1>4 DEF HandoverFit
  <2>2. Max(HandoverAt) \in 1..Len(trace)
    BY <2>1, MaxIsIn DEF HandoverAt
  <2>3. ASSUME NEW n \in 1..Len(trace) PROVE Heard(n)' = Heard(n)
    BY <1>1 DEF Heard
  <2>4. LastHandover' = Cardinality({i \in 1..Max(HandoverAt') : trace'[i].who = None})
    BY <1>2, <1>4 DEF LastHandover, HandoverAt, Handover
  <2>5. {i \in 1..Max(HandoverAt) : trace'[i].who = None} = Heard(Max(HandoverAt))
    BY <1>1, <2>2 DEF Heard
  <2> QED BY <1>2, <1>4, <2>4, <2>5, HandoverDef
<1> QED BY <1>2, <1>3, <1>4

(* What an entry adds to the number of transitions in the trace.            *)
LEMMA HeardCount ==
  ASSUME CallTypes, HandoverFit, NEW e \in Entries, Note(e)
  PROVE  /\ e.who # None => Heard(Len(trace))' = Heard(Len(trace))
         /\ e.who = None =>
              Cardinality(Heard(Len(trace)))' = Cardinality(Heard(Len(trace))) + 1
<1>1. /\ Len(trace) \in Nat /\ Len(trace') = Len(trace) + 1
      /\ \A i \in 1..Len(trace) : trace'[i] = trace[i]
      /\ trace'[Len(trace) + 1] = e
  BY NoteFacts DEF CallTypes
<1>2. Heard(Len(trace))' = IF e.who = None THEN Heard(Len(trace)) \cup {Len(trace) + 1}
                           ELSE Heard(Len(trace))
  BY <1>1 DEF Heard
<1>3. Len(trace) + 1 \notin Heard(Len(trace)) /\ IsFiniteSet(Heard(Len(trace)))
  BY <1>1, HeardIsFinite DEF Heard
<1> QED BY <1>2, <1>3, FS_AddElement

LEMMA HandoverTurn ==
  ASSUME CallTypes, HandoverFit, NEW what \in Handover, Note([who |-> None, what |-> what])
  PROVE  /\ \E m \in HandoverAt' : \A i \in HandoverAt' : m >= i
         /\ LastHandover' = Cardinality(Heard(Len(trace)))'
<1> DEFINE e == [who |-> None, what |-> what]
<1>0. e \in Entries /\ e.what \in Handover /\ Note(e)
  BY EventEntry DEF Handover, Events
<1> HIDE DEF e
<1>1. /\ Len(trace) \in Nat /\ Len(trace') = Len(trace) + 1
      /\ trace'[Len(trace) + 1] = e
  BY <1>0, NoteFacts DEF CallTypes
<1>2. Len(trace') \in HandoverAt' /\ \A i \in HandoverAt' : Len(trace') >= i
  BY <1>0, <1>1 DEF HandoverAt
<1>3. Max(HandoverAt') = Len(trace')
  <2>1. Max(HandoverAt') \in HandoverAt' /\ Max(HandoverAt') >= Len(trace')
    BY <1>2, MaxIsIn
  <2> QED BY <1>1, <1>2, <2>1 DEF HandoverAt
<1>4. LastHandover' = Cardinality({i \in 1..Max(HandoverAt') : trace'[i].who = None})
  BY <1>2 DEF LastHandover, HandoverAt, Handover
<1> QED BY <1>2, <1>3, <1>4 DEF Heard

LEMMA NextHandovers ==
  ASSUME CallTypes, HandoverFit, revision \in Nat, Shape
  PROVE  HandoverFit' /\ (revision' = revision => LastHandover' = LastHandover)
<1>1. Cardinality(Heard(Len(trace))) \in Nat
  BY HeardIsFinite DEF CallTypes
<1>2. ASSUME UNCHANGED trace, revision' \in Nat, revision' >= revision
      PROVE  HandoverFit' /\ LastHandover' = LastHandover
  <2>1. LastHandover' = LastHandover
    BY <1>2 DEF LastHandover
  <2>2. HandoverAt' = HandoverAt /\ Cardinality(Heard(Len(trace)))' = Cardinality(Heard(Len(trace)))
    BY <1>2 DEF HandoverAt, Heard
  <2> QED BY <1>1, <1>2, <2>1, <2>2 DEF HandoverFit
<1>3. ASSUME NEW o \in Operations, NEW how \in Verdicts, NEW noted \in BOOLEAN,
             Step(o, how, noted), UNCHANGED revision
      PROVE  HandoverFit' /\ LastHandover' = LastHandover
  <2>1. CASE ~noted
    BY <1>2, <1>3, <2>1 DEF Step
  <2>2. CASE noted
    <3> DEFINE e == [who |-> o, what |-> how]
    <3>1. Note(e) /\ e \in Entries /\ e.what = how /\ e.who = o
      BY <1>3, <2>2, CallEntry DEF Step
    <3>2. e.what \notin Handover /\ e.who # None
      BY <3>1, NoneIsNoCall DEF Verdicts, Handover
    <3> HIDE DEF e
    <3>3. LastHandover' = LastHandover /\ HandoverAt' = HandoverAt
      BY <3>1, <3>2, HandoverKept
    <3>4. Heard(Len(trace))' = Heard(Len(trace))
      BY <3>1, <3>2, HeardCount
    <3>5. Cardinality(Heard(Len(trace)))' = Cardinality(Heard(Len(trace)))
      BY <3>4
    <3> QED BY <1>3, <3>3, <3>5 DEF HandoverFit
  <2> QED BY <2>1, <2>2
<1>4. ASSUME NEW what \in Events, Turns(what) PROVE HandoverFit' /\ revision' # revision
  <2> DEFINE e == [who |-> None, what |-> what]
             count == Cardinality(Heard(Len(trace)))
  <2>1. Note(e) /\ e \in Entries /\ e.what = what /\ e.who = None
    BY <1>4, EventEntry DEF Turns
  <2>2. revision' = revision + 1 /\ count' = count + 1 /\ count <= revision
    BY <1>4, <2>1, HeardCount DEF Turns, HandoverFit
  <2>3. CASE what \in Handover
    <3>1. LastHandover' = count' /\ \E m \in HandoverAt' : \A i \in HandoverAt' : m >= i
      BY <2>1, <2>3, HandoverTurn
    <3> HIDE DEF count
    <3>2. count \in Nat
      BY <1>1 DEF count
    <3>3. LastHandover' \in Nat /\ LastHandover' <= revision'
      BY <2>2, <3>1, <3>2
    <3>4. count' <= revision'
      BY <2>2, <3>2
    <3> QED BY <2>2, <3>1, <3>3, <3>4 DEF HandoverFit, count
  <2>4. CASE what \notin Handover
    <3>1. LastHandover' = LastHandover /\ HandoverAt' = HandoverAt
      BY <2>1, <2>4, HandoverKept
    <3> HIDE DEF count
    <3>2. count \in Nat
      BY <1>1 DEF count
    <3>3. count' <= revision' /\ LastHandover' \in Nat /\ LastHandover' <= revision'
      BY <2>2, <3>1, <3>2 DEF HandoverFit
    <3> QED BY <2>2, <3>1, <3>3 DEF HandoverFit, count
  <2> QED BY <2>3, <2>4
<1>5. CASE Rests
  BY <1>2, <1>5 DEF Rests
<1> QED BY <1>2, <1>3, <1>4, <1>5, CallsTakeSteps DEF Shape

-----------------------------------------------------------------------------
(* References.  What an open page has was read after the latest handover,   *)
(* and so will be what a snapshot that is under way is about to store.      *)
RefTypes ==
  /\ held \in [Operations -> Reading \cup Closing \cup {None}]
  /\ refs \in [Pages -> References \cup {None}]
  /\ epoch \in [Pages -> Nat] /\ documents \in [Pages -> 1..(MaxNavigations + 1)]
  /\ given \in [Pages -> SUBSET Nat]

RefFit(p) ==
  refs[p] # None =>
    /\ refs[p].epoch <= epoch[p]
    /\ refs[p].epoch = epoch[p] => refs[p].document = documents[p]
    /\ p \in Open => refs[p].since >= LastHandover
    /\ p \in Open \cup gone

HeldFit(o) ==
  /\ phase[o] = "reading" => held[o] \in Reading /\ held[o].since >= LastHandover
  /\ phase[o] = "closing" => held[o] \in Closing

StaleFit ==
  /\ \A p \in Pages : RefFit(p)
  /\ \A o \in Operations : HeldFit(o)

LEMMA RefsStay ==
  ASSUME RefTypes, StaleFit, UNCHANGED <<held, referenceVars, documents, gone>>,
         Open' \subseteq Open, Open \subseteq Open' \cup gone', LastHandover' = LastHandover,
         \A o \in Operations : phase'[o] \in {"reading", "closing"} => phase'[o] = phase[o]
  PROVE  RefTypes' /\ StaleFit'
<1> USE DEF referenceVars
<1>1. RefTypes'
  BY DEF RefTypes
<1>2. \A p \in Pages : RefFit(p)'
  BY DEF StaleFit, RefFit
<1>3. \A o \in Operations : HeldFit(o)'
  BY DEF StaleFit, HeldFit
<1> QED BY <1>1, <1>2, <1>3 DEF StaleFit

(* Pages only close, or the page that opens has no references yet.          *)
LEMMA RefsOfPages ==
  ASSUME RefTypes, StaleFit, PageTypes, UNCHANGED <<held, referenceVars, documents, phase>>,
         LastHandover' = LastHandover, NEW p \in Pages,
         \/ Open' = Open \ {p} /\ gone' = gone \cup {p}
         \/ Open' = Open \cup {p} /\ gone' = gone /\ p \notin Open \cup gone
  PROVE  RefTypes' /\ StaleFit'
<1> USE DEF referenceVars
<1>1. RefTypes'
  BY DEF RefTypes
<1>2. \A q \in Pages : RefFit(q)'
  BY DEF StaleFit, RefFit
<1>3. \A o \in Operations : HeldFit(o)'
  BY DEF StaleFit, HeldFit
<1> QED BY <1>1, <1>2, <1>3 DEF StaleFit

LEMMA SnapshotRefs ==
  ASSUME CallTypes, PageTypes, RefTypes, StaleFit, NEW o \in Operations, EndSnapshot(o),
         LastHandover' = LastHandover
  PROVE  RefTypes' /\ StaleFit'
<1>1. /\ held[o] \in Reading /\ held[o].since >= LastHandover
      /\ held' = [held EXCEPT ![o] = None]
      /\ UNCHANGED <<pages, documents, gone, epoch>> /\ Open' = Open
  BY DEF EndSnapshot, StaleFit, HeldFit, Store, referenceVars, Open
<1>2. \A x \in Operations : phase'[x] \in {"reading", "closing"} => phase'[x] = phase[x] /\ x # o
  BY DEF EndSnapshot, Settle, Enter, CallTypes
<1>3. \A x \in Operations : HeldFit(x)'
  BY <1>1, <1>2 DEF StaleFit, HeldFit, RefTypes
<1>4. held' \in [Operations -> Reading \cup Closing \cup {None}]
  BY <1>1 DEF RefTypes
<1>5. CASE Store(held[o]) /\ held[o].page \in Open
  <2> DEFINE r == held[o]
             p == r.page
             new == [since |-> r.since, epoch |-> epoch[p], document |-> documents[p], name |-> r.next]
  <2>1. p \in Pages /\ r.since \in Nat /\ r.next \in Nat
    BY <1>1 DEF Reading
  <2>2. new \in References
    BY <2>1 DEF RefTypes, References
  <2>3. refs' = [refs EXCEPT ![p] = new] /\ given' = [given EXCEPT ![p] = @ \cup {r.next}]
    BY <1>5 DEF Store
  <2>4. RefTypes'
    BY <1>1, <1>4, <2>1, <2>2, <2>3 DEF RefTypes
  <2>5. ASSUME NEW q \in Pages PROVE RefFit(q)'
    <3>1. CASE q = p
      <4>1. refs'[q].epoch = epoch'[q] /\ refs'[q].document = documents'[q] /\ refs'[q].since = r.since
        BY <1>1, <2>1, <2>3, <3>1 DEF RefTypes
      <4>2. epoch'[q] \in Nat
        BY <1>1 DEF RefTypes
      <4> QED BY <1>1, <1>5, <3>1, <4>1, <4>2 DEF RefFit
    <3>2. CASE q # p
      <4>1. refs'[q] = refs[q]
        BY <2>3, <3>2 DEF RefTypes
      <4> QED BY <1>1, <4>1 DEF StaleFit, RefFit
    <3> QED BY <3>1, <3>2
  <2> QED BY <1>3, <2>4, <2>5 DEF StaleFit
<1>6. CASE UNCHANGED referenceVars
  <2>1. \A q \in Pages : RefFit(q)'
    BY <1>1, <1>6 DEF StaleFit, RefFit, referenceVars
  <2> QED BY <1>1, <1>3, <1>4, <1>6, <2>1 DEF StaleFit, RefTypes, referenceVars
<1> QED BY <1>5, <1>6 DEF EndSnapshot

LEMMA NavigateRefs ==
  ASSUME RefTypes, StaleFit, NEW p \in Pages, Navigate(p), LastHandover' = LastHandover
  PROVE  RefTypes' /\ StaleFit'
<1>1. /\ documents' = [documents EXCEPT ![p] = @ + 1] /\ epoch' = [epoch EXCEPT ![p] = @ + 1]
      /\ UNCHANGED <<phase, pages, held, refs, given, gone>> /\ documents[p] <= MaxNavigations
  BY DEF Navigate
<1>2. Open' = Open
  BY <1>1 DEF Open
<1>3. RefTypes'
  BY <1>1, NavigationsAreBounded DEF RefTypes
<1>4. ASSUME NEW q \in Pages PROVE RefFit(q)'
  <2>1. refs[q] # None => refs[q] \in References /\ RefFit(q)
    BY DEF RefTypes, StaleFit
  <2>2. CASE q = p
    <3>1. epoch'[q] = epoch[q] + 1 /\ epoch[q] \in Nat
      BY <1>1, <2>2 DEF RefTypes
    <3> QED BY <1>1, <1>2, <2>1, <3>1 DEF RefFit, References
  <2>3. CASE q # p
    <3>1. epoch'[q] = epoch[q] /\ documents'[q] = documents[q]
      BY <1>1, <2>3 DEF RefTypes
    <3> QED BY <1>1, <1>2, <2>1, <3>1 DEF RefFit
  <2> QED BY <2>2, <2>3
<1>5. \A o \in Operations : HeldFit(o)'
  BY <1>1 DEF StaleFit, HeldFit
<1> QED BY <1>3, <1>4, <1>5 DEF StaleFit

(* A handover finds nobody reading and leaves no references.                *)
LEMMA InvalidatedRefs ==
  ASSUME CallsFit, RefTypes, StaleFit, Invalidated, running = {},
         UNCHANGED <<phase, pages, active, held, documents, gone>>
  PROVE  RefTypes' /\ StaleFit'
<1>1. Open' = Open /\ Open \subseteq Watched
  BY DEF Open, Watched
<1>2. \A p \in Pages : IF p \in Watched THEN refs'[p] = None
                       ELSE refs'[p] = refs[p] /\ epoch'[p] = epoch[p]
  BY DEF Invalidated
<1>3. RefTypes'
  BY DEF RefTypes, Invalidated
<1>4. \A p \in Pages : RefFit(p)'
  BY <1>1, <1>2 DEF StaleFit, RefFit
<1>5. \A o \in Operations : HeldFit(o)'
  BY DEF CallsFit, Inside, Working, HeldFit
<1> QED BY <1>3, <1>4, <1>5 DEF StaleFit

LEMMA EventRefs ==
  ASSUME CallTypes, CallsFit, HandoverFit, RefTypes, StaleFit, NEW what \in Events, Observed(what),
         UNCHANGED <<phase, pages, active, held, documents, gone>>,
         what \in Handover => running = {}
  PROVE  RefTypes' /\ StaleFit'
<1>1. CASE what \in Handover
  BY <1>1, InvalidatedRefs DEF Observed, Handover
<1>2. CASE what \notin Handover
  <2> DEFINE e == [who |-> None, what |-> what]
  <2>1. Note(e) /\ e \in Entries /\ e.what = what /\ UNCHANGED referenceVars
    BY <1>2, EventEntry DEF Observed, Handover
  <2> HIDE DEF e
  <2>2. LastHandover' = LastHandover
    BY <1>2, <2>1, HandoverKept
  <2>3. Open' = Open
    BY DEF Open
  <2> QED BY <2>1, <2>2, <2>3, RefsStay
<1> QED BY <1>1, <1>2

LEMMA CallRefs ==
  ASSUME IInv, CallTypes, CallsFit, PageTypes, LostFit, HandoverFit, RefTypes, StaleFit,
         NEW o \in Operations, CallStep(o), LastHandover' = LastHandover
  PROVE  RefTypes' /\ StaleFit'
<1> USE DEF referenceVars
<1>1. ASSUME Settle(o, "ok") \/ Settle(o, "failed") \/ Enter(o, "done") \/ Enter(o, "leaving")
                \/ Enter(o, "acting")
      PROVE  \A x \in Operations : phase'[x] \in {"reading", "closing"} => phase'[x] = phase[x]
  BY <1>1 DEF Settle, Enter, CallTypes
<1>2. ASSUME UNCHANGED <<held, referenceVars, documents, gone, pages>>,
             Settle(o, "ok") \/ Settle(o, "failed") \/ Enter(o, "done") \/ Enter(o, "leaving")
                \/ Enter(o, "acting")
      PROVE  RefTypes' /\ StaleFit'
  <2>1. Open' = Open
    BY <1>2 DEF Open
  <2> QED BY <1>1, <1>2, <2>1, RefsStay
<1>3. CASE CloseTarget(o)
  <2>1. PICK p : PageCloses(p)
    BY <1>3 DEF CloseTarget
  <2>2. p \in Open /\ Open' = Open \ {p} /\ gone' = gone \cup {p}
    BY <2>1, ClosePages
  <2>3. p \in Pages /\ UNCHANGED <<held, referenceVars, documents, phase>>
    BY <2>1, <2>2, OpenIsPages DEF PageCloses, PageTypes
  <2> QED BY <2>2, <2>3, RefsOfPages
<1>4. CASE EndSnapshot(o)
  BY <1>4, SnapshotRefs
<1>5. ASSUME NEW p \in Pages, BeginClose(o, p) PROVE RefTypes' /\ StaleFit'
  <2>1. [page |-> p] \in Closing /\ Open' = Open
    BY <1>5 DEF BeginClose, Closing, Open
  <2>2. /\ held' = [held EXCEPT ![o] = [page |-> p]] /\ phase' = [phase EXCEPT ![o] = "closing"]
        /\ UNCHANGED <<refs, epoch, given, documents, gone, pages>>
    BY <1>5 DEF BeginClose, Enter
  <2>3. RefTypes'
    BY <2>1, <2>2 DEF RefTypes
  <2>4. \A q \in Pages : RefFit(q)'
    BY <2>1, <2>2 DEF StaleFit, RefFit
  <2>5. \A x \in Operations : HeldFit(x)'
    BY <2>1, <2>2 DEF StaleFit, HeldFit, RefTypes, CallTypes
  <2> QED BY <2>3, <2>4, <2>5 DEF StaleFit
<1>6. CASE BeginSnapshot(o)
  <2> DEFINE r == [page |-> active, since |-> revision, next |-> NextFallback(active)]
  <2>1. /\ active \in Pages /\ revision \in Nat /\ NextFallback(active) \in Nat
    BY DEF PageTypes, IInv, TypeOK, NextFallback, RefTypes, References
  <2>2. r \in Reading /\ r.since = revision /\ Open' = Open
    BY <1>6, <2>1 DEF Reading, BeginSnapshot, Open
  <2>3. /\ held' = [held EXCEPT ![o] = r] /\ phase' = [phase EXCEPT ![o] = "reading"]
        /\ UNCHANGED <<refs, epoch, given, documents, gone, pages>>
    BY <1>6 DEF BeginSnapshot, Enter
  <2> HIDE DEF r
  <2>4. RefTypes'
    BY <2>2, <2>3 DEF RefTypes
  <2>5. \A q \in Pages : RefFit(q)'
    BY <2>2, <2>3 DEF StaleFit, RefFit
  <2>6. revision >= LastHandover
    BY <2>1 DEF HandoverFit
  <2>7. \A x \in Operations : HeldFit(x)'
    BY <2>2, <2>3, <2>6 DEF StaleFit, HeldFit, RefTypes, CallTypes
  <2> QED BY <2>4, <2>5, <2>7 DEF StaleFit
<1>7. CASE EndClose(o)
  <2>1. /\ held' = [held EXCEPT ![o] = None] /\ Settle(o, "ok")
        /\ UNCHANGED <<refs, epoch, given, documents, gone, pages>> /\ Open' = Open
    BY <1>7 DEF EndClose, Open
  <2>2. \A x \in Operations : phase'[x] \in {"reading", "closing"} => phase'[x] = phase[x] /\ x # o
    BY <2>1 DEF Settle, Enter, CallTypes
  <2>3. RefTypes'
    BY <2>1 DEF RefTypes
  <2>4. \A q \in Pages : RefFit(q)'
    BY <2>1 DEF StaleFit, RefFit
  <2>5. \A x \in Operations : HeldFit(x)'
    BY <2>1, <2>2 DEF StaleFit, HeldFit, RefTypes
  <2> QED BY <2>3, <2>4, <2>5 DEF StaleFit
<1>8. CASE RecordRefusal(o) \/ Denied(o) \/ Allowed(o) \/ Act(o)
  BY <1>2, <1>8 DEF RecordRefusal, Denied, Allowed, Act
<1>9. CASE (\E p \in Pages : SelectPage(o, p)) \/ EndBatch(o) \/ Record(o) \/ Return(o)
  BY <1>2, <1>9 DEF SelectPage, EndBatch, Record, Return
<1> QED BY <1>3, <1>4, <1>5, <1>6, <1>7, <1>8, <1>9 DEF CallStep

LEMMA NextRefs ==
  ASSUME IInv, CallTypes, CallsFit, PageTypes, LostFit, HandoverFit, RefTypes, StaleFit, SessionNext
  PROVE  RefTypes' /\ StaleFit'
<1>0. revision \in Nat /\ Shape
  BY Shapes DEF IInv, TypeOK
<1>1. revision' = revision => LastHandover' = LastHandover
  BY <1>0, NextHandovers
<1>2. ASSUME NEW o \in Operations, NEW b \in Batches \cup {None}, Refuse(o, b) \/ Begin(o, b)
      PROVE  RefTypes' /\ StaleFit'
  <2>1. /\ UNCHANGED <<held, referenceVars, documents, gone, pages, revision>>
        /\ Enter(o, "refused") \/ Enter(o, "leaving") \/ Enter(o, "checking")
    BY <1>2 DEF Refuse, Begin, Admit, vars
  <2>2. /\ Open' = Open
        /\ \A x \in Operations : phase'[x] \in {"reading", "closing"} => phase'[x] = phase[x]
    BY <2>1 DEF Open, Enter, CallTypes
  <2> QED BY <1>1, <2>1, <2>2, RefsStay
<1>3. ASSUME NEW o \in Operations, CallStep(o) PROVE RefTypes' /\ StaleFit'
  <2>1. revision' = revision
    BY <1>3 DEF CallStep, RecordRefusal, Denied, Allowed, Act, SelectPage, BeginClose, CloseTarget,
       PageCloses, EndClose, BeginSnapshot, EndSnapshot, EndBatch, Record, Return, Exit, vars
  <2> QED BY <1>1, <1>3, <2>1, CallRefs
<1>4. ASSUME NEW id \in RequestIds, Takeover(id) PROVE RefTypes' /\ StaleFit'
  <2>1. UNCHANGED <<phase, pages, active, held, documents, gone>>
    BY <1>4 DEF Takeover
  <2>2. CASE RequestTakeover(id) /\ Observed("pause-requested")
    BY <2>1, <2>2, EventRefs DEF Events, Handover
  <2>3. ASSUME NEW l \in LeaseIds, Observed("human-control-acquired") PROVE RefTypes' /\ StaleFit'
    BY <2>1, <2>3, EventRefs DEF Events, Handover
  <2>4. ASSUME NEW l \in LeaseIds, ResumeAutomation(id, l), Observed("automation-resumed")
        PROVE  RefTypes' /\ StaleFit'
    <3>1. running = {}
      BY <2>4, GrantedIsAlone DEF ResumeAutomation
    <3> QED BY <2>1, <2>4, <3>1, EventRefs DEF Events
  <2> QED BY <1>4, <2>2, <2>3, <2>4 DEF Takeover
<1>5. ASSUME NEW id \in RequestIds, Answer(id) PROVE RefTypes' /\ StaleFit'
  <2>1. CASE Granted(id) /\ Observed("paused")
    <3>1. running = {} /\ UNCHANGED <<phase, pages, active, held, documents, gone>>
      BY <1>5, <2>1, GrantedIsAlone DEF Answer
    <3> QED BY <2>1, <3>1, EventRefs DEF Events
  <2>2. CASE Rejected(id) /\ Unobserved
    <3>1. Open' = Open /\ UNCHANGED <<phase, held, referenceVars, documents, gone, revision>>
      BY <1>5, <2>2 DEF Answer, Rejected, Unobserved, Open
    <3> QED BY <1>1, <3>1, RefsStay
  <2> QED BY <1>5, <2>1, <2>2 DEF Answer
<1>6. CASE EndSession
  <2>1. Open' = Open /\ UNCHANGED <<phase, held, referenceVars, documents, gone>> /\ LastHandover' = LastHandover
    BY <1>6 DEF EndSession, Unobserved, Open, LastHandover
  <2> QED BY <2>1, RefsStay
<1>7. ASSUME NEW p \in Pages, PageOpens(p) PROVE RefTypes' /\ StaleFit'
  <2>1. /\ Open' = Open \cup {p} /\ p \notin Open \cup gone
        /\ UNCHANGED <<held, referenceVars, documents, phase, gone, revision>>
    BY <1>7, AppendFacts DEF PageOpens, PageTypes, vars
  <2> QED BY <1>1, <2>1, RefsOfPages
<1>8. ASSUME NEW p \in Pages, PageCloses(p) PROVE RefTypes' /\ StaleFit'
  <2>1. Open' = Open \ {p} /\ gone' = gone \cup {p}
    BY <1>8, ClosePages
  <2>2. UNCHANGED <<held, referenceVars, documents, phase, revision>>
    BY <1>8 DEF PageCloses, vars
  <2> QED BY <1>1, <2>1, <2>2, RefsOfPages
<1>9. ASSUME NEW p \in Pages, Navigate(p) PROVE RefTypes' /\ StaleFit'
  <2>1. UNCHANGED revision
    BY <1>9 DEF Navigate, vars
  <2> QED BY <1>1, <1>9, <2>1, NavigateRefs
<1> QED BY <1>2, <1>3, <1>4, <1>5, <1>6, <1>7, <1>8, <1>9 DEF SessionNext

-----------------------------------------------------------------------------
(* All of it together.                                                      *)
SessionIInv ==
  /\ IInv
  /\ CallTypes /\ CallsFit /\ RecordsFit /\ BatchFit /\ PauseFit
  /\ PageTypes /\ LostFit
  /\ HandoverFit /\ RefTypes /\ StaleFit

LEMMA SessionInitIInv == SessionInit => SessionIInv
<1> SUFFICES ASSUME SessionInit PROVE SessionIInv
  OBVIOUS
<1>1. IInv /\ revision = 0
  BY InitIInv DEF SessionInit, Init
<1>2. Open = {FirstPage} /\ Len(trace) = 0 /\ trace \in Seq(Entries)
  BY DEF SessionInit, Open, ToSet
<1>3. PageTypes /\ LostFit
  <2>1. pages = <<FirstPage>> /\ pages \in Seq(Pages) /\ IsInjective(pages)
    BY FirstPageIsAPage DEF SessionInit, IsInjective
  <2>2. active = FirstPage /\ awaiting = FALSE /\ gone = {} /\ lost = {}
    BY DEF SessionInit
  <2> QED BY <2>1, <2>2, FirstPageIsAPage DEF PageTypes, LostFit
<1>4. HandoverAt = {} /\ Heard(Len(trace)) = {}
  BY <1>2 DEF HandoverAt, Heard
<1>5. LastHandover = 0 /\ Cardinality(Heard(Len(trace))) = 0
  BY <1>4, HandoverDef, FS_EmptySet
<1>6. HandoverFit
  BY <1>1, <1>4, <1>5 DEF HandoverFit
<1>7. RefTypes
  BY NavigationsAreBounded DEF SessionInit, RefTypes
<1>8. StaleFit
  BY DEF SessionInit, StaleFit, RefFit, HeldFit
<1> QED BY <1>1, <1>3, <1>6, <1>7, <1>8, InitCalls, InitPauses DEF SessionIInv

LEMMA SessionNextIInv == SessionIInv /\ [SessionNext]_allVars => SessionIInv'
<1> SUFFICES ASSUME SessionIInv, [SessionNext]_allVars PROVE SessionIInv'
  OBVIOUS
<1> USE DEF SessionIInv
<1>1. CASE SessionNext
  <2>1. Shape /\ IInv' /\ revision \in Nat
    BY <1>1, Shapes, SessionRefinesControl, NextIInv DEF IInv, TypeOK
  <2>2. CallTypes' /\ CallsFit' /\ RecordsFit' /\ BatchFit' /\ PauseFit'
    BY <2>1, NextCalls, NextBatches, NextPauses
  <2>3. PageTypes' /\ LostFit' /\ RefTypes' /\ StaleFit'
    BY <1>1, NextPages, NextRefs
  <2>4. HandoverFit'
    BY <2>1, NextHandovers
  <2> QED BY <2>1, <2>2, <2>3, <2>4
<1>2. CASE UNCHANGED allVars
  <2>1. IInv'
    BY <1>2, NextIInv DEF allVars
  <2> USE <1>2 DEF allVars, harnessVars, referenceVars, vars
  <2>2. CallTypes' /\ CallsFit' /\ RecordsFit'
    BY DEF CallTypes, CallsFit, RecordsFit, Records
  <2>3. BatchFit' /\ PauseFit'
    BY DEF BatchFit, StepFits, SiblingsFit, Passed, Records, PauseFit, Lifted, PauseIsQuiet
  <2>4. PageTypes' /\ LostFit'
    BY DEF PageTypes, LostFit, Open
  <2>5. HandoverFit' /\ LastHandover' = LastHandover
    BY DEF HandoverFit, HandoverAt, LastHandover, Heard
  <2>6. RefTypes' /\ StaleFit'
    BY <2>5 DEF RefTypes, StaleFit, RefFit, HeldFit, Open
  <2> QED BY <2>1, <2>2, <2>3, <2>4, <2>5, <2>6
<1> QED BY <1>1, <1>2

LEMMA SessionInvariance == SessionSpec => []SessionIInv
BY SessionInitIInv, SessionNextIInv, PTL DEF SessionSpec

-----------------------------------------------------------------------------
(* Theorems.                                                                *)

(* Every variable of the session keeps the form that src/create-tools.ts    *)
(* and its collaborators give it.                                           *)
THEOREM SessionTypes == SessionSpec => []SessionTypeOK
<1>1. SessionIInv => SessionTypeOK
  BY DEF SessionIInv, SessionTypeOK, IInv, CallTypes, PageTypes, RefTypes
<1> QED BY <1>1, SessionInvariance, PTL

(* Every call leaves exactly one record when it leaves context.record,      *)
(* whichever way it ends and whatever takeover or batch it runs under.      *)
THEOREM OneRecordEach == SessionSpec => []OneRecordPerCall
<1>1. SessionIInv => OneRecordPerCall
  BY FS_EmptySet, FS_Singleton DEF SessionIInv, RecordsFit, OneRecordPerCall
<1> QED BY <1>1, SessionInvariance, PTL

(* browser_run_steps stops at its first step that does not pass, and its    *)
(* own record comes after those of its steps.                               *)
THEOREM BatchesStop == SessionSpec => []BatchStopsAtFailure
<1>1. SessionIInv => BatchStopsAtFailure
  <2> SUFFICES ASSUME SessionIInv PROVE BatchStopsAtFailure
    OBVIOUS
  <2> USE DEF SessionIInv
  <2>1. ASSUME NEW o \in Operations, phase[o] \in {"leaving", "done"}
        PROVE  Records(o) # {} /\ Position(o) \in Records(o)
    BY <2>1 DEF RecordsFit, Position
  <2>2. ASSUME NEW o \in Operations, parent[o] # None, phase[parent[o]] \in {"leaving", "done"}
        PROVE  Records(o) # {} /\ Position(o) < Position(parent[o])
    <3>1. /\ parent[o] \in Operations /\ phase[o] = "done"
          /\ \A i \in Records(o), j \in Records(parent[o]) : i < j
      BY <2>2, BatchesAreCalls DEF BatchFit, StepFits, CallTypes
    <3> QED BY <2>1, <2>2, <3>1
  <2>3. ASSUME NEW o \in Operations, NEW s \in Operations, parent[o] = parent[s],
               parent[o] # None, o # s, verdict[o] \notin {"none", "ok"}, Records(o) # {}
        PROVE  Records(s) # {} /\ Position(s) < Position(o)
    <3>1. SiblingsFit(o, s) /\ phase[o] \in {"leaving", "done"}
      BY <2>3 DEF BatchFit, RecordsFit
    <3>2. phase[s] = "done" /\ \A i \in Records(o), j \in Records(s) : j < i
      BY <2>3, <3>1 DEF SiblingsFit, Passed
    <3> QED BY <2>1, <3>1, <3>2
  <2> QED BY <2>2, <2>3 DEF BatchStopsAtFailure
<1> QED BY <1>1, SessionInvariance, PTL

(* Between the record of a pause and that of the resumption the trace has   *)
(* no call that reached the page (recordControlTransition and record).      *)
THEOREM PausesAreQuiet == SessionSpec => []PauseIsQuiet
<1>1. SessionIInv => PauseIsQuiet
  BY DEF SessionIInv, PauseFit
<1> QED BY <1>1, SessionInvariance, PTL

(* What a tool accepts as a reference was read after the latest pause or    *)
(* resumption and under the document the page now shows.                    *)
THEOREM StaleReferencesDie == SessionSpec => []StaleRefsDie
<1>1. SessionIInv => StaleRefsDie
  BY OpenIsPages DEF SessionIInv, StaleFit, RefFit, StaleRefsDie, Honoured, PageTypes
<1> QED BY <1>1, SessionInvariance, PTL

(* No call works on a page that closed in the hands of a person: the next   *)
(* one goes through reconcileActivePage first.                              *)
THEOREM LostPagesAreLeft == SessionSpec => []NeverOnLostPage
<1>1. SessionIInv => NeverOnLostPage
  BY DEF SessionIInv, LostFit, NeverOnLostPage, Working
<1> QED BY <1>1, SessionInvariance, PTL

(* No call is stuck: a call that has begun can take its next step, or is a  *)
(* batch (src/tools/batch.ts) with a step that can.  TLC checks that        *)
(* CanStep is ENABLED CallStep, of which the prover knows nothing.          *)
SomeStepIsDue ==
  \A o \in Operations : phase[o] \notin {"new", "done"} =>
    CanStep(o) \/ \E s \in Steps(o) : CanStep(s)

THEOREM CallsProceed == SessionSpec => []SomeStepIsDue
<1>1. SessionIInv => SomeStepIsDue
  <2> SUFFICES ASSUME SessionIInv, NEW o \in Operations, phase[o] \notin {"new", "done"}
               PROVE  CanStep(o) \/ \E s \in Steps(o) : CanStep(s)
    BY DEF SomeStepIsDue
  <2> USE DEF SessionIInv
  <2>1. ASSUME NEW s \in Operations, phase[s] \notin {"new", "done"},
               \A t \in Steps(s) : phase[t] = "done"
        PROVE  CanStep(s)
    <3>1. CASE phase[s] = "leaving"
      BY <3>1 DEF CallsFit, Inside, CanStep
    <3>2. CASE phase[s] \in {"reading", "closing"}
      BY <3>2 DEF StaleFit, HeldFit, CanStep
    <3> QED BY <2>1, <3>1, <3>2 DEF CallTypes, CallPhases, CanStep
  <2>2. ASSUME NEW s \in Steps(o), phase[s] # "done" PROVE CanStep(s)
    <3>1. parent[s] = o /\ o # None /\ s \in Operations
      BY NoneIsNoCall DEF Steps
    <3>2. s \notin Batches /\ phase[s] # "new"
      BY <3>1 DEF BatchFit, StepFits
    <3>3. Steps(s) = {}
      BY <3>1, <3>2, NoneIsNoCall DEF Steps, CallTypes
    <3> QED BY <2>1, <2>2, <3>1, <3>2, <3>3
  <2> QED BY <2>1, <2>2
<1> QED BY <1>1, SessionInvariance, PTL

(* The session is a refinement of the ownership protocol: whatever is proved *)
(* of Control holds of it.                                                  *)
THEOREM SessionIsControlled == SessionSpec => Spec
<1>1. SessionInit => Init
  BY DEF SessionInit
<1>2. [SessionNext]_allVars => [Next]_vars
  BY SessionRefinesControl DEF allVars
<1> QED BY <1>1, <1>2, PTL DEF SessionSpec, Spec
=============================================================================
