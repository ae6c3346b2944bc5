------------------------------ MODULE Control ------------------------------
(***************************************************************************)
(* The ownership protocol of src/session/control.ts                        *)
(* (createBrowserControlSession).  JavaScript runs one synchronous stretch *)
(* at a time, so every action below is one such stretch: the body of a     *)
(* method up to its first await, or a continuation scheduled by the        *)
(* runtime.  What happens between the stretches (other calls, the drain    *)
(* waiter being resolved, the session being closed) interleaves freely.    *)
(*                                                                         *)
(* Transition listeners are taken to return without calling back into the  *)
(* session, which is what every listener of the repository does.           *)
(***************************************************************************)
EXTENDS Naturals, FiniteSets

CONSTANTS Operations,   \* runAutomation calls that may be in flight at once
          RequestIds,   \* the request ids randomUUID may return
          LeaseIds,     \* the lease ids randomUUID may return
          None          \* the TypeScript value undefined

ASSUME FiniteOperations == IsFiniteSet(Operations)

VARIABLES state,             \* who owns the browser
          revision,          \* number of transitions emitted
          activeAutomation,  \* the counter of admitted operations
          request,           \* the request record, or None
          leaseId,           \* the lease that may resume, or None
          running,           \* the operations whose body is still executing
          takeover,          \* progress of the requestTakeover call of each id
          leases,            \* lease id -> request id of the lease handed out
          resumed            \* history: request id -> the lease the caller of
                             \* resumeAutomation gave back, or None

vars == <<state, revision, activeAutomation, request, leaseId, running,
          takeover, leases, resumed>>

States == {"automation", "pausing", "paused", "human-control", "closed"}
Phases == {"unused", "draining", "ready", "granted", "rejected"}
Request == [id : RequestIds, paused : BOOLEAN, acquired : BOOLEAN]

ASSUME NoneIsNoValue == None \notin RequestIds \cup LeaseIds \cup Request

TypeOK ==
  /\ state \in States
  /\ revision \in Nat
  /\ activeAutomation \in Nat
  /\ request \in Request \cup {None}
  /\ leaseId \in LeaseIds \cup {None}
  /\ running \subseteq Operations
  /\ takeover \in [RequestIds -> Phases]
  /\ leases \in [LeaseIds -> RequestIds \cup {None}]
  /\ resumed \in [RequestIds -> LeaseIds \cup {None}]

Init ==
  /\ state = "automation"
  /\ revision = 0
  /\ activeAutomation = 0
  /\ request = None
  /\ leaseId = None
  /\ running = {}
  /\ takeover = [id \in RequestIds |-> "unused"]
  /\ leases = [l \in LeaseIds |-> None]
  /\ resumed = [id \in RequestIds |-> None]

-----------------------------------------------------------------------------
TransitionTo(next) ==
  /\ state' = next
  /\ revision' = revision + 1

(* Faulty: the waiters are forgotten when the session closes.               *)
WokenUnlessClosed(active, owner) ==
  IF active # 0
  THEN takeover
  ELSE [id \in RequestIds |->
          IF takeover[id] = "draining" THEN "ready" ELSE takeover[id]]

(* wakeDrainWaiters, run with the counter and the state the caller has just *)
(* assigned: every waiter in the set is resolved at once and the set is     *)
(* emptied; the continuations run later, each as a Continue step.           *)
Woken(active, owner) ==
  IF active # 0 /\ owner # "closed"
  THEN takeover
  ELSE [id \in RequestIds |->
          IF takeover[id] = "draining" THEN "ready" ELSE takeover[id]]

-----------------------------------------------------------------------------
(* Faulty: operations are still admitted while the session drains.          *)
AdmitWhilePausing(o) ==
  /\ state \in {"automation", "pausing"}
  /\ o \notin running
  /\ running' = running \cup {o}
  /\ activeAutomation' = activeAutomation + 1
  /\ UNCHANGED <<state, revision, request, leaseId, takeover, leases, resumed>>

(* runAutomation: admission is refused outside "automation" (the refusal    *)
(* changes nothing), and the finally block runs however the body ends.      *)
Admit(o) ==
  /\ state = "automation"
  /\ o \notin running
  /\ running' = running \cup {o}
  /\ activeAutomation' = activeAutomation + 1
  /\ UNCHANGED <<state, revision, request, leaseId, takeover, leases, resumed>>

(* Faulty: the operation leaves without waking the callers that drain.      *)
ExitSilently(o) ==
  /\ o \in running
  /\ running' = running \ {o}
  /\ activeAutomation' = IF activeAutomation = 0 THEN 0 ELSE activeAutomation - 1
  /\ UNCHANGED <<state, revision, request, leaseId, takeover, leases, resumed>>

Exit(o) ==
  /\ o \in running
  /\ running' = running \ {o}
  /\ activeAutomation' = IF activeAutomation = 0 THEN 0 ELSE activeAutomation - 1
  /\ takeover' = Woken(activeAutomation', state)
  /\ UNCHANGED <<state, revision, request, leaseId, leases, resumed>>

(* Faulty: the call does not wait for the operations already admitted.      *)
RequestWithoutDrain(id) ==
  /\ state = "automation"
  /\ takeover[id] = "unused"
  /\ request' = [id |-> id, paused |-> FALSE, acquired |-> FALSE]
  /\ leaseId' = None
  /\ TransitionTo("pausing")
  /\ takeover' = [takeover EXCEPT ![id] = "ready"]
  /\ UNCHANGED <<activeAutomation, running, leases, resumed>>

(* Faulty: a second takeover may be requested while the first one drains.   *)
RequestAgain(id) ==
  /\ state \in {"automation", "pausing"}
  /\ takeover[id] = "unused"
  /\ request' = [id |-> id, paused |-> FALSE, acquired |-> FALSE]
  /\ leaseId' = None
  /\ TransitionTo("pausing")
  /\ takeover' = [takeover EXCEPT
                    ![id] = IF activeAutomation = 0 THEN "ready" ELSE "draining"]
  /\ UNCHANGED <<activeAutomation, running, leases, resumed>>

(* requestTakeover up to its await.  With nothing to drain waitForDrain     *)
(* returns, but the await still yields: the call is "ready", not "granted". *)
RequestTakeover(id) ==
  /\ state = "automation"
  /\ takeover[id] = "unused"
  /\ request' = [id |-> id, paused |-> FALSE, acquired |-> FALSE]
  /\ leaseId' = None
  /\ TransitionTo("pausing")
  /\ takeover' = [takeover EXCEPT
                    ![id] = IF activeAutomation = 0 THEN "ready" ELSE "draining"]
  /\ UNCHANGED <<activeAutomation, running, leases, resumed>>

(* requestTakeover after its await: it looks at the state again, and fails  *)
(* when the session was closed or the request no longer owns the pause.     *)
Granted(id) ==
  /\ takeover[id] = "ready"
  /\ state = "pausing" /\ request # None
  /\ request' = [request EXCEPT !.paused = TRUE]
  /\ TransitionTo("paused")
  /\ takeover' = [takeover EXCEPT ![id] = "granted"]
  /\ UNCHANGED <<activeAutomation, leaseId, running, leases, resumed>>

Rejected(id) ==
  /\ takeover[id] = "ready"
  /\ state # "pausing" \/ request = None
  /\ takeover' = [takeover EXCEPT ![id] = "rejected"]
  /\ UNCHANGED <<state, revision, activeAutomation, request, leaseId,
                 running, leases, resumed>>

Continue(id) == Granted(id) \/ Rejected(id)

(* randomUUID returns an id it has not returned before.                     *)
TakeControl(id, l) ==
  /\ state = "paused"
  /\ request # None /\ request.id = id
  /\ leases[l] = None
  /\ request' = [request EXCEPT !.acquired = TRUE]
  /\ leaseId' = l
  /\ leases' = [leases EXCEPT ![l] = id]
  /\ TransitionTo("human-control")
  /\ UNCHANGED <<activeAutomation, running, takeover, resumed>>

(* Faulty: the request is compared, the lease is not.                       *)
ResumeWithAnyLease(id, l) ==
  /\ state = "human-control"
  /\ request # None /\ request.id = id
  /\ TransitionTo("automation")
  /\ request' = None
  /\ leaseId' = None
  /\ resumed' = [resumed EXCEPT ![id] = l]
  /\ UNCHANGED <<activeAutomation, running, takeover, leases>>

(* Only the latest request with the lease handed out for it gives the       *)
(* browser back to the agent.                                               *)
ResumeAutomation(id, l) ==
  /\ state = "human-control"
  /\ request # None /\ request.id = id /\ leaseId = l
  /\ TransitionTo("automation")
  /\ request' = None
  /\ leaseId' = None
  /\ resumed' = [resumed EXCEPT ![id] = l]
  /\ UNCHANGED <<activeAutomation, running, takeover, leases>>

Close ==
  /\ state # "closed"
  /\ TransitionTo("closed")
  /\ request' = None
  /\ leaseId' = None
  /\ takeover' = Woken(activeAutomation, "closed")
  /\ UNCHANGED <<activeAutomation, running, leases, resumed>>

Next ==
  \/ \E o \in Operations : Admit(o) \/ Exit(o)
  \/ \E id \in RequestIds : RequestTakeover(id) \/ Continue(id)
  \/ \E id \in RequestIds, l \in LeaseIds :
       TakeControl(id, l) \/ ResumeAutomation(id, l)
  \/ Close

Spec == Init /\ [][Next]_vars

(* Operations end (requestDaemon and Playwright bound them by timeouts) and *)
(* the event loop runs every continuation that is ready.  Nothing makes a   *)
(* human acquire, or give back, control.                                    *)
Fairness ==
  /\ \A o \in Operations : WF_vars(Exit(o))
  /\ \A id \in RequestIds : WF_vars(Continue(id))

FairSpec == Spec /\ Fairness

-----------------------------------------------------------------------------
(* While the session is paused or a person has it, no admitted operation is *)
(* still executing: admission closed before the drain, and the drain waited *)
(* for every one of them, across the gap between wake-up and continuation.  *)
HumanIsAlone == state \in {"paused", "human-control"} => running = {}

(* The counter the drain waits for is the number of operations in flight,   *)
(* so Math.max(0, ...) never hides a lost or doubled decrement.             *)
CountIsExact == activeAutomation = Cardinality(running)

(* No lost wake-up: a caller sits in drainWaiters only while the session is *)
(* pausing and some operation is still there to wake it.                    *)
NoLostWakeup ==
  \A id \in RequestIds :
    takeover[id] = "draining" => state = "pausing" /\ running # {}

(* A pause always has exactly one call that can finish it, and that call is *)
(* the one whose request the session shows.                                 *)
PauseHasOneOwner ==
  state = "pausing" =>
    /\ request # None
    /\ {id \in RequestIds : takeover[id] \in {"draining", "ready"}} = {request.id}

(* What status() reports about the request matches the state: no request or *)
(* lease outlives a takeover, and pausedAt and acquiredAt appear in order.  *)
RequestMatchesState ==
  /\ request = None <=> state \in {"automation", "closed"}
  /\ request # None =>
       /\ request.paused <=> state \in {"paused", "human-control"}
       /\ request.acquired <=> state = "human-control"
  /\ leaseId # None <=> state = "human-control"

(* A takeover call fails only because the session closed under it; another  *)
(* takeover never supersedes one that is still waiting.                     *)
OnlyCloseDefeatsTakeover ==
  [][\A id \in RequestIds :
       takeover[id] # "rejected" /\ takeover'[id] = "rejected" => state = "closed"]_vars

(* A lease ends the takeover it was handed out for and no other: nobody     *)
(* takes the browser from a person with the lease or the request of an      *)
(* earlier takeover, and what a person acquired stays in force until that   *)
(* very lease is given back or the session closes.                          *)
StaleLeaseStaysDead ==
  /\ \A id \in RequestIds : resumed[id] # None => leases[resumed[id]] = id
  /\ \A l \in LeaseIds : leases[l] # None =>
       \/ leaseId = l /\ request.id = leases[l]
       \/ resumed[leases[l]] = l
       \/ state = "closed"

(* Every takeover call settles: it is granted, or rejected at a close.      *)
TakeoverSettles ==
  \A id \in RequestIds :
    takeover[id] \in {"draining", "ready"} ~> takeover[id] \in {"granted", "rejected"}

-----------------------------------------------------------------------------
(* The promise of the protocol, without requests, leases or waiters.        *)
Owner ==
  CASE state = "automation" -> "agent"
    [] state \in {"pausing", "paused"} -> "nobody"
    [] state = "human-control" -> "human"
    [] state = "closed" -> "closed"

Ownership == INSTANCE BrowserOwnership WITH owner <- Owner, working <- running
ImplementsOwnership == Ownership!Spec
=============================================================================
