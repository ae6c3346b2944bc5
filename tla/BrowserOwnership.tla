-------------------------- MODULE BrowserOwnership --------------------------
(***************************************************************************)
(* What the harness promises to the people and the agents that share one   *)
(* browser (the runAutomation comment of src/session/control.ts): an       *)
(* operation starts only while the agent owns the browser, and a person    *)
(* gets the browser only once every operation has left it.                 *)
(***************************************************************************)
CONSTANT Operations

VARIABLES owner,    \* "agent", "nobody", "human" or "closed"
          working   \* the operations that may still touch the browser

Init == owner = "agent" /\ working = {}

Start(o) ==
  /\ owner = "agent"
  /\ o \notin working
  /\ working' = working \cup {o}
  /\ UNCHANGED owner

Finish(o) ==
  /\ o \in working
  /\ working' = working \ {o}
  /\ UNCHANGED owner

Yield   == owner = "agent" /\ owner' = "nobody" /\ UNCHANGED working
Acquire == owner = "nobody" /\ working = {} /\ owner' = "human" /\ UNCHANGED working
Return  == owner = "human" /\ owner' = "agent" /\ UNCHANGED working
Shut    == owner # "closed" /\ owner' = "closed" /\ UNCHANGED working

Next ==
  \/ \E o \in Operations : Start(o) \/ Finish(o)
  \/ Yield \/ Acquire \/ Return \/ Shut

Spec == Init /\ [][Next]_<<owner, working>>
=============================================================================
