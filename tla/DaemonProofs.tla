---------------------------- MODULE DaemonProofs ----------------------------
(***************************************************************************)
(* What DaemonLifecycle promises for any number of terminals and daemons,  *)
(* any bounds and both browsers.  StartupIsExclusive is not inductive: the *)
(* commands that wait for somebody else's daemon share their places with   *)
(* the one that started it, and only what a command remembers (its kind    *)
(* and its child) tells them apart.  WellPlaced carries that memory.       *)
(*                                                                         *)
(* The last part is about RetainedData: what `data list' shows of any      *)
(* directory, and what is left of it when a session is deleted.            *)
(***************************************************************************)
EXTENDS DaemonLifecycle, RetainedData, FiniteSetTheorems, WellFoundedInduction, TLAPS

WellPlaced(r) ==
  /\ r \in Client
  /\ r.pc \in Attached => r.seen # None
  /\ r.pc \in {"spawn", "poll", "pollPing"} => r.kind = "open"
  /\ r.pc = "erase" => r.kind = "destroy"
  /\ r.pc \in {"read", "ping", "unlink", "lock", "spawn"} => r.child = None

EveryoneWellPlaced ==
  /\ at \in [Clients -> Client]
  /\ \A c \in Clients : WellPlaced(at[c])

(* Only a daemon that published its endpoint is ever named.                 *)
NamedWasPublished ==
  endpoint # None => daemon[endpoint] \notin {"unborn", "launching", "listening"}

IInv ==
  /\ TypeOK
  /\ EveryoneWellPlaced
  /\ StartupIsExclusive
  /\ NamedWasPublished
  /\ OrderlyExitIsClean

ClientPart == EveryoneWellPlaced /\ StartupIsExclusive
ProcessPart ==
  /\ daemon \in [Daemons -> DaemonStates]
  /\ endpoint \in Daemons \cup {None}
  /\ killed \subseteq Clients \cup Daemons
  /\ NamedWasPublished /\ OrderlyExitIsClean

-----------------------------------------------------------------------------
LEMMA InitIInv == Init => IInv
<1> SUFFICES ASSUME Init PROVE IInv
  OBVIOUS
<1>1. \A c \in Clients : at[c] = Fresh("idle", "query") /\ WellPlaced(at[c])
  BY DEF Init, Fresh, WellPlaced, Client, Locations, Kinds, Attached
<1>2. TypeOK
  BY <1>1, BoundsAreNatural
     DEF Init, TypeOK, WellPlaced, DaemonStates, Client, Locations, Kinds, Fresh
<1>3. EveryoneWellPlaced
  BY <1>1, <1>2 DEF EveryoneWellPlaced, TypeOK
<1>4. StartupIsExclusive
  BY <1>1 DEF StartupIsExclusive, Holding, Fresh
<1>5. NamedWasPublished /\ OrderlyExitIsClean
  BY DEF Init, NamedWasPublished, OrderlyExitIsClean
<1> QED BY <1>2, <1>3, <1>4, <1>5 DEF IInv

(* The shapes of the steps of a command: what its record becomes.           *)
LEMMA FreshPlaced ==
  ASSUME NEW k \in Kinds, NEW l \in {"idle", "read", "lock", "gone"}
  PROVE  WellPlaced(Fresh(l, k))
BY DEF WellPlaced, Fresh, Client, Locations, Attached

LEMMA PlacedAgain ==
  ASSUME NEW r \in Client, NEW l \in Locations, NEW e \in Daemons \cup {None}
  PROVE  LET q == [r EXCEPT !.pc = l, !.seen = e]
         IN  q \in Client /\ q.pc = l /\ q.seen = e /\ q.kind = r.kind /\ q.child = r.child
BY DEF Client

(* A step of one command keeps the exclusion if it takes the startup file   *)
(* only when nobody has it and gives it up only when it has it itself.      *)
LEMMA OneCommandMoves ==
  ASSUME IInv, NEW c \in Clients, NEW r,
         WellPlaced(r),
         at' = [at EXCEPT ![c] = r],
         lock' = lock \/ lock = None \/ lock = c,
         \/ lock' = c
         \/ /\ r.pc \notin {"spawn", "erase", "unlock"}
            /\ r.pc \in {"poll", "pollPing"} => r.child = None
            /\ r.kind = "destroy" =>
                 r.pc \notin {"read", "ping", "unlink", "attach", "stop", "awaitStop"}
  PROVE  ClientPart'
<1>1. at'[c] = r /\ \A b \in Clients \ {c} : at'[b] = at[b]
  BY DEF IInv, EveryoneWellPlaced
<1>2. EveryoneWellPlaced'
  <2>1. at' \in [Clients -> Client]
    BY DEF IInv, EveryoneWellPlaced, WellPlaced
  <2>2. \A b \in Clients : WellPlaced(at[b])
    BY DEF IInv, EveryoneWellPlaced
  <2>3. \A b \in Clients : WellPlaced(at'[b])
    BY <1>1, <2>2
  <2> QED BY <2>1, <2>3 DEF EveryoneWellPlaced, WellPlaced
<1>3. Holding(c)' => lock' = c
  BY <1>1 DEF Holding
<1>4. \A b \in Clients \ {c} : Holding(b)' => lock' = b
  <2> SUFFICES ASSUME NEW b \in Clients \ {c}, Holding(b)' PROVE lock' = b
    OBVIOUS
  <2>1. Holding(b)
    BY <1>1 DEF Holding
  <2> QED BY <2>1, NoneIsNoProcess DEF IInv, StartupIsExclusive
<1> QED BY <1>2, <1>3, <1>4 DEF ClientPart, StartupIsExclusive

(* A command goes to another place, with the endpoint it has just read.     *)
LEMMA GoesKnowing ==
  ASSUME IInv, NEW c \in Clients, NEW l \in Locations, NEW e \in Daemons \cup {None},
         GotoKnowing(c, l, e),
         l \in Attached => e # None,
         l \in {"spawn", "poll", "pollPing"} => at[c].kind = "open",
         l = "erase" => at[c].kind = "destroy",
         l \in {"read", "ping", "unlink", "lock", "spawn"} => at[c].child = None,
         lock' = lock \/ lock = None \/ lock = c,
         \/ lock' = c
         \/ /\ l \notin {"spawn", "erase", "unlock"}
            /\ l \in {"poll", "pollPing"} => at[c].child = None
            /\ at[c].kind = "destroy" =>
                 l \notin {"read", "ping", "unlink", "attach", "stop", "awaitStop"}
  PROVE  ClientPart'
<1> DEFINE r == [at[c] EXCEPT !.pc = l, !.seen = e]
<1>1. at[c] \in Client
  BY DEF IInv, EveryoneWellPlaced
<1>2. r \in Client /\ r.pc = l /\ r.seen = e /\ r.kind = at[c].kind /\ r.child = at[c].child
  BY <1>1 DEF Client
<1>3. at' = [at EXCEPT ![c] = r]
  BY DEF GotoKnowing
<1>4. WellPlaced(r)
  BY <1>2 DEF WellPlaced
<1> HIDE DEF r
<1> QED BY <1>2, <1>3, <1>4, OneCommandMoves

LEMMA Goes ==
  ASSUME IInv, NEW c \in Clients, NEW l \in Locations, Goto(c, l)
  PROVE  at[c].seen \in Daemons \cup {None} /\ GotoKnowing(c, l, at[c].seen)
<1>1. at[c] \in Client
  BY DEF IInv, EveryoneWellPlaced
<1>2. [at[c] EXCEPT !.pc = l] = [at[c] EXCEPT !.pc = l, !.seen = at[c].seen]
  BY <1>1 DEF Client
<1>3. at' = [at EXCEPT ![c] = [at[c] EXCEPT !.pc = l]]
  BY DEF Goto
<1> QED BY <1>1, <1>2, <1>3 DEF Client, GotoKnowing

(* A command that starts anew, ends or dies.                                *)
LEMMA StartsAnew ==
  ASSUME IInv, NEW c \in Clients, NEW k \in Kinds, NEW l \in {"idle", "read", "lock", "gone"},
         at' = [at EXCEPT ![c] = Fresh(l, k)],
         l = "read" => k # "destroy",
         lock' = lock \/ lock = c
  PROVE  ClientPart'
<1> DEFINE r == Fresh(l, k)
<1>1. WellPlaced(r) /\ r.pc = l /\ r.kind = k
  BY FreshPlaced DEF Fresh
<1> HIDE DEF r
<1>2. at' = [at EXCEPT ![c] = r]
  BY DEF r
<1> QED BY <1>1, <1>2, OneCommandMoves

LEMMA Leaves ==
  ASSUME IInv, NEW c \in Clients, Leave(c), lock' = lock
  PROVE  ClientPart'
<1>1. CASE lock = c
  BY <1>1, GoesKnowing DEF Leave, Locations, Attached
<1>2. CASE lock # c
  BY <1>2, StartsAnew DEF Leave, Finish, Kinds
<1> QED BY <1>1, <1>2

LEMMA Assembled ==
  ASSUME IInv, ClientPart', ProcessPart', lock' \in Clients \cup {None},
         commands' \in 0..MaxCommands
  PROVE  IInv'
<1>1. TypeOK'
  BY DEF TypeOK, ClientPart, ProcessPart, EveryoneWellPlaced, WellPlaced
<1> QED BY <1>1 DEF IInv, ClientPart, ProcessPart

(* A step that leaves the daemons and the endpoint alone.                   *)
LEMMA CommandStep ==
  ASSUME IInv, ClientPart', UNCHANGED <<endpoint, daemon, killed, commands>>,
         lock' \in Clients \cup {None}
  PROVE  IInv'
<1>1. ProcessPart'
  BY DEF IInv, TypeOK, ProcessPart, NamedWasPublished, OrderlyExitIsClean
<1>2. commands' \in 0..MaxCommands
  BY DEF IInv, TypeOK
<1> QED BY <1>1, <1>2, Assembled

(* What the invariant says of one command.                                  *)
LEMMA OneCommand ==
  ASSUME IInv, NEW c \in Clients
  PROVE  /\ at[c] \in Client /\ WellPlaced(at[c]) /\ (Holding(c) => lock = c)
         /\ lock \in Clients \cup {None} /\ None \notin Clients
         /\ endpoint \in Daemons \cup {None}
         /\ at[c].seen \in Daemons \cup {None} /\ at[c].kind \in Kinds
BY NoneIsNoProcess DEF IInv, TypeOK, EveryoneWellPlaced, StartupIsExclusive, Client

-----------------------------------------------------------------------------
(* The steps of a command, up to the one that reaches a daemon.             *)
LEMMA IssueIInv ==
  ASSUME IInv, NEW c \in Clients, NEW k \in Commands, Issue(c, k)
  PROVE  IInv'
<1> USE DEF Issue
<1>1. k \in Kinds
  BY CommandsAreKinds
<1>2. ClientPart'
  <2>1. CASE k = "destroy"
    BY <1>1, <2>1, StartsAnew
  <2>2. CASE k # "destroy"
    BY <1>1, <2>2, StartsAnew
  <2> QED BY <2>1, <2>2
<1>3. ProcessPart'
  BY DEF IInv, TypeOK, ProcessPart, NamedWasPublished, OrderlyExitIsClean
<1>4. lock' \in Clients \cup {None} /\ commands' \in 0..MaxCommands
  BY BoundsAreNatural DEF IInv, TypeOK
<1> QED BY <1>2, <1>3, <1>4, Assembled

LEMMA ReadEndpointIInv ==
  ASSUME IInv, NEW c \in Clients, ReadEndpoint(c)
  PROVE  IInv'
<1> USE OneCommand DEF ReadEndpoint, WellPlaced, Holding, Locations, Attached
<1>1. CASE endpoint # None /\ GotoKnowing(c, "ping", endpoint)
  BY <1>1, GoesKnowing, CommandStep
<1>2. CASE at[c].kind = "open" /\ Goto(c, "lock")
  BY <1>2, Goes, GoesKnowing, CommandStep
<1>3. CASE at[c].kind = "destroy" /\ Goto(c, "erase")
  BY <1>3, Goes, GoesKnowing, CommandStep
<1>4. CASE Finish(c)
  BY <1>4, StartsAnew, CommandStep DEF Finish, Kinds
<1> QED BY <1>1, <1>2, <1>3, <1>4

LEMMA PingIInv ==
  ASSUME IInv, NEW c \in Clients, Ping(c)
  PROVE  IInv'
<1> USE OneCommand DEF Ping, WellPlaced, Holding, Locations, Attached
<1>1. CASE Healthy(at[c].seen) /\ Goto(c, "attach")
  BY <1>1, Goes, GoesKnowing, CommandStep DEF Healthy
<1>2. CASE GotoKnowing(c, "unlink", None)
  BY <1>2, GoesKnowing, CommandStep
<1>3. CASE at' = [at EXCEPT ![c] = Fresh("read", "query")]
  BY <1>3, StartsAnew, CommandStep DEF Kinds
<1> QED BY <1>1, <1>2, <1>3

LEMMA UnlinkIInv ==
  ASSUME IInv, NEW c \in Clients, Unlink(c)
  PROVE  IInv'
<1> USE OneCommand DEF Unlink, WellPlaced, Holding, Locations, Attached
<1>1. ClientPart'
  <2>1. CASE at[c].kind = "open" /\ Goto(c, "lock")
    BY <2>1, Goes, GoesKnowing
  <2>2. CASE at[c].kind = "destroy" /\ Goto(c, "erase")
    BY <2>2, Goes, GoesKnowing
  <2>3. CASE Finish(c)
    BY <2>3, StartsAnew DEF Finish, Kinds
  <2> QED BY <2>1, <2>2, <2>3
<1>2. ProcessPart'
  BY DEF IInv, TypeOK, ProcessPart, NamedWasPublished, OrderlyExitIsClean
<1>3. commands' \in 0..MaxCommands
  BY DEF IInv, TypeOK
<1> QED BY <1>1, <1>2, <1>3, Assembled

LEMMA LockIInv ==
  ASSUME IInv, NEW c \in Clients, Lock(c)
  PROVE  IInv'
<1> USE OneCommand DEF Lock, WellPlaced, Holding, Locations, Attached
<1>1. lock' \in Clients \cup {None}
  OBVIOUS
<1>2. ClientPart'
  <2>1. CASE lock = None /\ at[c].kind = "open"
    BY <2>1, Goes, GoesKnowing
  <2>2. CASE lock = None /\ at[c].kind # "open"
    BY <2>2, Goes, GoesKnowing
  <2>3. CASE lock # None /\ at[c].kind = "open"
    BY <2>3, Goes, GoesKnowing
  <2>4. CASE lock # None /\ at[c].kind # "open"
    BY <2>4, StartsAnew DEF Finish, Kinds
  <2> QED BY <2>1, <2>2, <2>3, <2>4
<1> QED BY <1>1, <1>2, CommandStep

LEMMA SpawnIInv ==
  ASSUME IInv, NEW c \in Clients, Spawn(c)
  PROVE  IInv' /\ \A b \in Clients : Holding(b) => b = c
<1> USE OneCommand DEF Spawn
<1>1. lock = c /\ at[c].kind = "open"
  BY DEF Holding, WellPlaced
<1>2. \A b \in Clients : Holding(b) => b = c
  BY <1>1 DEF IInv, StartupIsExclusive
<1>3. ASSUME NEW d \in Daemons, daemon[d] = "unborn",
             daemon' = [daemon EXCEPT ![d] = "launching"],
             at' = [at EXCEPT ![c].pc = "poll", ![c].child = d]
      PROVE  IInv'
  <2> DEFINE r == [at[c] EXCEPT !.pc = "poll", !.child = d]
  <2>1. r \in Client /\ r.pc = "poll" /\ r.kind = at[c].kind
    BY DEF Client, Locations
  <2>2. WellPlaced(r)
    BY <1>1, <2>1 DEF WellPlaced, Attached
  <2>3. at' = [at EXCEPT ![c] = r]
    BY <1>3
  <2> HIDE DEF r
  <2>4. ClientPart'
    BY <1>1, <2>2, <2>3, OneCommandMoves
  <2>5. ProcessPart'
    BY <1>3 DEF IInv, TypeOK, ProcessPart, DaemonStates, NamedWasPublished, OrderlyExitIsClean
  <2>6. commands' \in 0..MaxCommands
    BY DEF IInv, TypeOK
  <2> QED BY <2>4, <2>5, <2>6, Assembled
<1>4. CASE Leave(c) /\ UNCHANGED daemon
  BY <1>2, <1>4, Leaves, CommandStep
<1> QED BY <1>2, <1>3, <1>4

LEMMA PollIInv ==
  ASSUME IInv, NEW c \in Clients, Poll(c)
  PROVE  IInv'
BY OneCommand, GoesKnowing, CommandStep DEF Poll, WellPlaced, Holding, Locations, Attached

LEMMA PollPingIInv ==
  ASSUME IInv, NEW c \in Clients, PollPing(c)
  PROVE  IInv'
<1> USE OneCommand DEF PollPing, WellPlaced, Holding, Locations, Attached
<1>1. CASE Healthy(at[c].seen) /\ lock = c
  BY <1>1, Goes, GoesKnowing, CommandStep DEF Healthy
<1>2. CASE Healthy(at[c].seen) /\ lock # c
  BY <1>2, Goes, GoesKnowing, CommandStep DEF Healthy
<1>3. CASE Leave(c)
  BY <1>3, Leaves, CommandStep
<1>4. CASE GotoKnowing(c, "poll", None)
  BY <1>4, GoesKnowing, CommandStep
<1> QED BY <1>1, <1>2, <1>3, <1>4

LEMMA PollTimeoutIInv ==
  ASSUME IInv, NEW c \in Clients, PollTimeout(c)
  PROVE  IInv'
BY OneCommand, Leaves, CommandStep DEF PollTimeout

LEMMA UnlockIInv ==
  ASSUME IInv, NEW c \in Clients, Unlock(c)
  PROVE  IInv'
<1> USE OneCommand DEF Unlock, WellPlaced, Holding, Locations, Attached
<1>1. CASE at[c].kind = "open" /\ at[c].seen # None
  BY <1>1, Goes, GoesKnowing, CommandStep
<1>2. CASE ~(at[c].kind = "open" /\ at[c].seen # None)
  BY <1>2, StartsAnew, CommandStep DEF Finish, Kinds
<1> QED BY <1>1, <1>2

-----------------------------------------------------------------------------
(* The steps of a command that has found a daemon.                          *)
LEMMA ConnectIInv ==
  ASSUME IInv, NEW c \in Clients, Connect(c)
  PROVE  IInv'
<1> USE OneCommand DEF Connect, WellPlaced, Holding, Locations, Attached
<1>1. CASE at[c].kind \in {"close", "destroy"} /\ Goto(c, "stop")
  BY <1>1, Goes, GoesKnowing, CommandStep
<1>2. CASE at[c].kind \notin {"close", "destroy"} /\ Goto(c, "call")
  BY <1>2, Goes, GoesKnowing, CommandStep
<1>3. CASE Leave(c)
  BY <1>3, Leaves, CommandStep
<1> QED BY <1>1, <1>2, <1>3

LEMMA EndCallIInv ==
  ASSUME IInv, NEW c \in Clients, EndCall(c)
  PROVE  IInv'
BY OneCommand, StartsAnew, CommandStep DEF EndCall, Finish, Kinds

LEMMA ShutdownIInv ==
  ASSUME IInv, NEW c \in Clients, Shutdown(c)
  PROVE  IInv'
<1> USE OneCommand DEF Shutdown
<1>1. ClientPart'
  <2>1. CASE Goto(c, "awaitStop")
    BY <2>1, Goes, GoesKnowing DEF WellPlaced, Holding, Locations, Attached
  <2>2. CASE Finish(c)
    BY <2>2, StartsAnew DEF Finish, Kinds
  <2>3. CASE Leave(c)
    BY <2>3, Leaves
  <2> QED BY <2>1, <2>2, <2>3
<1>2. ProcessPart'
  <2>1. CASE UNCHANGED daemon
    BY <2>1 DEF IInv, TypeOK, ProcessPart, NamedWasPublished, OrderlyExitIsClean
  <2>2. CASE daemon' = [daemon EXCEPT ![at[c].seen] =
                          IF @ \in {"serving", "stranded"} THEN "closing" ELSE @]
    BY <2>2 DEF IInv, TypeOK, DaemonStates, ProcessPart, NamedWasPublished, OrderlyExitIsClean
  <2>3. CASE daemon[at[c].seen] = "serving" /\ daemon' = [daemon EXCEPT ![at[c].seen] = "stranded"]
    BY <2>3 DEF IInv, TypeOK, DaemonStates, ProcessPart, NamedWasPublished, OrderlyExitIsClean
  <2> QED BY <2>1, <2>2, <2>3
<1>3. commands' \in 0..MaxCommands
  BY DEF IInv, TypeOK
<1> QED BY <1>1, <1>2, <1>3, Assembled

LEMMA StopObservedIInv ==
  ASSUME IInv, NEW c \in Clients, StopObserved(c)
  PROVE  IInv'
<1> USE OneCommand DEF StopObserved, WellPlaced, Holding, Locations, Attached
<1>1. CASE at[c].kind = "destroy"
  BY <1>1, GoesKnowing, CommandStep
<1>2. CASE at[c].kind # "destroy"
  BY <1>2, StartsAnew, CommandStep DEF Finish, Kinds
<1> QED BY <1>1, <1>2

LEMMA StopTimeoutIInv ==
  ASSUME IInv, NEW c \in Clients, StopTimeout(c)
  PROVE  IInv'
BY OneCommand, Leaves, CommandStep DEF StopTimeout

LEMMA EraseIInv ==
  ASSUME IInv, NEW c \in Clients, Erase(c)
  PROVE  IInv'
<1> USE OneCommand DEF Erase, WellPlaced, Holding, Locations, Attached
<1>1. ClientPart'
  BY Goes, GoesKnowing
<1>2. ProcessPart'
  BY DEF IInv, TypeOK, ProcessPart, NamedWasPublished, OrderlyExitIsClean
<1>3. commands' \in 0..MaxCommands
  BY DEF IInv, TypeOK
<1> QED BY <1>1, <1>2, <1>3, Assembled

LEMMA KillClientIInv ==
  ASSUME IInv, NEW c \in Clients, KillClient(c)
  PROVE  IInv'
<1> USE DEF KillClient
<1>1. ClientPart'
  BY StartsAnew DEF Kinds
<1>2. ProcessPart'
  BY DEF IInv, TypeOK, ProcessPart, NamedWasPublished, OrderlyExitIsClean
<1>3. lock' \in Clients \cup {None} /\ commands' \in 0..MaxCommands
  BY DEF IInv, TypeOK
<1> QED BY <1>1, <1>2, <1>3, Assembled

-----------------------------------------------------------------------------
(* The steps of a daemon: the commands and the startup file stay.           *)
LEMMA DaemonMoves ==
  ASSUME IInv, ProcessPart', UNCHANGED <<lock, at, commands>>
  PROVE  IInv'
<1>1. ClientPart'
  BY DEF IInv, ClientPart, EveryoneWellPlaced, StartupIsExclusive, Holding, WellPlaced
<1>2. lock' \in Clients \cup {None} /\ commands' \in 0..MaxCommands
  BY DEF IInv, TypeOK
<1> QED BY <1>1, <1>2, Assembled

LEMMA DaemonIInv ==
  ASSUME IInv, NEW d \in Daemons, DaemonStep(d) \/ BeginClose(d) \/ RetireFails(d) \/ KillDaemon(d)
  PROVE  IInv'
<1> USE NoneIsNoProcess
     DEF IInv, TypeOK, DaemonStates, ProcessPart, NamedWasPublished, OrderlyExitIsClean
<1>1. CASE Launch(d)
  BY <1>1, DaemonMoves DEF Launch
<1>2. CASE Publish(d)
  BY <1>2, DaemonMoves DEF Publish
<1>3. CASE BeginClose(d)
  BY <1>3, DaemonMoves DEF BeginClose
<1>4. CASE StopListening(d)
  BY <1>4, DaemonMoves DEF StopListening
<1>5. CASE ServerClosed(d)
  BY <1>5, DaemonMoves DEF ServerClosed
<1>6. CASE Exit(d)
  BY <1>6, DaemonMoves DEF Exit
<1>7. CASE KillDaemon(d)
  BY <1>7, DaemonMoves DEF KillDaemon, Ended
<1>8. CASE RetireFails(d)
  BY <1>8, DaemonMoves DEF RetireFails
<1> QED BY <1>1, <1>2, <1>3, <1>4, <1>5, <1>6, <1>7, <1>8 DEF DaemonStep

LEMMA NextIInv == IInv /\ [Next]_vars => IInv'
<1> SUFFICES ASSUME IInv, [Next]_vars PROVE IInv'
  OBVIOUS
<1>1. CASE UNCHANGED vars
  BY <1>1, DaemonMoves DEF vars, IInv, TypeOK, ProcessPart, NamedWasPublished, OrderlyExitIsClean
<1>2. ASSUME NEW c \in Clients, NEW k \in Commands, Issue(c, k) PROVE IInv'
  BY <1>2, IssueIInv
<1>3. ASSUME NEW c \in Clients, ClientStep(c) PROVE IInv'
  BY <1>3, ReadEndpointIInv, PingIInv, UnlinkIInv, LockIInv, SpawnIInv, PollIInv,
     PollPingIInv, UnlockIInv, ConnectIInv, EndCallIInv, ShutdownIInv, StopObservedIInv,
     StopTimeoutIInv, EraseIInv
     DEF ClientStep
<1>4. ASSUME NEW c \in Clients, PollTimeout(c) \/ KillClient(c) PROVE IInv'
  BY <1>4, PollTimeoutIInv, KillClientIInv
<1>5. ASSUME NEW d \in Daemons, DaemonStep(d) \/ BeginClose(d) \/ RetireFails(d) \/ KillDaemon(d) PROVE IInv'
  BY <1>5, DaemonIInv
<1> QED BY <1>1, <1>2, <1>3, <1>4, <1>5 DEF Next

LEMMA SpecIInv == Spec => []IInv
BY InitIInv, NextIInv, PTL DEF Spec

-----------------------------------------------------------------------------
(* Every variable keeps its type, and a command that is past a successful   *)
(* ping remembers the daemon it reached.                                    *)
THEOREM TypeCorrect == Spec => []TypeOK
<1>1. IInv => TypeOK
  BY DEF IInv
<1> QED BY <1>1, SpecIInv, PTL

(* The startup file of ensureDaemon and destroySessionState excludes: only  *)
(* the command that made it spawns, erases or removes it.                   *)
THEOREM StartupExclusive == Spec => []StartupIsExclusive
<1>1. IInv => StartupIsExclusive
  BY DEF IInv
<1> QED BY <1>1, SpecIInv, PTL

(* RpcServer.close removes the endpoint before the process exits: a dead    *)
(* daemon is named only if it was killed.                                   *)
THEOREM OrderlyExit == Spec => []OrderlyExitIsClean
<1>1. IInv => OrderlyExitIsClean
  BY DEF IInv
<1> QED BY <1>1, SpecIInv, PTL

(* ensureDaemon spawns no daemon while destroySessionState is under way.    *)
THEOREM SpawnsAndDestroysExclude == Spec => NoSpawnDuringDestroy
<1> DEFINE Quiet == \A d \in Daemons :
                      daemon[d] = "unborn" /\ daemon'[d] # "unborn" =>
                        ~\E c \in Clients : at[c].kind = "destroy" /\ Holding(c)
<1>1. IInv /\ [Next]_vars => [Quiet]_vars
  <2> SUFFICES ASSUME IInv, Next, NEW d \in Daemons,
                      daemon[d] = "unborn", daemon'[d] # "unborn",
                      NEW b \in Clients, at[b].kind = "destroy", Holding(b)
               PROVE  FALSE
    OBVIOUS
  <2>1. ASSUME NEW c \in Clients, Spawn(c) PROVE FALSE
    <3>1. b = c
      BY <2>1, SpawnIInv
    <3>2. at[c].kind = "open"
      BY <2>1, OneCommand DEF Spawn, WellPlaced
    <3> QED BY <3>1, <3>2
  <2>2. ASSUME NEW c \in Clients, Shutdown(c) PROVE FALSE
    BY <2>2 DEF Shutdown, IInv, TypeOK
  <2>3. ASSUME NEW e \in Daemons, DaemonStep(e) \/ BeginClose(e) \/ RetireFails(e) \/ KillDaemon(e)
        PROVE FALSE
    BY <2>3 DEF DaemonStep, BeginClose, RetireFails, KillDaemon, Launch, Publish, StopListening,
                ServerClosed, Exit, Ended, IInv, TypeOK
  <2>4. UNCHANGED daemon \/ (\E c \in Clients : Spawn(c) \/ Shutdown(c))
        \/ (\E e \in Daemons : DaemonStep(e) \/ BeginClose(e) \/ RetireFails(e) \/ KillDaemon(e))
    BY DEF Next, ClientStep, Issue, ReadEndpoint, Ping, Unlink, Lock, Poll, PollPing, Unlock,
           Connect, EndCall, StopObserved, StopTimeout, Erase, PollTimeout, KillClient
  <2> QED BY <2>1, <2>2, <2>3, <2>4
<1> QED BY <1>1, SpecIInv, PTL DEF Spec, NoSpawnDuringDestroy

-----------------------------------------------------------------------------
(* What sessions leave.                                                     *)

(* Positions up to n have a least and a greatest.                           *)
LEMMA HasLeast ==
  ASSUME NEW S \in SUBSET Nat, S # {}
  PROVE  \E x \in S : \A y \in S : x <= y
<1> DEFINE R == {ss \in Nat \X Nat : ss[1] < ss[2]}
<1>1. IsWellFoundedOn(R, Nat)
  BY NatLessThanWellFounded DEF OpToRel
<1>2. PICK x \in S : \A y \in S : ~(<<y, x>> \in R)
  <2> HIDE DEF R
  <2> QED BY <1>1, WFMin
<1>3. ASSUME NEW y \in S PROVE x <= y
  <2>1. ~(y < x)
    BY <1>2
  <2> QED BY <2>1
<1> QED BY <1>3

LEMMA HasGreatest ==
  ASSUME NEW n \in Nat, NEW S \in SUBSET (1..n), S # {}
  PROVE  \E x \in S : \A y \in S : y <= x
<1> DEFINE T == {k \in Nat : n - k \in S}
<1>1. T \subseteq Nat /\ T # {}
  <2>1. PICK y \in S : TRUE
    OBVIOUS
  <2>2. n - y \in T
    BY <2>1
  <2> QED BY <2>2
<1>2. PICK k \in T : \A j \in T : k <= j
  <2> HIDE DEF T
  <2> QED BY <1>1, HasLeast
<1>3. ASSUME NEW y \in S PROVE y <= n - k
  <2>1. y \in 1..n /\ n - y \in T /\ k \in Nat
    OBVIOUS
  <2>2. k <= n - y
    BY <1>2, <2>1
  <2> HIDE DEF T
  <2> QED BY <2>1, <2>2
<1> QED BY <1>3

(* Those of some positions that have fewer than m before them are m, or all.*)
Foremost(owned, m) == {i \in owned : Cardinality({j \in owned : j < i}) < m}

LEMMA FirstFew ==
  ASSUME NEW n \in Nat, NEW owned \in SUBSET (1..n), NEW m \in Nat
  PROVE  /\ Foremost(owned, m) # owned => Cardinality(Foremost(owned, m)) = m
         /\ Foremost(owned, m) = owned <=> Cardinality(owned) <= m
<1> DEFINE Before(i) == {j \in owned : j < i}
           first == {i \in owned : Cardinality(Before(i)) < m}
<1>1. IsFiniteSet(owned)
  <2>1. IsFiniteSet(1..n)
    BY FS_Interval
  <2> QED BY <2>1, FS_Subset
<1>2. \A S \in SUBSET owned : IsFiniteSet(S) /\ Cardinality(S) \in Nat
  BY <1>1, FS_Subset, FS_CardinalityType
<1>3. ASSUME NEW i \in owned, NEW k \in owned, i <= k
      PROVE  Cardinality(Before(i)) <= Cardinality(Before(k))
  <2>1. Before(i) \in SUBSET Before(k) /\ Before(k) \in SUBSET owned
    <3>1. ASSUME NEW j \in Before(i) PROVE j \in Before(k)
      <4>1. j \in owned /\ j < i /\ j \in 1..n /\ i \in 1..n /\ k \in 1..n
        OBVIOUS
      <4>2. j < k
        BY <1>3, <4>1
      <4> QED BY <4>1, <4>2
    <3> QED BY <3>1
  <2> QED BY <1>2, <2>1, FS_Subset
<1>4. Cardinality(first) <= m
  <2>1. CASE first = {}
    <3>1. Cardinality({}) = 0
      BY FS_EmptySet
    <3> HIDE DEF first
    <3> QED BY <2>1, <3>1
  <2>2. CASE first # {}
    <3>1. PICK g \in first : \A y \in first : y <= g
      <4>1. first \in SUBSET (1..n)
        OBVIOUS
      <4> HIDE DEF first
      <4> QED BY <2>2, <4>1, HasGreatest
    <3>2. first = Before(g) \cup {g}
      <4>1. ASSUME NEW x \in first PROVE x \in Before(g) \cup {g}
        BY <3>1
      <4>2. ASSUME NEW x \in Before(g) PROVE x \in first
        <5>1. x \in owned /\ g \in owned /\ x <= g
          OBVIOUS
        <5>2. Cardinality(Before(x)) <= Cardinality(Before(g)) /\ Cardinality(Before(g)) < m
          BY <1>3, <5>1
        <5>3. Cardinality(Before(x)) \in Nat /\ Cardinality(Before(g)) \in Nat
          BY <1>2
        <5>4. Cardinality(Before(x)) < m
          <6> HIDE DEF Before
          <6> QED BY <5>2, <5>3
        <5> QED BY <5>1, <5>4
      <4> QED BY <4>1, <4>2
    <3>3. g \notin Before(g) /\ IsFiniteSet(Before(g)) /\ Cardinality(Before(g)) < m
      BY <1>2
    <3>4. Cardinality(first) = Cardinality(Before(g)) + 1 /\ Cardinality(Before(g)) \in Nat
      <4>1. Cardinality(Before(g) \cup {g}) = Cardinality(Before(g)) + 1
        BY <3>3, FS_AddElement
      <4> QED BY <1>2, <3>2, <4>1
    <3> HIDE DEF Before, first
    <3> QED BY <3>3, <3>4
  <2> QED BY <2>1, <2>2
<1>5. ASSUME first # owned PROVE Cardinality(first) >= m
  <2>1. owned \ first # {} /\ owned \ first \in SUBSET Nat
    <3>1. first \in SUBSET owned /\ owned \in SUBSET Nat
      OBVIOUS
    <3> HIDE DEF first
    <3> QED BY <1>5, <3>1
  <2>2. PICK l \in owned \ first : \A y \in owned \ first : l <= y
    <3> HIDE DEF first
    <3> QED BY <2>1, HasLeast
  <2>3. Before(l) \in SUBSET first
    <3>1. ASSUME NEW j \in Before(l) PROVE j \in first
      <4>1. j \in owned /\ j < l /\ j \in 1..n /\ l \in 1..n
        OBVIOUS
      <4>2. ~(l <= j)
        BY <4>1
      <4> HIDE DEF first
      <4> QED BY <2>2, <4>1, <4>2
    <3> QED BY <3>1
  <2>4. ~(Cardinality(Before(l)) < m) /\ Cardinality(Before(l)) \in Nat
    BY <1>2
  <2>5. Cardinality(Before(l)) <= Cardinality(first)
    <3>1. first \in SUBSET owned
      OBVIOUS
    <3> HIDE DEF Before, first
    <3> QED BY <1>2, <2>3, <3>1, FS_Subset
  <2>6. Cardinality(first) \in Nat
    BY <1>2
  <2> HIDE DEF Before, first
  <2> QED BY <2>4, <2>5, <2>6
<1>6. ASSUME Cardinality(owned) <= m PROVE first = owned
  <2> SUFFICES ASSUME NEW i \in owned PROVE Cardinality(Before(i)) < m
    OBVIOUS
  <2>1. Before(i) \in SUBSET owned /\ Before(i) # owned
    OBVIOUS
  <2>2. /\ Cardinality(Before(i)) <= Cardinality(owned) /\ Cardinality(Before(i)) # Cardinality(owned)
        /\ Cardinality(Before(i)) \in Nat /\ Cardinality(owned) \in Nat
    <3> HIDE DEF Before
    <3> QED BY <1>1, <1>2, <2>1, FS_Subset
  <2> HIDE DEF Before
  <2> QED BY <1>6, <2>2
<1>7. Cardinality(first) \in Nat
  BY <1>2
<1>8. first # owned => Cardinality(first) = m
  <2> HIDE DEF first
  <2> QED BY <1>4, <1>5, <1>7
<1>9. first = owned <=> Cardinality(owned) <= m
  <2> HIDE DEF first
  <2> QED BY <1>4, <1>6
<1> QED BY <1>8, <1>9 DEF Foremost

LEMMA NotAbove == ASSUME NEW a \in Nat, NEW b \in Nat PROVE ~(a > b) <=> a <= b
OBVIOUS

Sessions(directory, config) ==
  {i \in DOMAIN directory : Recognized(directory[i]) /\ directory[i] # config}
OwnedNames(directory, config) == {name \in ToSet(directory) : Recognized(name)} \ {config}

(* Both limits, and nothing else, make a list truncated.                    *)
LEMMA ListFacts ==
  ASSUME MaxClassified \in Nat, MaxListed \in Nat, NEW directory \in Seq(Names), NEW config
  PROVE  LET list == List(directory, config)
         IN  /\ list.truncated =>
                  Len(directory) > MaxClassified \/ list.entries = MaxListed
             /\ list.truncated <=>
                  \/ Len(directory) > MaxClassified
                  \/ ~(Cardinality(Sessions(directory, config)) <= MaxListed)
             /\ ~list.truncated => list.listed = OwnedNames(directory, config)
<1> DEFINE n == Min({Len(directory), MaxClassified})
           owned == {i \in 1..n : Recognized(directory[i]) /\ directory[i] # config}
           first == Foremost(owned, MaxListed)
           list == List(directory, config)
<1>1. /\ Len(directory) \in Nat /\ DOMAIN directory = 1..Len(directory)
      /\ n \in Nat /\ (Len(directory) <= MaxClassified => n = Len(directory))
  BY DEF Min
<1> HIDE DEF n
<1>2. /\ list.entries = Cardinality(first) /\ list.listed = {directory[i] : i \in first}
      /\ list.truncated = (Len(directory) > MaxClassified \/ first # owned)
  BY DEF List, n, Foremost
<1>3. owned \in SUBSET (1..n)
  OBVIOUS
<1>4. /\ first # owned => Cardinality(first) = MaxListed
      /\ first = owned <=> Cardinality(owned) <= MaxListed
  <2> HIDE DEF owned
  <2>1. n \in Nat
    BY <1>1, Zenon
  <2> QED BY <2>1, <1>3, FirstFew, Zenon
<1>5. Len(directory) <= MaxClassified => owned = Sessions(directory, config)
  BY <1>1 DEF Sessions
<1>6. ~(Len(directory) > MaxClassified) <=> Len(directory) <= MaxClassified
  BY <1>1, NotAbove, Zenon
<1>7. {directory[i] : i \in Sessions(directory, config)} = OwnedNames(directory, config)
  <2>1. \A i \in Sessions(directory, config) : directory[i] \in OwnedNames(directory, config)
    BY DEF Sessions, OwnedNames, ToSet
  <2>2. ASSUME NEW name \in OwnedNames(directory, config)
        PROVE  \E i \in Sessions(directory, config) : name = directory[i]
    BY DEF Sessions, OwnedNames, ToSet
  <2> QED BY <2>1, <2>2
<1> HIDE DEF owned, first, list
<1>8. list.truncated => Len(directory) > MaxClassified \/ list.entries = MaxListed
  BY <1>2, <1>4
<1>9. list.truncated <=>
        \/ Len(directory) > MaxClassified
        \/ ~(Cardinality(Sessions(directory, config)) <= MaxListed)
  BY <1>2, <1>4, <1>5, <1>6, Zenon
<1>10. ~list.truncated => list.listed = OwnedNames(directory, config)
  BY <1>2, <1>5, <1>6, <1>7
<1> QED BY <1>8, <1>9, <1>10 DEF list

LEMMA OwnedAreNames ==
  ASSUME NEW directory \in Seq(Names), NEW config, NEW name \in OwnedNames(directory, config)
  PROVE  /\ name \in Names /\ name.kind \in RetainedKinds /\ name.stem \in SessionNames
         /\ name = [stem |-> name.stem, kind |-> name.kind]
<1>1. name \in Names /\ Recognized(name)
  BY DEF OwnedNames, ToSet
<1> QED BY <1>1 DEF Names, Recognized

(* Whatever is in the directory and however it is read: a list that is not  *)
(* marked as truncated has exactly the files that sessions own, and one     *)
(* that is has reached a limit (listRetainedSessionData).                   *)
THEOREM ListsAreHonest ==
  ASSUME MaxClassified \in Nat, MaxListed \in Nat, NEW directory \in Seq(Names), NEW config
  PROVE  ListIsHonest(directory, config)
<1> DEFINE list == List(directory, config)
           owned == OwnedNames(directory, config)
<1>1. CASE list.truncated
  BY <1>1, ListFacts DEF ListIsHonest
<1>2. CASE ~list.truncated
  <2>1. list.listed = owned
    BY <1>2, ListFacts
  <2>2. ASSUME NEW session
        PROVE  {m.kind : m \in {x \in owned : x.stem = session}} =
                 {k \in RetainedKinds : [stem |-> session, kind |-> k] \in owned}
    <3>1. ASSUME NEW x \in owned, x.stem = session
          PROVE  x.kind \in RetainedKinds /\ [stem |-> session, kind |-> x.kind] \in owned
      BY <3>1, OwnedAreNames
    <3>2. \A k : [stem |-> session, kind |-> k].stem = session
                   /\ [stem |-> session, kind |-> k].kind = k
      OBVIOUS
    <3> HIDE DEF owned
    <3> QED BY <3>1, <3>2
  <2>3. Inventory(directory, config) =
          [session \in {x.stem : x \in owned} |-> {k \in RetainedKinds : [stem |-> session, kind |-> k] \in owned}]
    <3> HIDE DEF owned
    <3> QED BY <2>1, <2>2 DEF Inventory
  <2> QED BY <1>2, <2>1, <2>3 DEF ListIsHonest, OwnedNames
<1> QED BY <1>1, <1>2

(* A directory in which no name is twice is as long as its names are many.  *)
LEMMA PositionsAreNames ==
  ASSUME NEW directory \in Seq(Names), Distinct(directory), NEW P \in SUBSET DOMAIN directory
  PROVE  LET names == {directory[i] : i \in P}
         IN  IsFiniteSet(names) /\ Cardinality(P) = Cardinality(names)
<1> DEFINE names == {directory[i] : i \in P}
           f == [i \in P |-> directory[i]]
<1>1. IsFiniteSet(P)
  <2>1. IsFiniteSet(1..Len(directory)) /\ DOMAIN directory = 1..Len(directory)
    BY FS_Interval
  <2> QED BY <2>1, FS_Subset
<1>2. f \in Surjection(P, names)
  BY DEF Surjection
<1>3. f \in Injection(P, names)
  BY DEF Injection, IsInjective, Distinct
<1> HIDE DEF f, names
<1>4. IsFiniteSet(names) /\ Cardinality(names) = Cardinality(P)
  BY <1>1, <1>2, <1>3, FS_Surjection
<1> QED BY <1>4 DEF names

(* Deleting a session takes its entries out of the list and leaves the list *)
(* of every other session as it was (destroySessionState).                  *)
THEOREM DeletesMatchLists ==
  ASSUME MaxClassified \in Nat, MaxListed \in Nat,
         NEW directory \in Seq(Names), NEW after \in Seq(Names), NEW config, NEW session
  PROVE  DeleteMatchesList(directory, after, config, session)
<1> DEFINE before == OwnedNames(directory, config)
           rest == OwnedNames(after, config)
<1> SUFFICES ASSUME Distinct(directory), Distinct(after),
                    ToSet(after) = ToSet(directory) \ PathsForSession(session),
                    ~List(directory, config).truncated
             PROVE  /\ ~List(after, config).truncated
                    /\ Inventory(after, config) =
                         [s \in DOMAIN Inventory(directory, config) \ {session} |->
                            Inventory(directory, config)[s]]
  BY DEF DeleteMatchesList
<1>1. rest = {name \in before : name.stem # session}
  <2>1. ASSUME NEW name \in before PROVE name \in PathsForSession(session) <=> name.stem = session
    <3>1. name.kind \in RetainedKinds /\ name = [stem |-> name.stem, kind |-> name.kind]
      BY OwnedAreNames
    <3> QED BY <3>1 DEF PathsForSession
  <2>2. rest = before \ PathsForSession(session)
    BY DEF OwnedNames
  <2> HIDE DEF before, rest
  <2> QED BY <2>1, <2>2
<1>2. ASSUME NEW d \in {directory, after}
      PROVE  /\ IsFiniteSet(ToSet(d)) /\ Len(d) = Cardinality(ToSet(d)) /\ Len(d) \in Nat
             /\ IsFiniteSet(OwnedNames(d, config))
             /\ Cardinality(Sessions(d, config)) = Cardinality(OwnedNames(d, config))
  <2>1. d \in Seq(Names) /\ Distinct(d) /\ DOMAIN d = 1..Len(d) /\ Len(d) \in Nat
    OBVIOUS
  <2>2. Cardinality(1..Len(d)) = Len(d)
    <3>1. 1 \in Int /\ Len(d) \in Int /\ ~(1 > Len(d) + 1)
      BY <2>1
    <3>2. Cardinality(1..Len(d)) = IF 1 > Len(d) THEN 0 ELSE Len(d) - 1 + 1
      BY <3>1, FS_Interval, Zenon
    <3> QED BY <2>1, <3>2
  <2>3. ToSet(d) = {d[i] : i \in DOMAIN d}
    BY DEF ToSet
  <2>4. IsFiniteSet(ToSet(d)) /\ Cardinality(DOMAIN d) = Cardinality(ToSet(d))
    BY <2>1, <2>3, PositionsAreNames
  <2>5. OwnedNames(d, config) = {d[i] : i \in Sessions(d, config)}
    <3>1. \A i \in Sessions(d, config) : d[i] \in OwnedNames(d, config)
      BY DEF Sessions, OwnedNames, ToSet
    <3>2. ASSUME NEW name \in OwnedNames(d, config)
          PROVE  \E i \in Sessions(d, config) : name = d[i]
      BY DEF Sessions, OwnedNames, ToSet
    <3> QED BY <3>1, <3>2
  <2>6. Sessions(d, config) \in SUBSET DOMAIN d
    BY DEF Sessions
  <2>7. /\ IsFiniteSet(OwnedNames(d, config))
        /\ Cardinality(Sessions(d, config)) = Cardinality(OwnedNames(d, config))
    BY <2>1, <2>5, <2>6, PositionsAreNames
  <2> QED BY <2>1, <2>2, <2>4, <2>7
<1>3. Len(after) <= Len(directory)
  <2>1. ToSet(after) \in SUBSET ToSet(directory)
    OBVIOUS
  <2>2. Cardinality(ToSet(after)) <= Cardinality(ToSet(directory))
    BY <1>2, <2>1, FS_Subset
  <2> QED BY <1>2, <2>2
<1>4. /\ Cardinality(rest) <= Cardinality(before)
      /\ Cardinality(rest) \in Nat /\ Cardinality(before) \in Nat
  <2>1. rest \in SUBSET before /\ IsFiniteSet(before) /\ IsFiniteSet(rest)
    <3>1. IsFiniteSet(before) /\ IsFiniteSet(rest)
      BY <1>2
    <3> HIDE DEF before, rest
    <3> QED BY <1>1, <3>1
  <2> HIDE DEF before, rest
  <2> QED BY <2>1, FS_Subset, FS_CardinalityType
<1>5. ~List(after, config).truncated
  <2>1. ~(Len(directory) > MaxClassified) /\ Cardinality(Sessions(directory, config)) <= MaxListed
    BY ListFacts
  <2>2. Cardinality(before) <= MaxListed
    BY <1>2, <2>1
  <2>3. Cardinality(rest) <= MaxListed
    <3> HIDE DEF before, rest
    <3> QED BY <1>4, <2>2
  <2>4. Cardinality(Sessions(after, config)) <= MaxListed
    BY <1>2, <2>3
  <2>5. ~(Len(after) > MaxClassified)
    BY <1>2, <1>3, <2>1
  <2> QED BY <2>4, <2>5, ListFacts
<1>6. List(directory, config).listed = before /\ List(after, config).listed = rest
  BY <1>5, ListFacts
<1> HIDE DEF before, rest
<1>7. /\ Inventory(directory, config) =
           [s \in {x.stem : x \in before} |-> {x.kind : x \in {m \in before : m.stem = s}}]
      /\ Inventory(after, config) =
           [s \in {x.stem : x \in rest} |-> {x.kind : x \in {m \in rest : m.stem = s}}]
  BY <1>6 DEF Inventory
<1>8. {x.stem : x \in rest} = {x.stem : x \in before} \ {session}
  BY <1>1
<1>9. ASSUME NEW s, s # session
      PROVE  {m \in rest : m.stem = s} = {m \in before : m.stem = s}
  BY <1>1, <1>9
<1>10. Inventory(after, config) =
         [s \in DOMAIN Inventory(directory, config) \ {session} |-> Inventory(directory, config)[s]]
  <2>1. DOMAIN Inventory(directory, config) \ {session} = {x.stem : x \in rest}
    BY <1>7, <1>8
  <2>2. ASSUME NEW s \in {x.stem : x \in rest}
        PROVE  {x.kind : x \in {m \in rest : m.stem = s}} = Inventory(directory, config)[s]
    <3>1. s # session /\ s \in {x.stem : x \in before}
      BY <1>8
    <3>2. {m \in rest : m.stem = s} = {m \in before : m.stem = s}
      BY <1>9, <3>1
    <3>3. Inventory(directory, config)[s] = {x.kind : x \in {m \in before : m.stem = s}}
      BY <1>7, <3>1
    <3> QED BY <3>2, <3>3
  <2> QED BY <1>7, <2>1, <2>2
<1> QED BY <1>5, <1>10

(* The privacy summary tells until when what a session leaves is kept: only *)
(* that of an attached browser opened as disposable is wrong, about the log *)
(* (createCliSessionPrivacySummary; close of runDaemon).                    *)
THEOREM RetentionsAreKept ==
  ASSUME NEW profileMode \in {"persistent", "disposable"}, NEW attached \in BOOLEAN
  PROVE  RetentionIsKept(profileMode, attached) <=> ~(profileMode = "disposable" /\ attached)
<1>1. DOMAIN Retention(profileMode, attached) = {"profile", "downloads", "artifacts", "daemon-log"}
  BY DEF Retention
<1>2. CASE profileMode = "persistent"
  BY <1>1, <1>2 DEF RetentionIsKept, Retention, SessionScope, RemovedByClose, RemovedByDestroy,
                    RemovedByStart, RetainedKinds
<1>3. CASE profileMode = "disposable" /\ ~attached
  BY <1>1, <1>3 DEF RetentionIsKept, Retention, SessionScope, RemovedByClose, RemovedByDestroy,
                    RemovedByStart, RetainedKinds
<1>4. CASE profileMode = "disposable" /\ attached
  <2>1. /\ Retention(profileMode, attached)["daemon-log"] = "until-destroy"
        /\ "daemon-log" \in RemovedByClose(profileMode, attached)
    BY <1>4 DEF Retention, SessionScope, RemovedByClose
  <2> QED BY <1>1, <1>4, <2>1 DEF RetentionIsKept
<1> QED BY <1>2, <1>3, <1>4
=============================================================================
