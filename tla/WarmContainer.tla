----------------------------- MODULE WarmContainer -----------------------------
(***************************************************************************)
(* Starting sessions in one warm, named container that all processes of a  *)
(* host share: src/session/playwright-container.ts.  Every command of the  *)
(* docker CLI is a step of its own, for other starts, explicit teardown    *)
(* and crashes of the server come between any two of them.                 *)
(*                                                                         *)
(* The docker host is external: what a command answers is modelled from    *)
(* how the code uses it.  A container is known by its number, a boot of    *)
(* its server by the number of the boot, which stands for its StartedAt.   *)
(***************************************************************************)
EXTENDS Naturals, Sequences, FiniteSets

CONSTANTS Starts,     \* calls of start...Container
          Processes,  \* host processes; each has its own egress cache
          Images,
          None,
          MaxMishaps  \* bound: deaths of a server and explicit teardowns

ASSUME MishapsAreBounded == MaxMishaps \in Nat
ASSUME StartsAreFinite == IsFiniteSet(Starts)

(* What an inspection shows of a container: its number, image, label, state *)
(* and ports; and the boots that have printed that they listen.             *)
Box == [id : Nat, image : Images, path : Nat, up : BOOLEAN, boot : Nat, lines : SUBSET Nat,
        joined : BOOLEAN, published : BOOLEAN]

ASSUME NoneIsNoBox == None \notin Box

VARIABLES box,       \* the container of the name, or None
          made,      \* sequence: the image each container was made of
          boots,     \* boots so far, of any container
          camoufox,  \* whether this is the Camoufox or the Playwright service
          networked, \* whether a shared docker network is configured
          mishaps,
          asks,      \* start -> [image, probe, host]: what which process wants
          run,       \* start -> where it is, its locals, what befell it
          cache,     \* process -> its egress cache
          probes,    \* sequence of the probes made
          stopping   \* processes between removing the container and forgetting

hostVars == <<box, made, boots, camoufox, networked, mishaps>>
processVars == <<cache, probes, stopping>>
vars == <<hostVars, asks, run, processVars>>

Ids == 1..(Cardinality(Starts) + 1)
Commands == {"image", "fetch", "inspect", "remove", "run", "restart", "networks", "connect",
             "started", "logs", "refresh", "port", "options", "attach", "probe", "answer"}
Ends == {"closed", "failed"}
Probe == [id : Ids, ranIn : Ids \cup {0}, done : BOOLEAN]

(* id and path: as last inspected; since: StartedAt as read before waiting; *)
(* addr: the boot whose port was found; conn: the container its browser     *)
(* runs in; asked: its probe.  The last three are history: since the first  *)
(* inspection a container died or was removed, or one of another image was  *)
(* made; a start for the same image ended the session.                      *)
At(step) == [at |-> step, id |-> 0, path |-> 0, since |-> 0, addr |-> 0, conn |-> 0,
             asked |-> 0, disturbed |-> FALSE, outdated |-> FALSE, cut |-> FALSE]

-----------------------------------------------------------------------------
(* The cache of src/session/egress.ts that each process keeps of what a     *)
(* container can reach: one entry per container name, made for one          *)
(* container identity.  All starts of the model use one name, so a cache    *)
(* is one entry or Empty.  A value is a promise, known here by its number.  *)
Empty == [id |-> 0, value |-> 0]

(* Faulty: the entry is found by the name alone.                            *)
CachedByName(entry, id) == entry.value

(* get: what getOrCreate returns without asking again, 0 when it must ask.  *)
Cached(entry, id) == IF entry # Empty /\ entry.id = id THEN entry.value ELSE 0

(* getOrCreate: the new promise replaces whatever entry there is.           *)
Put(id, value) == [id |-> id, value |-> value]

(* resolveInternetEgressProbe: nothing is contacted that was not asked for. *)
Disclosed(enabled) ==
  IF enabled THEN [enabled |-> TRUE, destination |-> "https://1.1.1.1:443"]
  ELSE [enabled |-> FALSE, destination |-> "null"]
-----------------------------------------------------------------------------
ContainerTypeOK ==
  /\ box # None =>
       /\ box \in Box
       /\ box.id = Len(made) /\ box.image = made[box.id] /\ box.path \in {0, box.id}
       /\ box.boot \in 1..boots /\ box.lines \subseteq 1..box.boot
  /\ made \in Seq(Images) /\ Len(made) \in Ids \cup {0}
  /\ \A s \in Starts :
       /\ run[s].at \in Commands \cup Ends \cup {"up"}
       /\ run[s].id \in 0..Len(made) /\ run[s].conn \in 0..Len(made)
       /\ run[s].since \in 0..boots /\ run[s].addr \in 0..boots
       /\ run[s].asked \in 0..Len(probes)
  /\ probes \in Seq(Probe)
  /\ \A p \in Processes : cache[p] # Empty =>
       cache[p].value \in DOMAIN probes /\ cache[p].id = probes[cache[p].value].id
  /\ stopping \subseteq Processes

-----------------------------------------------------------------------------
(* The docker host (external).                                              *)
Running == IF box = None THEN FALSE ELSE box.up
Is(id) == IF box = None THEN FALSE ELSE box.id = id
Begun(s) == run[s].at \notin {"image", "fetch", "inspect", "up"} \cup Ends
Live(s) == run[s].at \in {"probe", "answer", "up"}

New(image) ==
  [id |-> Len(made) + 1, image |-> image, path |-> IF camoufox THEN Len(made) + 1 ELSE 0,
   up |-> TRUE, boot |-> boots + 1, lines |-> {}, joined |-> networked,
   published |-> ~networked]

Disturbed == [s \in Starts |-> IF Begun(s) THEN [run[s] EXCEPT !.disturbed = TRUE] ELSE run[s]]

Listen ==
  /\ Running /\ box.boot \notin box.lines
  /\ box' = [box EXCEPT !.lines = @ \cup {box.boot}]
  /\ UNCHANGED <<made, boots, camoufox, networked, mishaps, asks, run, processVars>>

(* The server dies; --restart unless-stopped boots it again, unless the     *)
(* container was stopped by hand.                                           *)
Die ==
  /\ Running /\ mishaps < MaxMishaps
  /\ mishaps' = mishaps + 1
  /\ \/ box' = [box EXCEPT !.up = FALSE] /\ UNCHANGED boots
     \/ box' = [box EXCEPT !.boot = boots + 1] /\ boots' = boots + 1
  /\ run' = Disturbed
  /\ UNCHANGED <<made, camoufox, networked, asks, processVars>>

ContainerInit ==
  /\ camoufox \in BOOLEAN /\ networked \in BOOLEAN
  /\ \/ box = None /\ made = <<>> /\ boots = 0
     \/ /\ boots = 1
        /\ \E image \in Images, label, up, net \in BOOLEAN :
             /\ label => camoufox
             /\ made = <<image>>
             /\ box = [id |-> 1, image |-> image, path |-> IF label THEN 1 ELSE 0, up |-> up,
                       boot |-> 1, lines |-> {1}, joined |-> net, published |-> ~net]
  /\ mishaps = 0
  /\ asks \in [Starts -> [image : Images, probe : BOOLEAN, host : Processes]]
  /\ run = [s \in Starts |-> At(IF camoufox THEN "image" ELSE "inspect")]
  /\ cache = [p \in Processes |-> Empty] /\ probes = <<>> /\ stopping = {}

-----------------------------------------------------------------------------
(* ensurePlaywrightContainer.  A command that fails rejects the start.      *)
Goes(s, step) == run' = [run EXCEPT ![s].at = step]
Fails(s) == run' = [run EXCEPT ![s] = At("failed")]
SameHost == UNCHANGED <<hostVars, asks, processVars>>

(* Any docker command that the code does not catch.                         *)
DockerFails(s) ==
  /\ run[s].at \in {"fetch", "remove", "run", "restart", "connect", "port", "options", "attach"}
  /\ Fails(s)
  /\ SameHost

OtherImage(s, b) == b.image # asks[s].image

Inspected(s, stale) ==
  /\ run[s].at = "inspect"
  /\ Goes(s, IF box = None THEN "run" ELSE IF stale THEN "remove"
             ELSE IF ~box.up THEN "restart" ELSE "networks")
  /\ SameHost

(* Faulty: a running container is taken as it is.                           *)
InspectRunning(s) == Inspected(s, box # None /\ OtherImage(s, box) /\ ~Running)

Inspect(s) == Inspected(s, box # None /\ OtherImage(s, box))

(* docker rm -f: whatever container has the name by now, also one that      *)
(* another start has just made and has sessions in.                         *)
RemoveStale(s) ==
  /\ run[s].at = "remove"
  /\ box' = None
  /\ run' = [t \in Starts |->
               IF t = s THEN [run[s] EXCEPT !.at = "run"]
               ELSE [Disturbed[t] EXCEPT !.cut = @ \/ (Live(t) /\ Is(run[t].conn)
                                                       /\ asks[t].image = asks[s].image)]]
  /\ UNCHANGED <<made, boots, camoufox, networked, mishaps, asks, processVars>>

(* docker run: the name may have been taken since.                          *)
Run(s) ==
  /\ run[s].at = "run"
  /\ IF box # None
     THEN Fails(s) /\ UNCHANGED <<box, made, boots>>
     ELSE /\ box' = New(asks[s].image)
          /\ made' = Append(made, asks[s].image)
          /\ boots' = boots + 1
          /\ run' = [t \in Starts |->
                       IF t = s THEN [run[s] EXCEPT !.at = "networks"]
                       ELSE [run[t] EXCEPT !.outdated = @ \/ (Begun(t) /\ OtherImage(t, box'))]]
  /\ UNCHANGED <<camoufox, networked, mishaps, asks, processVars>>

(* docker start: a name without container is refused, one already running   *)
(* is left alone.                                                           *)
Restart(s) ==
  /\ run[s].at = "restart"
  /\ IF box = None THEN Fails(s) ELSE Goes(s, "networks")
  /\ IF box # None /\ ~Running
     THEN box' = [box EXCEPT !.up = TRUE, !.boot = boots + 1] /\ boots' = boots + 1
     ELSE UNCHANGED <<box, boots>>
  /\ UNCHANGED <<made, camoufox, networked, mishaps, asks, processVars>>

(* containerNetworks: a container that is not there has no networks.        *)
LookAtNetworks(s) ==
  /\ run[s].at = "networks"
  /\ Goes(s, IF networked /\ (IF box = None THEN TRUE ELSE ~box.joined)
             THEN "connect" ELSE "started")
  /\ SameHost

(* docker network connect: refused when another start was faster.           *)
JoinNetwork(s) ==
  /\ run[s].at = "connect"
  /\ IF (IF box = None THEN TRUE ELSE box.joined)
     THEN Fails(s) /\ UNCHANGED box
     ELSE box' = [box EXCEPT !.joined = TRUE] /\ Goes(s, "started")
  /\ UNCHANGED <<made, boots, camoufox, networked, mishaps, asks, processVars>>

(* Faulty: all lines count.                                                 *)
ForgetStartedAt(s) == run[s].at = "started" /\ Goes(s, "logs") /\ SameHost

(* waitForServer: only lines printed since StartedAt count; without it, all *)
(* lines do.                                                                *)
ReadStartedAt(s) ==
  /\ run[s].at = "started"
  /\ run' = [run EXCEPT ![s].at = "logs", ![s].since = IF box = None THEN 0 ELSE box.boot]
  /\ SameHost

Listened(s) == IF box = None THEN FALSE ELSE \E b \in box.lines : b >= run[s].since

(* One turn of the loop that ends it: the line is there, or it is not and   *)
(* neither is a running container.                                          *)
Poll(s) ==
  /\ run[s].at = "logs"
  /\ \/ Listened(s) /\ Goes(s, "refresh")
     \/ ~Listened(s) /\ ~Running /\ Fails(s)
  /\ SameHost

TimeOut(s) == run[s].at = "logs" /\ Fails(s) /\ SameHost

(* The refreshed inspection gives the identity that is returned.            *)
Refresh(s, next) ==
  /\ run[s].at = "refresh"
  /\ IF box = None THEN Fails(s)
     ELSE run' = [run EXCEPT ![s].at = next, ![s].id = box.id, ![s].path = box.path]
  /\ SameHost

(* mappedHostPort: every boot publishes another port.                       *)
FindPort(s, next) ==
  /\ run[s].at = "port"
  /\ IF Running /\ box.published
     THEN run' = [run EXCEPT ![s].at = next, ![s].addr = box.boot]
     ELSE Fails(s)
  /\ SameHost

(* The endpoint is the container's name and port, or a port of the host.    *)
Reachable(s) ==
  /\ Running /\ box.boot \in box.lines
  /\ IF networked THEN box.joined ELSE run[s].addr = box.boot

(* chromium.connect: a browser of its own in whatever container answers.    *)
Attach(s, accepted) ==
  /\ run[s].at = "attach"
  /\ IF Reachable(s) /\ accepted
     THEN run' = [run EXCEPT ![s] =
            [At(IF Disclosed(asks[s].probe).enabled THEN "probe" ELSE "up")
               EXCEPT !.id = run[s].id, !.conn = box.id, !.outdated = run[s].outdated]]
     ELSE Fails(s)
  /\ SameHost

(* probeInternetEgress: asked for under the identity that was returned.     *)
AskEgress(s) ==
  LET p == asks[s].host
      known == Cached(cache[p], run[s].id)
      answer == IF known = 0 THEN Len(probes) + 1 ELSE known
  IN  /\ run[s].at = "probe"
      /\ run' = [run EXCEPT ![s].at = "answer", ![s].asked = answer]
      /\ cache' = [cache EXCEPT ![p] = IF known = 0 THEN Put(run[s].id, answer) ELSE @]
      /\ probes' = IF known # 0 THEN probes
                   ELSE Append(probes, [id |-> run[s].id, ranIn |-> 0, done |-> FALSE])
      /\ UNCHANGED <<hostVars, asks, stopping>>

(* The probe is a docker exec by name; a failing one means no egress.       *)
RunProbe(k) ==
  /\ ~probes[k].done
  /\ probes' = [probes EXCEPT ![k].done = TRUE, ![k].ranIn = IF Running THEN box.id ELSE 0]
  /\ UNCHANGED <<hostVars, asks, run, cache, stopping>>

TakeAnswer(s) ==
  /\ run[s].at = "answer" /\ probes[run[s].asked].done
  /\ Goes(s, "up")
  /\ SameHost

(* stop of a session disconnects it and leaves the container warm.          *)
StopSession(s) ==
  /\ run[s].at = "up"
  /\ run' = [run EXCEPT ![s] = At("closed")]
  /\ SameHost

(* stopPlaywrightContainer, the explicit teardown, in any process.          *)
TearDown(p) ==
  /\ mishaps < MaxMishaps /\ p \notin stopping
  /\ mishaps' = mishaps + 1
  /\ box' = None /\ run' = Disturbed
  /\ stopping' = stopping \cup {p}
  /\ UNCHANGED <<made, boots, camoufox, networked, asks, cache, probes>>

ForgetEgress(p) ==
  /\ p \in stopping
  /\ stopping' = stopping \ {p}
  /\ cache' = [cache EXCEPT ![p] = Empty]
  /\ UNCHANGED <<hostVars, asks, run, probes>>

PlaywrightStep(s) ==
  \/ Inspect(s) \/ RemoveStale(s) \/ Run(s) \/ Restart(s)
  \/ LookAtNetworks(s) \/ JoinNetwork(s)
  \/ ReadStartedAt(s) \/ Poll(s) \/ TimeOut(s)
  \/ Refresh(s, IF networked THEN "attach" ELSE "port") \/ FindPort(s, "attach")
  \/ Attach(s, TRUE) \/ AskEgress(s) \/ TakeAnswer(s)
=============================================================================
