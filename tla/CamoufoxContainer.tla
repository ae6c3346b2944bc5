--------------------------- MODULE CamoufoxContainer ---------------------------
(***************************************************************************)
(* The Camoufox service beside the Playwright one, both in one host: the   *)
(* steps in which src/session/camoufox-container.ts differs from           *)
(* WarmContainer, the next-state relation of either service, and what the  *)
(* starts promise.  Camoufox builds or pulls its image itself, labels its  *)
(* container with a fresh path that every client needs, and asks the       *)
(* container for the options of the browser.                               *)
(***************************************************************************)
EXTENDS WarmContainer

VARIABLE local   \* the images the host has

allVars == <<vars, local>>

CamoufoxInit == ContainerInit /\ local \in (IF camoufox THEN SUBSET Images ELSE {Images})

(* imageExists, then pull of a named image or build of the default one.     *)
EnsureImage(s) ==
  /\ run[s].at = "image"
  /\ Goes(s, IF asks[s].image \in local THEN "inspect" ELSE "fetch")
  /\ SameHost /\ UNCHANGED local

FetchImage(s) ==
  /\ run[s].at = "fetch"
  /\ local' = local \cup {asks[s].image}
  /\ Goes(s, "inspect")
  /\ SameHost

(* A container without the label is stale whatever its image.               *)
CamoufoxInspect(s) ==
  Inspected(s, box # None /\ (OtherImage(s, box) \/ box.path = 0))

(* The label of the new container is the path it serves.                    *)
CamoufoxRun(s) == RemoveStale(s) \/ Run(s) \/ Restart(s)

CamoufoxJoin(s) == LookAtNetworks(s) \/ JoinNetwork(s)

CamoufoxWait(s) == ReadStartedAt(s) \/ Poll(s) \/ TimeOut(s)

(* The path is of the refreshed inspection, the port of a later command.    *)
CamoufoxRefresh(s) == Refresh(s, IF networked THEN "options" ELSE "port")

CamoufoxPort(s) == FindPort(s, "options")

(* launchOptions: docker exec by name in whatever container there is.       *)
LaunchOptions(s) ==
  /\ run[s].at = "options"
  /\ IF Running THEN Goes(s, "attach") ELSE Fails(s)
  /\ SameHost

(* firefox.connect: a server knows only the path it was given.              *)
CamoufoxConnect(s) == Attach(s, IF box = None THEN FALSE ELSE box.path = run[s].path)

CamoufoxEgress(s) == AskEgress(s) \/ TakeAnswer(s)

CamoufoxTearDown(p) == TearDown(p) \/ ForgetEgress(p)

CamoufoxStep(s) ==
  \/ CamoufoxInspect(s) \/ CamoufoxRun(s) \/ CamoufoxJoin(s) \/ CamoufoxWait(s)
  \/ CamoufoxRefresh(s) \/ CamoufoxPort(s) \/ LaunchOptions(s) \/ CamoufoxConnect(s)
  \/ CamoufoxEgress(s)

StartStep(s) ==
  \/ EnsureImage(s) \/ FetchImage(s)
  \/ /\ \/ ~camoufox /\ PlaywrightStep(s)
        \/ camoufox /\ CamoufoxStep(s)
     /\ UNCHANGED local

ContainerNext ==
  \/ \E s \in Starts : StartStep(s)
  \/ /\ \/ \E s \in Starts : DockerFails(s) \/ StopSession(s)
        \/ \E p \in Processes :
             \/ ~camoufox /\ (TearDown(p) \/ ForgetEgress(p))
             \/ camoufox /\ CamoufoxTearDown(p)
        \/ \E k \in DOMAIN probes : RunProbe(k)
        \/ Listen
        \/ Die
     /\ UNCHANGED local

ContainerSpec == CamoufoxInit /\ [][ContainerNext]_allVars

-----------------------------------------------------------------------------
(* A start that nobody else's removal and no death of the server came       *)
(* across offers its caller an endpoint at which a server of the identity   *)
(* it returns is listening: the wait did not take a line of an earlier boot *)
(* for this one's, and what the three inspections saw fits together.        *)
UndisturbedStartConnects ==
  \A s \in Starts : run[s].at = "attach" /\ ~run[s].disturbed =>
    /\ Reachable(s)
    /\ box.id = run[s].id /\ box.path = run[s].path

(* The version of the server is the version of the client: a session runs   *)
(* in a container of the image its caller asked for, unless a caller that   *)
(* asked for another image replaced the container meanwhile.                *)
ServerMatchesClient ==
  \A s \in Starts : Live(s) /\ ~run[s].outdated => made[run[s].conn] = asks[s].image

(* While the container whose identity a session reports exists, the         *)
(* browser of the session runs in it, and the egress result it reports was  *)
(* measured in it, also when another session of the process asked for it,   *)
(* or when the container before it had the same name.                       *)
SessionIsWhereItSays ==
  \A s \in Starts : Live(s) /\ Is(run[s].id) =>
    /\ run[s].conn = run[s].id
    /\ run[s].at = "up" /\ run[s].asked # 0 =>
         probes[run[s].asked].ranIn \in {0, run[s].id}

(* Starting a session leaves the sessions of other callers of the same      *)
(* image alone.                                                             *)
StartsKeepSessions == \A s \in Starts : ~run[s].cut
=============================================================================
