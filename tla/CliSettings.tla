---------------------------- MODULE CliSettings ----------------------------
(***************************************************************************)
(* Where a session's browser comes from: the options of a command, the     *)
(* environment of the shell and the saved configuration decide together    *)
(* which browser a command wants, how it is reached and which profile it   *)
(* uses (src/cli.ts, parseArgs).  They decide twice: once in the command,  *)
(* and again in the daemon it spawns, which parses other options, in an    *)
(* environment the command has changed, and reads the configuration file   *)
(* anew - a file that another terminal's `config' may replace in between.  *)
(*                                                                         *)
(* An option, a variable or a part of the configuration that is absent is  *)
(* Unset, as undefined is in the code; an error thrown is Refused.  Values *)
(* the parsers reject outright (a browser of another name) are left out,   *)
(* and so is what DaemonLifecycle models: pings, crashes and time limits.  *)
(***************************************************************************)
EXTENDS Naturals, FiniteSets

CONSTANTS Clients,          \* terminals
          Endpoints,        \* CDP endpoints
          DefaultEndpoint,  \* http://127.0.0.1:9222
          Unset, Refused,
          MaxOptions,       \* bound: options one command is given
          MaxVariables,     \* bound: variables one shell has set
          MaxCommands       \* bound: commands issued in a behaviour

ASSUME DefaultIsAnEndpoint == DefaultEndpoint \in Endpoints
ASSUME NothingIsNoEndpoint == {Unset, Refused} \cap Endpoints = {}
ASSUME BoundsAreNatural == {MaxOptions, MaxVariables, MaxCommands} \subseteq Nat

Browsers == {"chromium", "camoufox"}
Profiles == {"persistent", "disposable"}
Modes == {"chromium-headless", "chromium-headed", "chrome-cdp",
          "camoufox-headless", "camoufox-headed"}
CamoufoxModes == {"camoufox-headless", "camoufox-headed"}

Given(r) == {f \in DOMAIN r : r[f] # Unset}

CommandLines ==
  [browser : Browsers \cup {Unset}, endpoint : Endpoints \cup {Unset},
   attach : {TRUE, Unset}, profile : Profiles \cup {Unset},
   antiBot : {"on", "off", Unset}, headless : BOOLEAN \cup {Unset}]
Shells ==
  [browser : Browsers \cup {Unset}, endpoint : Endpoints \cup {Unset},
   daemonEndpoint : Endpoints \cup {Unset},
   antiBot : {"on", "off", Unset}, headless : BOOLEAN \cup {Unset}]
Files == [mode : Modes, antiBot : {"on", "off", Unset}, endpoint : Endpoints \cup {Unset}]

Options == {o \in CommandLines : Cardinality(Given(o)) <= MaxOptions}
Environments == {e \in Shells : Cardinality(Given(e)) <= MaxVariables}

(* What a configuration, a command and a daemon come to.                    *)
Configurations == [mode : Modes, antiBot : {"on", "off"}, endpoint : Endpoints \cup {Unset}]
Wishes ==
  [browser : Browsers, endpoint : Endpoints \cup {Unset}, attach : BOOLEAN,
   connection : {"cdp", "launch", Unset}, profile : Profiles \cup {Unset}, headless : BOOLEAN]
Served ==
  [browser : Browsers, endpoint : Endpoints \cup {Unset}, profile : Profiles,
   headless : BOOLEAN, asked : Wishes]

ASSUME UnsetIsNoValue == Unset \notin BOOLEAN
ASSUME NothingIsNoName ==
  {Unset, Refused} \cap (Browsers \cup Profiles \cup Modes \cup {"on", "off"}) = {}
ASSUME NothingIsNoRecord ==
  \A nothing \in {Unset, Refused} :
    nothing \notin Configurations /\ nothing \notin Wishes /\ nothing \notin Served

VARIABLES file,     \* the configuration file, or Unset when there is none that parses
          saved,    \* the file is what a config command wrote
          start,    \* the startup in progress: what was asked, and the daemon's own inputs
          daemon,   \* the daemon that serves the session, or Unset
          using,    \* what the command of each terminal asked for, while it is served
          commands  \* commands issued so far

vars == <<file, saved, start, daemon, using, commands>>

SettingsTypeOK ==
  /\ file \in Files \cup {Unset} /\ saved \in BOOLEAN
  /\ start \in [by : Clients, asked : Wishes, env : Shells] \cup {Unset}
  /\ daemon \in Served \cup {Unset}
  /\ using \in [Clients -> Wishes \cup {Unset}]
  /\ commands \in 0..MaxCommands

Or(x, y) == IF x # Unset THEN x ELSE y

-----------------------------------------------------------------------------
(* Modes and anti-bot.                                                      *)
SettingsForMode(mode) ==
  [browser |-> IF mode \in CamoufoxModes THEN "camoufox" ELSE "chromium",
   headless |-> mode \in {"chromium-headless", "camoufox-headless"},
   connection |-> IF mode = "chrome-cdp" THEN "cdp" ELSE "launch"]

DefaultModeForAntiBot(antiBot) ==
  IF antiBot = "on" THEN "camoufox-headless" ELSE "chromium-headless"

ModeForAntiBot(mode, antiBot) ==
  CASE antiBot = "on" /\ mode = "chrome-cdp" -> Refused
    [] antiBot = "on" /\ mode = "chromium-headless" -> "camoufox-headless"
    [] antiBot = "on" /\ mode = "chromium-headed" -> "camoufox-headed"
    [] antiBot = "off" /\ mode = "camoufox-headless" -> "chromium-headless"
    [] antiBot = "off" /\ mode = "camoufox-headed" -> "chromium-headed"
    [] OTHER -> mode

(* readBrowserConfig: a chrome-cdp configuration without an endpoint, or    *)
(* with anti-bot on, counts as no configuration.                            *)
ReadConfig(f) ==
  IF f = Unset THEN Unset
  ELSE LET antiBot == Or(f.antiBot, IF f.mode \in CamoufoxModes THEN "on" ELSE "off")
       IN  IF f.mode = "chrome-cdp" /\ (antiBot = "on" \/ f.endpoint = Unset)
           THEN Unset
           ELSE [mode |-> f.mode, antiBot |-> antiBot,
                 endpoint |-> IF f.mode = "chrome-cdp" THEN f.endpoint ELSE Unset]

-----------------------------------------------------------------------------
(* parseArgs.                                                               *)
RequestedAntiBot(o, e) == Or(o.antiBot, e.antiBot)
AntiBot(o, e, config) ==
  Or(RequestedAntiBot(o, e), IF config = Unset THEN "off" ELSE config.antiBot)

CliLaunchOverride(o) == o.browser # Unset \/ o.headless # Unset \/ o.antiBot # Unset
EnvironmentLaunchOverride(e) == e.browser # Unset \/ e.headless # Unset \/ e.antiBot = "on"

CdpOverride(o, e) ==
  Or(o.endpoint, Or(e.daemonEndpoint, IF CliLaunchOverride(o) THEN Unset ELSE e.endpoint))

CdpEndpoint(o, e, config) ==
  Or(CdpOverride(o, e),
     IF /\ ~CliLaunchOverride(o) /\ ~EnvironmentLaunchOverride(e)
        /\ config # Unset /\ config.mode = "chrome-cdp"
     THEN config.endpoint ELSE Unset)

SelectedBrowser(o, e, config) ==
  LET override == Or(o.browser, IF o.endpoint # Unset THEN "chromium" ELSE e.browser)
      configured == IF config = Unset THEN Unset ELSE SettingsForMode(config.mode).browser
  IN  Or(override, IF CdpOverride(o, e) # Unset THEN "chromium" ELSE Or(configured, "chromium"))

ApplyAntiBot(o, e, config) ==
  IF AntiBot(o, e, config) = "on"
  THEN IF CdpEndpoint(o, e, config) # Unset \/ o.browser = "chromium"
       THEN Refused ELSE "camoufox"
  ELSE IF RequestedAntiBot(o, e) = "off" /\ o.browser # "camoufox"
       THEN "chromium" ELSE SelectedBrowser(o, e, config)

Headless(o, e, config) ==
  Or(o.headless, Or(e.headless,
     IF config = Unset THEN TRUE ELSE SettingsForMode(config.mode).headless))

Connection(o, e, config) ==
  CASE CdpEndpoint(o, e, config) # Unset -> "cdp"
    [] CdpEndpoint(o, e, config) = Unset
         /\ \/ CliLaunchOverride(o) \/ EnvironmentLaunchOverride(e)
            \/ config # Unset /\ config.mode # "chrome-cdp" -> "launch"
    [] OTHER -> Unset

ParseArgs(o, e, config) ==
  LET browser == ApplyAntiBot(o, e, config)
      endpoint == CdpEndpoint(o, e, config)
  IN  IF browser = Refused \/ (endpoint # Unset /\ browser # "chromium")
      THEN Refused
      ELSE [browser |-> browser, endpoint |-> endpoint, attach |-> o.attach = TRUE,
            connection |-> Connection(o, e, config),
            profile |-> o.profile, headless |-> Headless(o, e, config)]

-----------------------------------------------------------------------------
(* The daemon's own main, with the options and the environment it is given. *)
NoOptions == [browser |-> Unset, endpoint |-> Unset, attach |-> Unset,
              profile |-> Unset, antiBot |-> Unset, headless |-> Unset]
NoVariables == [browser |-> Unset, endpoint |-> Unset, daemonEndpoint |-> Unset,
                antiBot |-> Unset, headless |-> Unset]

(* Faulty: the consent of the command is not passed on.                     *)
DaemonOptionsWithoutConsent(asked) ==
  [NoOptions EXCEPT !.browser = asked.browser, !.profile = Or(asked.profile, "persistent")]

(* The options ensureDaemon spawns the daemon with.                         *)
DaemonOptions(asked) ==
  [browser |-> asked.browser, endpoint |-> Unset,
   attach |-> IF asked.endpoint # Unset THEN TRUE ELSE Unset,
   profile |-> Or(asked.profile, "persistent"), antiBot |-> Unset, headless |-> Unset]

(* Faulty: the command does not export the visibility it settled on.        *)
DaemonEnvironmentAsFound(asked, e) == [e EXCEPT !.daemonEndpoint = asked.endpoint]

(* main exports BLOP_BROWSER_HEADLESS and drops an inherited                *)
(* BLOP_BROWSER_DAEMON_CDP_ENDPOINT before ensureDaemon sets its own.       *)
DaemonEnvironment(asked, e) ==
  [e EXCEPT !.daemonEndpoint = asked.endpoint, !.headless = asked.headless]

RunDaemon(asked, e, config) ==
  LET parsed == ParseArgs(DaemonOptions(asked), DaemonEnvironment(asked, e), config)
  IN  IF parsed = Refused THEN Refused
      ELSE IF parsed.endpoint # Unset /\ ~parsed.attach THEN Refused
      ELSE [browser |-> parsed.browser, endpoint |-> parsed.endpoint,
            profile |-> parsed.profile, headless |-> parsed.headless, asked |-> asked]

(* Faulty: a command that names no connection wants a managed browser.      *)
MatchesManaged(d, asked) ==
  LET connection == IF d.endpoint # Unset THEN "cdp" ELSE "launch"
  IN  /\ d.browser = asked.browser
      /\ Or(asked.connection, "launch") = connection
      /\ asked.endpoint \in {Unset, d.endpoint}
      /\ asked.profile \in {Unset, d.profile} \/ connection = "cdp"

(* The comparison of ensureDaemon: a running daemon serves a command only   *)
(* if it has the browser, and the connection, endpoint and profile the      *)
(* command names.                                                           *)
Matches(d, asked) ==
  LET connection == IF d.endpoint # Unset THEN "cdp" ELSE "launch"
  IN  /\ d.browser = asked.browser
      /\ asked.connection \in {Unset, connection}
      /\ asked.endpoint \in {Unset, d.endpoint}
      /\ asked.profile \in {Unset, d.profile} \/ connection = "cdp"

-----------------------------------------------------------------------------
Init ==
  /\ file \in Files \cup {Unset}
  /\ saved = FALSE
  /\ start = Unset
  /\ daemon = Unset
  /\ using = [c \in Clients |-> Unset]
  /\ commands = 0

Count == commands < MaxCommands /\ commands' = commands + 1

Acceptable(asked) ==
  /\ asked # Refused
  /\ asked.attach => asked.endpoint # Unset
  /\ asked.endpoint # Unset => asked.profile = Unset

(* Faulty: an endpoint of the environment or the file needs no consent.     *)
DispatchesOnTrust(asked) ==
  /\ Acceptable(asked)
  /\ daemon # Unset => Matches(daemon, asked)

(* Whether ensureDaemon lets a command through to a daemon: one that runs   *)
(* must match, and attaching to a running browser needs --attach-existing.  *)
Dispatches(asked) ==
  /\ Acceptable(asked)
  /\ IF daemon # Unset THEN Matches(daemon, asked)
     ELSE asked.endpoint # Unset => asked.attach

(* ensureDaemon: the command uses the running daemon, waits for the one     *)
(* another command is starting, or starts one itself.  What it asked for is *)
(* compared with a daemon that runs, not with one that is being started.    *)
EnsureDaemon(c, asked, e) ==
  /\ \/ /\ Dispatches(asked)
        /\ using' = [using EXCEPT ![c] = asked]
        /\ start' = IF daemon = Unset /\ start = Unset
                    THEN [by |-> c, asked |-> asked, env |-> e] ELSE start
     \/ ~Dispatches(asked) /\ UNCHANGED <<using, start>>
  /\ UNCHANGED daemon

(* What commands can ask for, given the configuration they read.            *)
Configs == {ReadConfig(f) : f \in Files} \cup {Unset}
Requests ==
  [config \in Configs |->
     {[asked |-> ParseArgs(o, e, config), env |-> e] : o \in Options, e \in Environments}]

(* A command that needs the browser, with its options, in its shell.        *)
Command(c, request) ==
  /\ using[c] = Unset
  /\ Count
  /\ EnsureDaemon(c, request.asked, request.env)
  /\ UNCHANGED <<file, saved>>

(* The daemon parses what it was given, reading the configuration file as   *)
(* it is by now, and serves the session or dies and takes the command that  *)
(* started it along.                                                        *)
DaemonStarts ==
  /\ start # Unset
  /\ start' = Unset
  /\ LET d == RunDaemon(start.asked, start.env, ReadConfig(file))
     IN  \/ d # Refused /\ daemon' = d /\ UNCHANGED using
         \/ /\ d = Refused
            /\ using' = [using EXCEPT ![start.by] = Unset]
            /\ UNCHANGED daemon
  /\ UNCHANGED <<file, saved, commands>>

(* A served command is done; one that waited for a startup that failed      *)
(* gives up.                                                                *)
Finish(c) ==
  /\ using[c] # Unset
  /\ start = Unset
  /\ using' = [using EXCEPT ![c] = Unset]
  /\ UNCHANGED <<file, saved, start, daemon, commands>>

(* close, and the idle time of the daemon.                                  *)
CloseSession ==
  /\ daemon # Unset
  /\ daemon' = Unset
  /\ using' = [c \in Clients |-> Unset]
  /\ UNCHANGED <<file, saved, start, commands>>

-----------------------------------------------------------------------------
(* Faulty: an anti-bot choice does not move the mode.                       *)
NewConfigUnmoved(o, e, config, given, answer) ==
  LET requested == RequestedAntiBot(o, e)
      mode == Or(given, IF requested # Unset
                        THEN Or(IF config = Unset THEN Unset ELSE config.mode,
                                DefaultModeForAntiBot(requested))
                        ELSE answer)
      antiBot == Or(requested, IF mode \in CamoufoxModes THEN "on" ELSE "off")
  IN  IF ModeForAntiBot(mode, antiBot) = Refused THEN Refused
      ELSE [mode |-> mode, antiBot |-> antiBot,
            endpoint |-> IF mode = "chrome-cdp" THEN DefaultEndpoint ELSE Unset]

(* What runConfigCommand saves.  `given' is the mode of --mode, `answer'    *)
(* what the user chooses at the prompt, which appears when neither a mode   *)
(* nor anti-bot is asked for; the endpoint offered there is the default.    *)
NewConfig(o, e, config, given, answer) ==
  LET requested == RequestedAntiBot(o, e)
      endpoint == CdpEndpoint(o, e, config)
      previous == IF config = Unset THEN Unset ELSE config.mode
      chosen == Or(given, IF requested # Unset
                          THEN ModeForAntiBot(Or(previous, DefaultModeForAntiBot(requested)), requested)
                          ELSE answer)
      antiBot == Or(requested, IF chosen \in CamoufoxModes THEN "on" ELSE "off")
      mode == IF chosen = Refused THEN Refused ELSE ModeForAntiBot(chosen, antiBot)
      known == IF given # Unset THEN endpoint
               ELSE IF requested = Unset \/ config = Unset THEN DefaultEndpoint
               ELSE Or(endpoint, config.endpoint)
  IN  IF mode = Refused THEN Refused
      ELSE [mode |-> mode, antiBot |-> antiBot,
            endpoint |-> IF mode = "chrome-cdp" THEN Or(known, DefaultEndpoint) ELSE Unset]

(* What `config' can save, given the configuration it finds.                *)
ConfigOptions == {o \in Options : Given(o) \subseteq {"endpoint", "antiBot"}}
Saves ==
  [config \in Configs |->
     (UNION {{NewConfig(o, e, config, m, Unset), NewConfig(o, e, config, Unset, m)} :
               o \in ConfigOptions, e \in Environments, m \in Modes}) \ {Refused}]

(* `blop-browser config', with --mode, --anti-bot or an answer.             *)
Configure(written) ==
  /\ Count
  /\ file' = written
  /\ saved' = TRUE
  /\ UNCHANGED <<start, daemon, using>>

(* shouldRunFirstConfig: the first command of a person at a terminal asks   *)
(* for a mode before it runs, unless an option already says which: `o' is   *)
(* at most a profile.  It then parses again, without the endpoint variable  *)
(* that main has dropped meanwhile.                                         *)
FirstConfig(c, o, e, answer) ==
  LET config == ReadConfig(file)
      written == NewConfig(o, e, config, Unset, answer)
  IN  /\ using[c] = Unset
      /\ config = Unset
      /\ ParseArgs(o, e, config) # Refused
      /\ written # Refused
      /\ Count
      /\ file' = written
      /\ saved' = TRUE
      /\ LET left == [e EXCEPT !.daemonEndpoint = Unset]
         IN  EnsureDaemon(c, ParseArgs(o, left, ReadConfig(written)), left)

PlainOptions == {o \in Options : Given(o) \subseteq {"profile"}}

Next ==
  \/ \E c \in Clients :
       \/ \E request \in Requests[ReadConfig(file)] : Command(c, request)
       \/ \E o \in PlainOptions, e \in Environments, answer \in Modes :
            FirstConfig(c, o, e, answer)
       \/ Finish(c)
  \/ \E written \in Saves[ReadConfig(file)] : Configure(written)
  \/ DaemonStarts
  \/ CloseSession

Spec == Init /\ [][Next]_vars

-----------------------------------------------------------------------------
(* Properties.                                                              *)

(* A daemon is what its command settled on - browser, endpoint, profile and *)
(* visibility - although it parses other options again, in a changed        *)
(* environment, against a configuration that may have been replaced         *)
(* meanwhile.                                                               *)
DaemonIsAsAsked ==
  daemon # Unset =>
    LET asked == daemon.asked
    IN  /\ daemon.browser = asked.browser
        /\ daemon.endpoint = asked.endpoint
        /\ daemon.headless = asked.headless
        /\ daemon.profile = Or(asked.profile, "persistent")

(* A browser that was already running is attached to only by a command that *)
(* was given --attach-existing: neither the configuration nor a variable    *)
(* stands in for it (README.md, "Choose a browser mode").                   *)
AttachmentIsGranted ==
  daemon # Unset /\ daemon.endpoint # Unset => daemon.asked.attach

(* A start that the command accepted fails in the daemon for one reason     *)
(* only: the command turned anti-bot mode off, or wanted Chromium from an   *)
(* older configuration, and the daemon finds it on.                         *)
StartsFailOnlyOnAntiBot ==
  [][start # Unset /\ start' = Unset /\ daemon' = Unset
       => /\ start.asked.browser = "chromium"
          /\ AntiBot(NoOptions, start.env, ReadConfig(file)) = "on"]_vars

(* "An explicit ... --anti-bot option overrides the saved default for a new *)
(* session" (README.md, "Choose a browser mode").  With one command issued  *)
(* the daemon finds the configuration the command found, and the two come   *)
(* to different ends only if the command was given --anti-bot off.          *)
(* MCCliSettingsAntiBot.cfg refutes it.                                     *)
AntiBotOffOverrides ==
  [][start # Unset /\ start' = Unset /\ commands = 1 => daemon' # Unset]_vars

(* What `config' reports and saves is what a plain command then gets: its   *)
(* browser, visibility and connection.                                      *)
SavedModeIsUsed ==
  saved =>
    LET plain == ParseArgs(NoOptions, NoVariables, ReadConfig(file))
        settings == SettingsForMode(file.mode)
    IN  /\ plain # Refused
        /\ plain.browser = settings.browser
        /\ plain.headless = settings.headless
        /\ plain.connection = settings.connection

(* As long as nothing is configured, a plain command reaches the Chromium   *)
(* session an earlier one opened, however that one had to ask for it        *)
(* (README.md: "Later commands reuse that connection").                     *)
LaterCommandsReuse ==
  daemon # Unset /\ daemon.browser = "chromium" /\ ReadConfig(file) = Unset
    => Matches(daemon, ParseArgs(NoOptions, NoVariables, Unset))

(* A command is served by a daemon that has the browser and, where it names *)
(* them, the connection, the endpoint and the profile it asked for: any     *)
(* other is refused with "already uses ...".                                *)
ServedAsAsked ==
  \A c \in Clients :
    using[c] # Unset /\ daemon # Unset => Matches(daemon, using[c])
=============================================================================
