--------------------------- MODULE SettingsProofs ---------------------------
(***************************************************************************)
(* What CliSettings promises for any terminals, endpoints and bounds.      *)
(*                                                                         *)
(* The heart is DaemonAgrees: whatever a command that settled on its       *)
(* wishes hands to the daemon, the daemon comes to the same settings from  *)
(* it or refuses for the one reason of StartsFailOnlyOnAntiBot, in any     *)
(* shell and with any configuration.  The invariants then only have to     *)
(* remember that a startup is for wishes of that kind (Granted), and that  *)
(* a file written by `config' is consistent (Consistent).                  *)
(***************************************************************************)
EXTENDS CliSettings, TLAPS

Anything == Configurations \cup {Unset}

(* An endpoint is reached by Chromium.                                      *)
Wanted == {w \in Wishes : w.endpoint # Unset => w.browser = "chromium"}

(* What ensureDaemon spawns a daemon for.                                   *)
Granted == {w \in Wanted : w.endpoint # Unset => w.attach}

Consistent(f) ==
  /\ f \in Configurations
  /\ (f.antiBot = "on") = (f.mode \in CamoufoxModes)
  /\ f.mode = "chrome-cdp" => f.endpoint # Unset

(* The daemon that serves is the one its command asked for.                 *)
Faithful(d) ==
  LET asked == d.asked
  IN  /\ d \in Served
      /\ d.browser = asked.browser
      /\ d.endpoint = asked.endpoint
      /\ d.headless = asked.headless
      /\ d.profile = Or(asked.profile, "persistent")

IInv ==
  /\ SettingsTypeOK
  /\ start # Unset => start.asked \in Granted
  /\ daemon # Unset => Faithful(daemon) /\ daemon.asked \in Granted
  /\ saved => Consistent(file)

-----------------------------------------------------------------------------
LEMMA ReadTyped ==
  ASSUME NEW f \in Files \cup {Unset}
  PROVE  ReadConfig(f) \in Anything
<1>1. CASE f = Unset
  BY <1>1 DEF ReadConfig, Anything
<1>2. CASE f # Unset
  <2>1. /\ f.mode \in Modes /\ f.endpoint \in Endpoints \cup {Unset}
        /\ Or(f.antiBot, IF f.mode \in CamoufoxModes THEN "on" ELSE "off") \in {"on", "off"}
    BY <1>2 DEF Files, Or
  <2> QED BY <1>2, <2>1 DEF ReadConfig, Anything, Configurations
<1> QED BY <1>1, <1>2

LEMMA VisibilityIsBoolean ==
  ASSUME NEW b \in BOOLEAN, NEW browser, NEW connection
  PROVE  [browser |-> browser, headless |-> b, connection |-> connection].headless \in BOOLEAN
OBVIOUS

LEMMA OrTyped ==
  ASSUME NEW S, NEW x \in S \cup {Unset}, NEW y \in S
  PROVE  Or(x, y) \in S
BY DEF Or

(* The parts of what parseArgs returns.                                     *)
LEMMA PartsTyped ==
  ASSUME NEW o \in CommandLines, NEW e \in Shells, NEW config \in Anything
  PROVE  /\ CdpOverride(o, e) \in Endpoints \cup {Unset}
         /\ CdpEndpoint(o, e, config) \in Endpoints \cup {Unset}
         /\ SelectedBrowser(o, e, config) \in Browsers
         /\ ApplyAntiBot(o, e, config) \in Browsers \cup {Refused}
         /\ Headless(o, e, config) \in BOOLEAN
         /\ Connection(o, e, config) \in {"cdp", "launch", Unset}
<1>1. CdpOverride(o, e) \in Endpoints \cup {Unset}
  BY DEF CdpOverride, Or, CommandLines, Shells
<1>2. CdpEndpoint(o, e, config) \in Endpoints \cup {Unset}
  <2>1. config # Unset => config.endpoint \in Endpoints \cup {Unset}
    BY DEF Anything, Configurations
  <2> QED BY <1>1, <2>1 DEF CdpEndpoint, Or
<1>3. SelectedBrowser(o, e, config) \in Browsers
  <2>1. /\ o.browser \in Browsers \cup {Unset} /\ e.browser \in Browsers \cup {Unset}
        /\ config # Unset => SettingsForMode(config.mode).browser \in Browsers
    BY DEF CommandLines, Shells, SettingsForMode, Browsers
  <2>2. "chromium" \in Browsers
    BY DEF Browsers
  <2> HIDE DEF Browsers
  <2> QED BY <2>1, <2>2 DEF SelectedBrowser, Or
<1>4. ApplyAntiBot(o, e, config) \in Browsers \cup {Refused}
  BY <1>3 DEF ApplyAntiBot, Browsers
<1>5. Headless(o, e, config) \in BOOLEAN
  <2> DEFINE configured == IF config = Unset THEN TRUE ELSE SettingsForMode(config.mode).headless
  <2>1. configured \in BOOLEAN
    <3>1. SettingsForMode(config.mode).headless \in BOOLEAN
      <4> DEFINE b == config.mode \in {"chromium-headless", "camoufox-headless"}
                 browser == IF config.mode \in CamoufoxModes THEN "camoufox" ELSE "chromium"
                 connection == IF config.mode = "chrome-cdp" THEN "cdp" ELSE "launch"
      <4>1. SettingsForMode(config.mode) =
              [browser |-> browser, headless |-> b, connection |-> connection]
        BY Zenon DEF SettingsForMode
      <4>2. b \in BOOLEAN
        OBVIOUS
      <4> HIDE DEF b, browser, connection
      <4> QED BY <4>1, <4>2, VisibilityIsBoolean
    <3> QED BY <3>1, Zenon
  <2>2. o.headless \in BOOLEAN \cup {Unset} /\ e.headless \in BOOLEAN \cup {Unset}
    BY DEF CommandLines, Shells
  <2> HIDE DEF configured
  <2>3. Or(e.headless, configured) \in BOOLEAN
    BY <2>1, <2>2, OrTyped
  <2>4. Or(o.headless, Or(e.headless, configured)) \in BOOLEAN
    BY <2>2, <2>3, OrTyped
  <2> QED BY <2>4 DEF Headless, configured
<1>6. Connection(o, e, config) \in {"cdp", "launch", Unset}
  BY DEF Connection
<1> QED BY <1>1, <1>2, <1>3, <1>4, <1>5, <1>6

LEMMA ParseTyped ==
  ASSUME NEW o \in CommandLines, NEW e \in Shells, NEW config \in Anything,
         ParseArgs(o, e, config) # Refused
  PROVE  ParseArgs(o, e, config) \in Wanted
<1> DEFINE browser == ApplyAntiBot(o, e, config)
           endpoint == CdpEndpoint(o, e, config)
           connection == Connection(o, e, config)
           headless == Headless(o, e, config)
<1>1. /\ browser \in Browsers \cup {Refused} /\ endpoint \in Endpoints \cup {Unset}
      /\ connection \in {"cdp", "launch", Unset} /\ headless \in BOOLEAN
  BY PartsTyped
<1>2. o.profile \in Profiles \cup {Unset}
  BY DEF CommandLines
<1>3. /\ browser # Refused /\ (endpoint # Unset => browser = "chromium")
      /\ ParseArgs(o, e, config) =
           [browser |-> browser, endpoint |-> endpoint, attach |-> o.attach = TRUE,
            connection |-> connection, profile |-> o.profile, headless |-> headless]
  BY DEF ParseArgs
<1> HIDE DEF browser, endpoint, connection, headless
<1> QED BY <1>1, <1>2, <1>3 DEF Wanted, Wishes

-----------------------------------------------------------------------------
(* The daemon's own parse of what a command hands it.                       *)
LEMMA DaemonParses ==
  ASSUME NEW asked \in Wanted, NEW e \in Shells, NEW config \in Anything
  PROVE  LET o == DaemonOptions(asked)
             shell == DaemonEnvironment(asked, e)
         IN  /\ o \in CommandLines /\ shell \in Shells
             /\ CdpEndpoint(o, shell, config) = asked.endpoint
             /\ Headless(o, shell, config) = asked.headless
             /\ AntiBot(o, shell, config) = AntiBot(NoOptions, e, config)
             /\ IF /\ AntiBot(NoOptions, e, config) = "on"
                   /\ asked.endpoint # Unset \/ asked.browser = "chromium"
                THEN ApplyAntiBot(o, shell, config) = Refused
                ELSE ApplyAntiBot(o, shell, config) = asked.browser
<1> DEFINE o == DaemonOptions(asked)
           shell == DaemonEnvironment(asked, e)
<1>1. /\ asked.browser \in Browsers /\ asked.headless \in BOOLEAN
      /\ asked.endpoint \in Endpoints \cup {Unset} /\ asked.profile \in Profiles \cup {Unset}
      /\ asked.browser # Unset /\ asked.headless # Unset
  BY UnsetIsNoValue, NothingIsNoName DEF Wanted, Wishes
<1>2. o = [browser |-> asked.browser, endpoint |-> Unset,
           attach |-> IF asked.endpoint # Unset THEN TRUE ELSE Unset,
           profile |-> Or(asked.profile, "persistent"), antiBot |-> Unset, headless |-> Unset]
  BY Zenon DEF DaemonOptions
<1>3. Or(asked.profile, "persistent") \in Profiles
  BY <1>1 DEF Or, Profiles
<1>4. o \in CommandLines
  BY <1>1, <1>2, <1>3 DEF CommandLines
<1>5. /\ shell \in Shells /\ shell.daemonEndpoint = asked.endpoint /\ shell.headless = asked.headless
      /\ shell.antiBot = e.antiBot
  BY <1>1 DEF DaemonEnvironment, Shells
<1> HIDE DEF o, shell
<1>6. CliLaunchOverride(o)
  BY <1>1, <1>2 DEF CliLaunchOverride
<1>7. CdpEndpoint(o, shell, config) = asked.endpoint
  <2>1. CdpOverride(o, shell) = asked.endpoint
    BY <1>2, <1>5, <1>6 DEF CdpOverride, Or
  <2> QED BY <1>6, <2>1 DEF CdpEndpoint, Or
<1>8. Headless(o, shell, config) = asked.headless
  BY <1>1, <1>2, <1>5 DEF Headless, Or
<1>9. /\ RequestedAntiBot(o, shell) = e.antiBot
      /\ AntiBot(o, shell, config) = AntiBot(NoOptions, e, config)
  BY <1>2, <1>5 DEF AntiBot, RequestedAntiBot, NoOptions, Or
<1>10. SelectedBrowser(o, shell, config) = asked.browser
  BY <1>1, <1>2 DEF SelectedBrowser, Or
<1>11. IF /\ AntiBot(NoOptions, e, config) = "on"
          /\ asked.endpoint # Unset \/ asked.browser = "chromium"
       THEN ApplyAntiBot(o, shell, config) = Refused
       ELSE ApplyAntiBot(o, shell, config) = asked.browser
  BY <1>1, <1>2, <1>7, <1>9, <1>10 DEF ApplyAntiBot, Browsers
<1> QED BY <1>4, <1>5, <1>7, <1>8, <1>9, <1>11 DEF o, shell

(* A daemon comes to what its command settled on, or refuses because it     *)
(* finds anti-bot mode on where the command came to Chromium.               *)
LEMMA DaemonAgrees ==
  ASSUME NEW asked \in Wanted, NEW e \in Shells, NEW config \in Anything
  PROVE  LET d == RunDaemon(asked, e, config)
         IN  IF asked.browser = "chromium" /\ AntiBot(NoOptions, e, config) = "on"
             THEN d = Refused
             ELSE d # Refused /\ d # Unset /\ Faithful(d) /\ d.asked = asked
<1> DEFINE o == DaemonOptions(asked)
           shell == DaemonEnvironment(asked, e)
           parsed == ParseArgs(o, shell, config)
           d == RunDaemon(asked, e, config)
<1>1. /\ o \in CommandLines /\ shell \in Shells
      /\ CdpEndpoint(o, shell, config) = asked.endpoint
      /\ Headless(o, shell, config) = asked.headless
  BY DaemonParses
<1>2. asked.endpoint # Unset => asked.browser = "chromium"
  BY DEF Wanted
<1>3. CASE asked.browser = "chromium" /\ AntiBot(NoOptions, e, config) = "on"
  <2>1. ApplyAntiBot(o, shell, config) = Refused
    BY <1>3, DaemonParses
  <2>2. parsed = Refused
    BY <2>1 DEF ParseArgs
  <2> QED BY <1>3, <2>2 DEF RunDaemon
<1>4. CASE ~(asked.browser = "chromium" /\ AntiBot(NoOptions, e, config) = "on")
  <2>1. ApplyAntiBot(o, shell, config) = asked.browser
    BY <1>2, <1>4, DaemonParses
  <2>2. /\ asked \in Wishes /\ asked.browser \in Browsers /\ asked.browser # Refused
        /\ asked.headless \in BOOLEAN /\ asked.endpoint \in Endpoints \cup {Unset}
        /\ Or(asked.profile, "persistent") \in Profiles
    BY NothingIsNoName DEF Wanted, Wishes, Or, Profiles
  <2>3. /\ o.profile = Or(asked.profile, "persistent")
        /\ asked.endpoint # Unset => o.attach = TRUE
    BY DEF DaemonOptions
  <2>4. parsed = [browser |-> asked.browser, endpoint |-> asked.endpoint,
                  attach |-> o.attach = TRUE, connection |-> Connection(o, shell, config),
                  profile |-> Or(asked.profile, "persistent"), headless |-> asked.headless]
    BY <1>1, <1>2, <2>1, <2>2, <2>3 DEF ParseArgs
  <2>5. parsed \in Wishes
    BY <1>1, <2>2, <2>4, PartsTyped DEF Wishes, Profiles
  <2>6. parsed # Refused
    BY <2>5, NothingIsNoRecord
  <2>7. d = [browser |-> asked.browser, endpoint |-> asked.endpoint,
             profile |-> Or(asked.profile, "persistent"), headless |-> asked.headless,
             asked |-> asked]
    <3>1. parsed.endpoint # Unset => parsed.attach
      <4>1. parsed.endpoint = asked.endpoint /\ parsed.attach = (o.attach = TRUE)
        <5> DEFINE t == o.attach = TRUE
                   c == Connection(o, shell, config)
                   p == Or(asked.profile, "persistent")
        <5>1. parsed = [browser |-> asked.browser, endpoint |-> asked.endpoint, attach |-> t,
                        connection |-> c, profile |-> p, headless |-> asked.headless]
          BY <2>4, Zenon
        <5> HIDE DEF parsed, t, c, p
        <5>2. parsed.endpoint = asked.endpoint /\ parsed.attach = t
          BY <5>1
        <5> QED BY <5>2, Zenon DEF t
      <4> QED BY <2>3, <4>1, Zenon
    <3>2. d = [browser |-> parsed.browser, endpoint |-> parsed.endpoint,
               profile |-> parsed.profile, headless |-> parsed.headless, asked |-> asked]
      BY <2>6, <3>1 DEF RunDaemon
    <3> HIDE DEF parsed
    <3> QED BY <2>4, <3>2
  <2>8. d \in Served
    BY <2>2, <2>7 DEF Served
  <2> HIDE DEF d
  <2>9. d # Refused /\ d # Unset /\ Faithful(d) /\ d.asked = asked
    BY <2>7, <2>8, NothingIsNoRecord DEF Faithful
  <2> QED BY <1>4, <2>9 DEF d
<1> QED BY <1>3, <1>4

-----------------------------------------------------------------------------
(* What `config' writes.                                                    *)
LEMMA ModesFollowAntiBot ==
  ASSUME NEW mode \in Modes, NEW antiBot \in {"on", "off"},
         ModeForAntiBot(mode, antiBot) # Refused
  PROVE  /\ ModeForAntiBot(mode, antiBot) \in Modes
         /\ (antiBot = "on") = (ModeForAntiBot(mode, antiBot) \in CamoufoxModes)
BY DEF ModeForAntiBot, Modes, CamoufoxModes

LEMMA WrittenIsConsistent ==
  ASSUME NEW o \in CommandLines, NEW e \in Shells, NEW config \in Anything,
         NEW given \in Modes \cup {Unset}, NEW answer \in Modes \cup {Unset},
         given # Unset \/ answer # Unset,
         NewConfig(o, e, config, given, answer) # Refused
  PROVE  Consistent(NewConfig(o, e, config, given, answer))
<1> DEFINE requested == RequestedAntiBot(o, e)
           endpoint == CdpEndpoint(o, e, config)
           previous == IF config = Unset THEN Unset ELSE config.mode
           chosen == Or(given, IF requested # Unset
                               THEN ModeForAntiBot(Or(previous, DefaultModeForAntiBot(requested)), requested)
                               ELSE answer)
           antiBot == Or(requested, IF chosen \in CamoufoxModes THEN "on" ELSE "off")
           mode == IF chosen = Refused THEN Refused ELSE ModeForAntiBot(chosen, antiBot)
           known == IF given # Unset THEN endpoint
                    ELSE IF requested = Unset \/ config = Unset THEN DefaultEndpoint
                    ELSE Or(endpoint, config.endpoint)
           kept == IF mode = "chrome-cdp" THEN Or(known, DefaultEndpoint) ELSE Unset
           written == [mode |-> mode, antiBot |-> antiBot, endpoint |-> kept]
<1>1. requested \in {"on", "off", Unset}
  BY DEF RequestedAntiBot, Or, CommandLines, Shells
<1>2. chosen \in Modes \cup {Refused}
  <2>1. previous \in Modes \cup {Unset}
    BY DEF Anything, Configurations
  <2>2. CASE given = Unset /\ requested # Unset
    <3> DEFINE base == Or(previous, DefaultModeForAntiBot(requested))
    <3>1. base \in Modes
      BY <2>1 DEF Or, DefaultModeForAntiBot, Modes
    <3>2. chosen = ModeForAntiBot(base, requested) /\ requested \in {"on", "off"}
      BY <1>1, <2>2 DEF Or
    <3> HIDE DEF base, chosen, requested
    <3> QED BY <3>1, <3>2, ModesFollowAntiBot
  <2>3. CASE given # Unset \/ requested = Unset
    BY <2>3 DEF Or
  <2> QED BY <2>2, <2>3
<1>3. antiBot \in {"on", "off"}
  BY <1>1 DEF Or
<1>4. known \in Endpoints \cup {Unset}
  <2>1. endpoint \in Endpoints \cup {Unset}
    BY PartsTyped
  <2>2. config # Unset => config.endpoint \in Endpoints \cup {Unset}
    BY DEF Anything, Configurations
  <2> QED BY <2>1, <2>2, DefaultIsAnEndpoint DEF Or
<1>5. Or(known, DefaultEndpoint) \in Endpoints
  BY <1>4, DefaultIsAnEndpoint DEF Or
<1>6. /\ NewConfig(o, e, config, given, answer) = written
      /\ mode # Refused
  BY DEF NewConfig
<1>7. mode \in Modes /\ (antiBot = "on") = (mode \in CamoufoxModes)
  BY <1>2, <1>3, <1>6, ModesFollowAntiBot
<1>8. /\ kept \in Endpoints \cup {Unset}
      /\ mode = "chrome-cdp" => kept # Unset
  BY <1>5, NothingIsNoEndpoint
<1> HIDE DEF mode, antiBot, kept
<1> QED BY <1>3, <1>6, <1>7, <1>8 DEF Consistent, Configurations

(* A consistent configuration is what a plain command then gets.            *)
LEMMA ConsistentIsUsed ==
  ASSUME NEW f, Consistent(f)
  PROVE  LET plain == ParseArgs(NoOptions, NoVariables, ReadConfig(f))
             settings == SettingsForMode(f.mode)
         IN  /\ plain # Refused
             /\ plain.browser = settings.browser
             /\ plain.headless = settings.headless
             /\ plain.connection = settings.connection
<1> DEFINE o == NoOptions
           e == NoVariables
           config == ReadConfig(f)
           settings == SettingsForMode(f.mode)
<1>1. /\ f \in Configurations /\ f # Unset /\ f.antiBot # Unset /\ f.mode \in Modes
      /\ f.antiBot \in {"on", "off"} /\ f.endpoint \in Endpoints \cup {Unset}
  BY NothingIsNoRecord, NothingIsNoName DEF Consistent, Configurations
<1>2. /\ config = [mode |-> f.mode, antiBot |-> f.antiBot,
                   endpoint |-> IF f.mode = "chrome-cdp" THEN f.endpoint ELSE Unset]
      /\ config # Unset /\ config \in Configurations
  <2>1. config = [mode |-> f.mode, antiBot |-> f.antiBot,
                  endpoint |-> IF f.mode = "chrome-cdp" THEN f.endpoint ELSE Unset]
    BY <1>1 DEF Consistent, ReadConfig, Or, CamoufoxModes
  <2>2. config \in Configurations
    BY <1>1, <2>1 DEF Configurations
  <2> QED BY <2>1, <2>2, NothingIsNoRecord
<1> HIDE DEF config
<1>3. ~CliLaunchOverride(o) /\ ~EnvironmentLaunchOverride(e) /\ CdpOverride(o, e) = Unset
  BY NothingIsNoName DEF CliLaunchOverride, EnvironmentLaunchOverride, CdpOverride, Or, NoOptions, NoVariables
<1>4. CdpEndpoint(o, e, config) = IF f.mode = "chrome-cdp" THEN f.endpoint ELSE Unset
  BY <1>2, <1>3 DEF CdpEndpoint, Or
<1>5. RequestedAntiBot(o, e) = Unset /\ AntiBot(o, e, config) = f.antiBot
  BY <1>2 DEF RequestedAntiBot, AntiBot, Or, NoOptions, NoVariables
<1>6. SelectedBrowser(o, e, config) = settings.browser
  <2>1. settings.browser # Unset
    BY NothingIsNoName DEF SettingsForMode, Browsers
  <2>2. o.browser = Unset /\ o.endpoint = Unset /\ e.browser = Unset
    BY DEF NoOptions, NoVariables
  <2>3. SettingsForMode(config.mode) = settings
    BY <1>2
  <2> HIDE DEF o, e, settings
  <2> QED BY <1>2, <1>3, <2>1, <2>2, <2>3 DEF SelectedBrowser, Or
<1>7. ApplyAntiBot(o, e, config) = settings.browser /\ settings.browser \in Browsers
  <2>1. settings.browser = IF f.antiBot = "on" THEN "camoufox" ELSE "chromium"
    BY DEF SettingsForMode, Consistent
  <2>2. f.antiBot = "on" => CdpEndpoint(o, e, config) = Unset
    BY <1>4 DEF Consistent, CamoufoxModes
  <2>3. o.browser = Unset
    BY DEF NoOptions
  <2> HIDE DEF o, e, settings
  <2> QED BY <1>1, <1>5, <1>6, <2>1, <2>2, <2>3, NothingIsNoName DEF ApplyAntiBot, Browsers
<1>8. Connection(o, e, config) = settings.connection
  BY <1>2, <1>3, <1>4 DEF Connection, SettingsForMode, Consistent
<1>9. Headless(o, e, config) = settings.headless
  <2>1. o.headless = Unset /\ e.headless = Unset
    BY DEF NoOptions, NoVariables
  <2>2. SettingsForMode(config.mode) = settings
    BY <1>2
  <2> HIDE DEF o, e, settings
  <2> QED BY <1>2, <2>1, <2>2 DEF Headless, Or
<1>10. CdpEndpoint(o, e, config) # Unset => settings.browser = "chromium"
  BY <1>4 DEF SettingsForMode, CamoufoxModes
<1>11. settings.browser # Refused
  BY <1>7, NothingIsNoName
<1>12. /\ CdpEndpoint(o, e, config) \in Endpoints \cup {Unset}
       /\ Headless(o, e, config) \in BOOLEAN /\ Connection(o, e, config) \in {"cdp", "launch", Unset}
  <2>1. o \in CommandLines /\ e \in Shells
    BY DEF NoOptions, NoVariables, CommandLines, Shells
  <2>2. config \in Anything
    BY <1>2 DEF Anything
  <2> QED BY <2>1, <2>2, PartsTyped
<1>13. o.profile = Unset
  BY DEF NoOptions
<1> DEFINE plain == ParseArgs(o, e, config)
           endpoint == CdpEndpoint(o, e, config)
           attach == o.attach = TRUE
           browser == settings.browser
           headless == settings.headless
           connection == settings.connection
<1>14. plain = [browser |-> browser, endpoint |-> endpoint, attach |-> attach,
                connection |-> connection, profile |-> Unset, headless |-> headless]
  <2> HIDE DEF o, e, settings
  <2> QED BY <1>7, <1>8, <1>9, <1>10, <1>11, <1>13 DEF ParseArgs
<1>15. /\ attach \in BOOLEAN /\ headless \in BOOLEAN /\ endpoint \in Endpoints \cup {Unset}
       /\ browser \in Browsers /\ connection \in {"cdp", "launch", Unset}
  <2> HIDE DEF o, e, settings
  <2> QED BY <1>7, <1>8, <1>9, <1>12, Zenon
<1>16. plain # Refused /\ plain.browser = browser /\ plain.headless = headless
       /\ plain.connection = connection
  <2> HIDE DEF plain, browser, endpoint, attach, connection, headless
  <2>1. plain \in Wishes
    BY <1>14, <1>15 DEF Wishes
  <2>2. plain # Refused
    BY <2>1, NothingIsNoRecord
  <2> QED BY <1>14, <2>2
<1> QED BY <1>16, Zenon DEF config

-----------------------------------------------------------------------------
(* The invariant.                                                           *)
LEMMA RequestsTyped ==
  ASSUME NEW f \in Files \cup {Unset}, NEW request \in Requests[ReadConfig(f)]
  PROVE  request.asked \in Wanted \cup {Refused} /\ request.env \in Shells
<1> DEFINE config == ReadConfig(f)
<1>1. config \in Configs /\ config \in Anything
  BY ReadTyped DEF Configs, ReadConfig
<1> HIDE DEF config
<1>2. request \in {[asked |-> ParseArgs(o, e, config), env |-> e] : o \in Options, e \in Environments}
  BY <1>1 DEF Requests, config
<1>3. PICK o \in Options, e \in Environments :
        request = [asked |-> ParseArgs(o, e, config), env |-> e]
  BY <1>2
<1>4. o \in CommandLines /\ e \in Shells
  BY DEF Options, Environments
<1> QED BY <1>1, <1>3, <1>4, ParseTyped

LEMMA SavesConsistent ==
  ASSUME NEW f \in Files \cup {Unset}, NEW written \in Saves[ReadConfig(f)]
  PROVE  Consistent(written)
<1> DEFINE config == ReadConfig(f)
<1>1. config \in Configs /\ config \in Anything
  BY ReadTyped DEF Configs, ReadConfig
<1> HIDE DEF config
<1>2. written \in (UNION {{NewConfig(o, e, config, m, Unset), NewConfig(o, e, config, Unset, m)} :
                            o \in ConfigOptions, e \in Environments, m \in Modes}) \ {Refused}
  BY <1>1 DEF Saves, config
<1>3. PICK o \in ConfigOptions, e \in Environments, m \in Modes :
        written \in {NewConfig(o, e, config, m, Unset), NewConfig(o, e, config, Unset, m)} \ {Refused}
  <2> DEFINE All == {{NewConfig(o, e, config, m, Unset), NewConfig(o, e, config, Unset, m)} :
                       o \in ConfigOptions, e \in Environments, m \in Modes}
  <2>1. written \in UNION All /\ written # Refused
    BY <1>2
  <2> HIDE DEF All
  <2>2. PICK w \in All : written \in w
    BY <2>1, Zenon
  <2>3. PICK o \in ConfigOptions, e \in Environments, m \in Modes :
          w = {NewConfig(o, e, config, m, Unset), NewConfig(o, e, config, Unset, m)}
    BY <2>2 DEF All
  <2> QED BY <2>1, <2>2, <2>3
<1>4. o \in CommandLines /\ e \in Shells /\ m # Unset
  BY NothingIsNoName DEF ConfigOptions, Options, Environments
<1> QED BY <1>1, <1>3, <1>4, WrittenIsConsistent

(* Whoever ensureDaemon starts a daemon for has consented to what it        *)
(* attaches to.                                                             *)
LEMMA EnsureGrants ==
  ASSUME IInv, NEW c \in Clients, NEW asked \in Wanted \cup {Refused}, NEW e \in Shells,
         EnsureDaemon(c, asked, e)
  PROVE  /\ using' \in [Clients -> Wishes \cup {Unset}]
         /\ start' \in [by : Clients, asked : Wishes, env : Shells] \cup {Unset}
         /\ start' # Unset => start'.asked \in Granted
         /\ daemon' = daemon
<1>1. /\ using \in [Clients -> Wishes \cup {Unset}]
      /\ start \in [by : Clients, asked : Wishes, env : Shells] \cup {Unset}
      /\ start # Unset => start.asked \in Granted
  BY DEF IInv, SettingsTypeOK
<1>2. daemon' = daemon
  BY DEF EnsureDaemon
<1>3. CASE Dispatches(asked)
  <2>1. asked \in Wanted /\ asked \in Wishes
    BY <1>3 DEF Dispatches, Acceptable, Wanted
  <2>2. daemon = Unset => asked \in Granted
    BY <1>3, <2>1 DEF Dispatches, Granted
  <2>3. /\ using' = [using EXCEPT ![c] = asked]
        /\ start' = IF daemon = Unset /\ start = Unset
                    THEN [by |-> c, asked |-> asked, env |-> e] ELSE start
    BY <1>3 DEF EnsureDaemon
  <2> QED BY <1>1, <1>2, <2>1, <2>2, <2>3
<1>4. CASE ~Dispatches(asked)
  BY <1>1, <1>2, <1>4 DEF EnsureDaemon
<1> QED BY <1>3, <1>4

LEMMA InitIInv == Init => IInv
<1> SUFFICES ASSUME Init PROVE IInv
  OBVIOUS
<1>1. 0 \in 0..MaxCommands
  BY BoundsAreNatural
<1>2. SettingsTypeOK
  BY <1>1 DEF Init, SettingsTypeOK
<1> QED BY <1>2 DEF Init, IInv

LEMMA CountTyped ==
  ASSUME IInv, Count
  PROVE  commands' \in 0..MaxCommands
BY BoundsAreNatural DEF IInv, SettingsTypeOK, Count

LEMMA ConsistentTyped ==
  ASSUME NEW f, Consistent(f)
  PROVE  f \in Files
BY DEF Consistent, Configurations, Files

LEMMA StepIInv == IInv /\ [Next]_vars => IInv'
<1> SUFFICES ASSUME IInv, [Next]_vars PROVE IInv'
  OBVIOUS
<1>1. /\ file \in Files \cup {Unset} /\ saved \in BOOLEAN
      /\ start \in [by : Clients, asked : Wishes, env : Shells] \cup {Unset}
      /\ daemon \in Served \cup {Unset} /\ using \in [Clients -> Wishes \cup {Unset}]
      /\ commands \in 0..MaxCommands
      /\ start # Unset => start.asked \in Granted
      /\ daemon # Unset => Faithful(daemon) /\ daemon.asked \in Granted
      /\ saved => Consistent(file)
  BY DEF IInv, SettingsTypeOK
<1>2. ASSUME NEW c \in Clients, NEW request \in Requests[ReadConfig(file)], Command(c, request)
      PROVE  IInv'
  <2>1. request.asked \in Wanted \cup {Refused} /\ request.env \in Shells
    BY <1>1, RequestsTyped
  <2>2. /\ EnsureDaemon(c, request.asked, request.env) /\ Count
        /\ file' = file /\ saved' = saved
    BY <1>2 DEF Command
  <2>3. commands' \in 0..MaxCommands
    BY <2>2, CountTyped
  <2>4. /\ using' \in [Clients -> Wishes \cup {Unset}]
        /\ start' \in [by : Clients, asked : Wishes, env : Shells] \cup {Unset}
        /\ start' # Unset => start'.asked \in Granted
        /\ daemon' = daemon
    BY <2>1, <2>2, EnsureGrants
  <2> QED BY <1>1, <2>2, <2>3, <2>4 DEF IInv, SettingsTypeOK, Faithful, Consistent
<1>3. ASSUME NEW c \in Clients, NEW o \in PlainOptions, NEW e \in Environments,
             NEW answer \in Modes, FirstConfig(c, o, e, answer)
      PROVE  IInv'
  <2> DEFINE config == ReadConfig(file)
             written == NewConfig(o, e, config, Unset, answer)
             left == [e EXCEPT !.daemonEndpoint = Unset]
             asked == ParseArgs(o, left, ReadConfig(written))
  <2>1. /\ written # Refused /\ Count /\ file' = written /\ saved' = TRUE
        /\ EnsureDaemon(c, asked, left)
    BY <1>3 DEF FirstConfig
  <2>2. o \in CommandLines /\ e \in Shells /\ left \in Shells
    BY DEF PlainOptions, Options, Environments, Shells
  <2>3. config \in Anything /\ answer # Unset
    BY <1>1, ReadTyped, NothingIsNoName
  <2>4. Consistent(written)
    <3> HIDE DEF config
    <3> QED BY <2>1, <2>2, <2>3, WrittenIsConsistent
  <2> HIDE DEF written
  <2>5. written \in Files
    BY <2>4, ConsistentTyped
  <2>6. asked \in Wanted \cup {Refused}
    BY <2>2, <2>5, ReadTyped, ParseTyped
  <2> HIDE DEF asked, left
  <2>7. commands' \in 0..MaxCommands
    BY <2>1, CountTyped
  <2>8. /\ using' \in [Clients -> Wishes \cup {Unset}]
        /\ start' \in [by : Clients, asked : Wishes, env : Shells] \cup {Unset}
        /\ start' # Unset => start'.asked \in Granted
        /\ daemon' = daemon
    BY <2>1, <2>2, <2>6, EnsureGrants
  <2> QED BY <1>1, <2>1, <2>4, <2>5, <2>7, <2>8 DEF IInv, SettingsTypeOK, Faithful, Consistent
<1>4. ASSUME NEW c \in Clients, Finish(c)
      PROVE  IInv'
  BY <1>1, <1>4 DEF Finish, IInv, SettingsTypeOK, Faithful, Consistent
<1>5. ASSUME NEW written \in Saves[ReadConfig(file)], Configure(written)
      PROVE  IInv'
  <2>1. Consistent(written) /\ written \in Files
    BY <1>1, SavesConsistent, ConsistentTyped
  <2>2. commands' \in 0..MaxCommands
    BY <1>5, CountTyped DEF Configure
  <2> QED BY <1>1, <1>5, <2>1, <2>2 DEF Configure, IInv, SettingsTypeOK, Faithful, Consistent
<1>6. CASE DaemonStarts
  <2> DEFINE config == ReadConfig(file)
             d == RunDaemon(start.asked, start.env, config)
  <2>1. /\ start # Unset /\ start' = Unset
        /\ file' = file /\ saved' = saved /\ commands' = commands
        /\ \/ d # Refused /\ daemon' = d /\ using' = using
           \/ /\ d = Refused /\ daemon' = daemon
              /\ using' = [using EXCEPT ![start.by] = Unset]
    BY <1>6 DEF DaemonStarts
  <2>2. start.asked \in Granted /\ start.asked \in Wanted /\ start.env \in Shells
    BY <1>1, <2>1 DEF Granted
  <2>3. config \in Anything
    BY <1>1, ReadTyped
  <2> HIDE DEF config
  <2>4. d # Refused => Faithful(d) /\ d.asked = start.asked
    BY <2>2, <2>3, DaemonAgrees
  <2> HIDE DEF d
  <2>5. using' \in [Clients -> Wishes \cup {Unset}]
    BY <1>1, <2>1
  <2>6. /\ daemon' \in Served \cup {Unset}
        /\ daemon' # Unset => Faithful(daemon') /\ daemon'.asked \in Granted
    BY <1>1, <2>1, <2>2, <2>4 DEF Faithful
  <2> QED BY <1>1, <2>1, <2>5, <2>6 DEF IInv, SettingsTypeOK, Faithful, Consistent
<1>7. CASE CloseSession
  BY <1>1, <1>7 DEF CloseSession, IInv, SettingsTypeOK, Faithful, Consistent
<1>8. CASE UNCHANGED vars
  BY <1>1, <1>8 DEF vars, IInv, SettingsTypeOK, Faithful, Consistent
<1> QED BY <1>2, <1>3, <1>4, <1>5, <1>6, <1>7, <1>8 DEF Next

LEMMA Invariance == Spec => []IInv
BY InitIInv, StepIInv, PTL DEF Spec

-----------------------------------------------------------------------------
(* Theorems.                                                                *)

(* The configuration file, the startup, the daemon and what each terminal   *)
(* uses keep the forms that cli.ts gives them (parseArgs, ensureDaemon).    *)
THEOREM TypeCorrect == Spec => []SettingsTypeOK
<1>1. IInv => SettingsTypeOK
  BY DEF IInv
<1> QED BY <1>1, Invariance, PTL

(* A daemon is what its command settled on, although it parses again, in a  *)
(* changed environment and with a configuration that may have been replaced *)
(* (ensureDaemon, and parseArgs in the daemon).                             *)
THEOREM DaemonsAreAsAsked == Spec => []DaemonIsAsAsked
<1>1. IInv => DaemonIsAsAsked
  BY DEF IInv, Faithful, DaemonIsAsAsked
<1> QED BY <1>1, Invariance, PTL

(* Only --attach-existing lets a daemon attach to a running browser         *)
(* (ensureDaemon), whichever of an option, a variable and the file names    *)
(* the endpoint.                                                            *)
THEOREM AttachmentsAreGranted == Spec => []AttachmentIsGranted
<1>1. IInv => AttachmentIsGranted
  BY DEF IInv, Faithful, Granted, AttachmentIsGranted
<1> QED BY <1>1, Invariance, PTL

(* What `config' saved is what a plain command gets (runConfigCommand,      *)
(* readBrowserConfig and parseArgs agree).                                  *)
THEOREM SavedModesAreUsed == Spec => []SavedModeIsUsed
<1>1. IInv => SavedModeIsUsed
  BY ConsistentIsUsed DEF IInv, SavedModeIsUsed
<1> QED BY <1>1, Invariance, PTL

(* As long as nothing is configured, a plain command reaches the Chromium   *)
(* session an earlier one opened (ensureDaemon's comparison with parseArgs' *)
(* defaults).                                                               *)
THEOREM LaterCommandsDoReuse == Spec => []LaterCommandsReuse
<1> DEFINE o == NoOptions
           e == NoVariables
           plain == ParseArgs(o, e, Unset)
<1>1. /\ plain.browser = "chromium" /\ plain.connection = Unset
      /\ plain.endpoint = Unset /\ plain.profile = Unset
  <2>1. /\ o.browser = Unset /\ o.endpoint = Unset /\ o.profile = Unset
        /\ e.browser = Unset /\ e.daemonEndpoint = Unset /\ e.endpoint = Unset
    BY DEF NoOptions, NoVariables
  <2>2. ~CliLaunchOverride(o) /\ ~EnvironmentLaunchOverride(e)
    BY NothingIsNoName DEF CliLaunchOverride, EnvironmentLaunchOverride, NoOptions, NoVariables
  <2>3. RequestedAntiBot(o, e) = Unset /\ AntiBot(o, e, Unset) = "off"
    BY DEF AntiBot, RequestedAntiBot, NoOptions, NoVariables, Or
  <2> HIDE DEF o, e
  <2>4. CdpOverride(o, e) = Unset /\ CdpEndpoint(o, e, Unset) = Unset
    BY <2>1, <2>2 DEF CdpOverride, CdpEndpoint, Or
  <2>5. ApplyAntiBot(o, e, Unset) = "chromium"
    BY <2>1, <2>3, <2>4, NothingIsNoName DEF ApplyAntiBot, SelectedBrowser, Or, Browsers
  <2>6. Connection(o, e, Unset) = Unset
    BY <2>2, <2>4 DEF Connection
  <2> DEFINE attach == o.attach = TRUE
             headless == Headless(o, e, Unset)
  <2>7. plain = [browser |-> "chromium", endpoint |-> Unset, attach |-> attach,
                 connection |-> Unset, profile |-> Unset, headless |-> headless]
    BY <2>1, <2>4, <2>5, <2>6, NothingIsNoName DEF ParseArgs, Browsers
  <2> HIDE DEF plain, attach, headless
  <2> QED BY <2>7
<1> HIDE DEF plain
<1>2. IInv => LaterCommandsReuse
  BY <1>1 DEF LaterCommandsReuse, Matches, plain
<1> QED BY <1>2, Invariance, PTL

(* A start that a command accepted fails in the daemon only because the     *)
(* command came to Chromium where the daemon finds anti-bot mode on         *)
(* (ensureDaemon, and applyAntiBot in the daemon).                          *)
THEOREM FailedStartsAreAntiBot == Spec => StartsFailOnlyOnAntiBot
<1>1. IInv /\ [Next]_vars =>
        [start # Unset /\ start' = Unset /\ daemon' = Unset
           => /\ start.asked.browser = "chromium"
              /\ AntiBot(NoOptions, start.env, ReadConfig(file)) = "on"]_vars
  <2> SUFFICES ASSUME IInv, Next, start # Unset, start' = Unset, daemon' = Unset
               PROVE  /\ start.asked.browser = "chromium"
                      /\ AntiBot(NoOptions, start.env, ReadConfig(file)) = "on"
    OBVIOUS
  <2>1. DaemonStarts
    <3>1. ASSUME NEW c, NEW asked, NEW e, EnsureDaemon(c, asked, e)
          PROVE  start' = start
      BY <3>1 DEF EnsureDaemon
    <3>2. ASSUME NEW c, NEW request, Command(c, request)
          PROVE  start' = start
      BY <3>1, <3>2 DEF Command
    <3>3. ASSUME NEW c, NEW o, NEW e, NEW answer, FirstConfig(c, o, e, answer)
          PROVE  start' = start
      BY <3>1, <3>3 DEF FirstConfig
    <3>4. ASSUME NEW c, Finish(c) \/ CloseSession
          PROVE  start' = start
      BY <3>4 DEF Finish, CloseSession
    <3>5. ASSUME NEW written, Configure(written)
          PROVE  start' = start
      BY <3>5 DEF Configure
    <3> QED BY <3>2, <3>3, <3>4, <3>5 DEF Next
  <2> DEFINE config == ReadConfig(file)
             d == RunDaemon(start.asked, start.env, config)
  <2>2. /\ file \in Files \cup {Unset} /\ start.asked \in Wanted /\ start.env \in Shells
        /\ daemon # Unset => daemon \in Served
    BY DEF IInv, SettingsTypeOK, Granted
  <2>3. config \in Anything
    BY <2>2, ReadTyped
  <2>4. d = Refused \/ d = Unset
    BY <2>1 DEF DaemonStarts
  <2> HIDE DEF config, d
  <2>5. IF start.asked.browser = "chromium" /\ AntiBot(NoOptions, start.env, config) = "on"
        THEN TRUE ELSE d # Refused /\ d # Unset
    BY <2>2, <2>3, DaemonAgrees DEF d
  <2> QED BY <2>4, <2>5 DEF config
<1> QED BY <1>1, Invariance, PTL DEF Spec, StartsFailOnlyOnAntiBot
=============================================================================
