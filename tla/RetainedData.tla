------------------------------ MODULE RetainedData -----------------------------
(***************************************************************************)
(* What a session leaves in the runtime directory, and who removes it:     *)
(* the names of its files (src/session/scope.ts, src/cli/ipc.ts), the list *)
(* `data list' makes of a directory (src/cli/data-store.ts), the retention *)
(* the privacy summary states (src/cli/privacy.ts), and what a start, a    *)
(* close and a destroy remove (src/cli.ts, src/cli/runtime.ts).            *)
(*                                                                         *)
(* A name in the directory is the session it begins with and the kind its  *)
(* suffix stands for; no suffix is the end of another one.                 *)
(***************************************************************************)
EXTENDS Naturals, FiniteSets, SequencesExt

CONSTANTS SessionNames,    \* names a session may have
          OtherStems,      \* other beginnings of file names
          MaxClassified,   \* entries of the directory that are looked at
          MaxListed,       \* entries that are listed
          MaxReportedBytes

RetainedKinds == {"profile", "downloads", "artifacts", "endpoint", "startup-lock", "daemon-log"}
Names == [stem : SessionNames \cup OtherStems, kind : RetainedKinds \cup {"none"}]

PathsForSession(session) == [stem : {session}, kind : RetainedKinds]

-----------------------------------------------------------------------------
(* recognizeRetainedEntry                                                   *)
Recognized(name) == name.kind \in RetainedKinds /\ name.stem \in SessionNames

(* retainedEntryMetadata: only files have a size, and a large one is        *)
(* reported as the limit; `bytes' of anything else is 0 here.               *)
Metadata(node) ==
  [nodeType |-> node.type,
   fileBytes |-> IF node.type # "file" THEN 0
                 ELSE IF node.bytes > MaxReportedBytes THEN MaxReportedBytes ELSE node.bytes,
   clipped |-> node.type = "file" /\ node.bytes > MaxReportedBytes]

(* listRetainedSessionData: the entries are taken as they come, the one     *)
(* that is the configuration file is passed over, and what comes after as   *)
(* many as may be listed is not listed.                                     *)
List(directory, config) ==
  LET classified == 1..Min({Len(directory), MaxClassified})
      owned == {i \in classified : Recognized(directory[i]) /\ directory[i] # config}
      listed == {i \in owned : Cardinality({j \in owned : j < i}) < MaxListed}
  IN  [inspected |-> Min({Len(directory), MaxClassified + 1}),
       entries |-> Cardinality(listed),
       listed |-> {directory[i] : i \in listed},
       truncated |-> Len(directory) > MaxClassified \/ listed # owned]

(* inventory: one record per session, with its entries.                     *)
Inventory(directory, config) ==
  LET listed == List(directory, config).listed
  IN  [session \in {name.stem : name \in listed} |-> {n.kind : n \in {m \in listed : m.stem = session}}]

-----------------------------------------------------------------------------
(* getBrowserSessionScope: an attached browser keeps its own storage.       *)
SessionScope(profileMode, attached) ==
  [mode |-> IF attached THEN "existing-profile" ELSE profileMode,
   managed |-> IF attached THEN {} ELSE {"profile", "downloads"},
   destroyable |-> ~attached]

(* createCliSessionPrivacySummary: until when each kind is kept.            *)
Retention(profileMode, attached) ==
  LET scope == SessionScope(profileMode, attached)
      local == IF scope.mode = "disposable" THEN "until-close" ELSE "until-destroy"
  IN  [kind \in {"profile", "downloads", "artifacts", "daemon-log"} |->
         IF kind \in {"profile", "downloads"} /\ attached THEN "not-managed" ELSE local]

(* The daemon's close, the removal of its endpoint, and the removal of the  *)
(* log by the daemon or the command that closed it.                         *)
RemovedByClose(profileMode, attached) ==
  {"endpoint"}
    \cup (IF SessionScope(profileMode, attached).mode = "disposable"
          THEN {"profile", "downloads", "artifacts"} ELSE {})
    \cup (IF profileMode = "disposable" THEN {"daemon-log"} ELSE {})

(* destroySessionState, which made the startup file itself.                 *)
RemovedByDestroy == RetainedKinds

(* ensureDaemon, before it spawns the daemon of a disposable session.       *)
RemovedByStart(profileMode) ==
  IF profileMode = "disposable" THEN {"profile", "downloads"} ELSE {}

-----------------------------------------------------------------------------
(* A list that does not call itself truncated has every file that sessions  *)
(* own, in the place of its session; a truncated one has reached a limit.   *)
ListIsHonest(directory, config) ==
  LET owned == {name \in ToSet(directory) : Recognized(name)} \ {config}
      list == List(directory, config)
  IN  IF list.truncated
      THEN Len(directory) > MaxClassified \/ list.entries = MaxListed
      ELSE /\ list.listed = owned
           /\ Inventory(directory, config) =
                [session \in {n.stem : n \in owned} |->
                   {k \in RetainedKinds : [stem |-> session, kind |-> k] \in owned}]

(* `data delete' of a listed session removes what the list shows of it and  *)
(* nothing of another session, in whatever order the directory is read      *)
(* afterwards.                                                              *)
Distinct(directory) == \A i, j \in DOMAIN directory : directory[i] = directory[j] => i = j

DeleteMatchesList(directory, after, config, session) ==
  /\ Distinct(directory) /\ Distinct(after)
  /\ ToSet(after) = ToSet(directory) \ PathsForSession(session)
  /\ config \notin PathsForSession(session)
  /\ ~List(directory, config).truncated
  => /\ ~List(after, config).truncated
     /\ Inventory(after, config) =
          [s \in DOMAIN Inventory(directory, config) \ {session} |-> Inventory(directory, config)[s]]

(* What the privacy summary says is kept until the close or the destruction *)
(* of the session is removed then, and by nothing earlier.                  *)
RetentionIsKept(profileMode, attached) ==
  \A kind \in DOMAIN Retention(profileMode, attached) :
    LET until == Retention(profileMode, attached)[kind]
    IN  /\ (kind \in RemovedByClose(profileMode, attached)) = (until = "until-close")
        /\ until = "until-destroy" => kind \in RemovedByDestroy
        /\ until = "until-destroy" => kind \notin RemovedByStart(profileMode)
=============================================================================
