---------------------------- MODULE SessionEvidence ----------------------------
(***************************************************************************)
(* The evidence of one named session across the daemons that serve it one  *)
(* after the other: createHarnessCliRuntime and createRuntimeFromBrowser   *)
(* of src/cli/runtime.ts with the stores src/cli/trace-store.ts and        *)
(* src/cli/metrics-store.ts.                                               *)
(*                                                                         *)
(* Every call, the start and the close save the whole evidence: what is to *)
(* be written is taken from the recorders at once and queued behind the    *)
(* writes that are under way, one queue per store, and the call is         *)
(* answered when its own writes are done.  A write fills temporary files   *)
(* and renames them, the two files of the trace one at a time.             *)
(***************************************************************************)
EXTENDS TraceRecorder

CONSTANTS Calls,        \* the calls that may be under way at once
          Takeovers,    \* those that may ask for the browser instead
          Sizes,        \* call -> the sizes of the events it may leave
          Disposable,   \* profileMode = "disposable"
          None,         \* no file
          MaxRecords,   \* bound: events, starts aside, after which no call begins
          MaxBatch,     \* bound: records one call makes
          MaxStarts,    \* bound: daemons started
          MaxCrashes,   \* bound: daemons killed
          MaxFaults     \* bound: writes refused by the disk

ASSUME SizesOfCalls == Sizes \in [Calls -> SUBSET EventSizes]
ASSUME TakeoversAreCalls == Takeovers \subseteq Calls
ASSUME DisposableIsBoolean == Disposable \in BOOLEAN
ASSUME EvidenceBounds == {MaxRecords, MaxBatch, MaxStarts, MaxCrashes, MaxFaults} \subseteq Nat
ASSUME SaversAreTold == {"start", "close"} \cap Calls = {}
ASSUME NoneIsNoFile == None \notin Nat /\ None \notin Export

Stores == {"trace", "metrics"}
Files(s) == IF s = "trace" THEN {"json", "timeline"} ELSE {"metrics"}
AllFiles == {"json", "timeline", "metrics"}
Savers == Calls \cup {"start", "close"}

VARIABLES daemon,     \* where the runtime of the daemon is
          call,       \* call -> what it does, and what it recorded last
          recorder,   \* the trace recorder
          commands,   \* the commands counted by the metrics recorder
          queue,      \* store -> the writes not yet done, the first under way
          left,       \* store -> files the write under way has yet to rename
          swept,      \* stores whose temporary files were removed under the write
          disk,       \* the files of the artifact directory
          failures,   \* store -> persistence failures counted
          occurred,   \* history: events recorded so far
          starts, crashes, faults,
          promised,   \* history: evidence of the last call answered as saved
          origin,     \* history: events omitted when the numbering began
          published   \* history: origin, number and occurrence of every event on disk

memory == <<daemon, call, recorder, commands, queue, left, swept, failures>>
bounds == <<starts, crashes, faults>>
vars == <<memory, disk, occurred, bounds, promised, origin, published>>

Evidence == [number : Nat, commands : Nat]
NoEvidence == [number |-> 0, commands |-> 0]
IdleCall == [pc |-> "idle", records |-> 0, made |-> NoEvidence, failed |-> {}]
NoFiles == [f \in AllFiles |-> None]

EvidenceTypeOK ==
  /\ daemon \in {"down", "starting", "open", "ending", "closed"}
  /\ call \in [Calls -> [pc : {"idle", "running", "handing", "saving"}, records : Nat,
                         made : Evidence, failed : SUBSET Stores]]
  /\ recorder \in Recorder
  /\ commands \in Nat
  /\ \A s \in Stores : \A i \in DOMAIN queue[s] :
       /\ queue[s][i].who \in Savers
       /\ queue[s][i].what \in IF s = "trace" THEN Export ELSE Nat
  /\ left \in [Stores -> SUBSET AllFiles] /\ \A s \in Stores : left[s] \subseteq Files(s)
  /\ swept \subseteq Stores
  /\ \A s \in Stores : \A f \in Files(s) :
       disk[f] \in {None} \cup (IF s = "trace" THEN Export ELSE Nat)
  /\ failures \in [Stores -> Nat]
  /\ promised \in Evidence
  /\ origin \in Nat

(* The memory of a process that has just begun, or has ended.               *)
Blank ==
  [call |-> [c \in Calls |-> IdleCall],
   queue |-> [s \in Stores |-> <<>>],
   left |-> [s \in Stores |-> {}],
   failures |-> [s \in Stores |-> 0]]

EvidenceInit ==
  /\ daemon = "down"
  /\ call = Blank.call /\ recorder = EmptyRecorder /\ commands = 0
  /\ queue = Blank.queue /\ left = Blank.left /\ swept = {} /\ failures = Blank.failures
  /\ disk = NoFiles
  /\ occurred = 0 /\ starts = 0 /\ crashes = 0 /\ faults = 0
  /\ promised = NoEvidence
  /\ origin = 0 /\ published = {}

-----------------------------------------------------------------------------
(* Faulty: the newest writes go first.                                      *)
SavedAhead(who, r, n) ==
  queue' = [s \in Stores |->
              LET w == [who |-> who, what |-> IF s = "trace" THEN Exported(r) ELSE n]
              IN  IF left[s] = {} THEN <<w>> \o queue[s]
                  ELSE <<Head(queue[s]), w>> \o Tail(queue[s])]

(* persistEvidence, up to its first await.                                  *)
Saved(who, r, n) ==
  queue' = [queue EXCEPT !["trace"] = Append(@, [who |-> who, what |-> Exported(r)]),
                         !["metrics"] = Append(@, [who |-> who, what |-> n])]

Waiting(who) == \E s \in Stores : \E i \in DOMAIN queue[s] : queue[s][i].who = who

(* A daemon starts: it resumes what is stored, unless the session is        *)
(* disposable, and saves the record of the start.  It does not start on a   *)
(* stored trace that it cannot read.                                        *)
Start ==
  /\ daemon = "down" /\ starts < MaxStarts
  /\ ~Disposable /\ disk["json"] # None => Readable(disk["json"])
  /\ LET fresh(f) == Disposable \/ disk[f] = None
         found == IF fresh("json") THEN EmptyRecorder ELSE Resumed(disk["json"])
         counted == IF fresh("metrics") THEN 0 ELSE disk["metrics"]
     IN  /\ recorder' = Recorded(found, occurred + 1, "small")
         /\ commands' = counted
         /\ Saved("start", recorder', counted)
         /\ origin' = IF found.events = <<>> THEN found.omitted ELSE origin
  /\ daemon' = "starting"
  /\ occurred' = occurred + 1
  /\ starts' = starts + 1
  /\ UNCHANGED <<call, left, swept, failures, disk, crashes, faults, promised, published>>

Serve ==
  /\ daemon = "starting" /\ ~Waiting("start")
  /\ daemon' = "open"
  /\ UNCHANGED <<call, recorder, commands, queue, left, swept, failures, disk,
                 occurred, bounds, promised, origin, published>>

(* The daemon answers until it exits: a call of after the close is refused  *)
(* by the control session, and that refusal is recorded and saved as well.  *)
Begin(c) ==
  /\ daemon \in {"open", "ending", "closed"}
  /\ call[c].pc = "idle"
  /\ occurred < MaxRecords + starts
  /\ call' = [call EXCEPT ![c] = [IdleCall EXCEPT !.pc = "running"]]
  /\ UNCHANGED <<daemon, recorder, commands, queue, left, swept, failures, disk,
                 occurred, bounds, promised, origin, published>>

(* The call, or a step of a batch, is recorded: HarnessSession.             *)
Record(c, size) ==
  /\ call[c].pc = "running"
  /\ call[c].records < MaxBatch
  /\ recorder' = Recorded(recorder, occurred + 1, size)
  /\ commands' = commands + 1
  /\ occurred' = occurred + 1
  /\ call' = [call EXCEPT ![c].made = [number |-> Total(recorder'), commands |-> commands'],
                           ![c].records = @ + 1]
  /\ UNCHANGED <<daemon, queue, left, swept, failures, disk, bounds, promised, origin, published>>

(* A call asks for the browser, takes it or gives it back: the transition   *)
(* is recorded at once, and a pause that was asked for later.  Transitions  *)
(* are no commands.  A call that is refused at once leaves nothing.         *)
RecordTransition(c) ==
  /\ daemon = "open" /\ c \in Takeovers
  /\ \/ call[c].pc = "idle" /\ occurred < MaxRecords + starts
     \/ call[c].pc = "handing" /\ call[c].records = 1
  /\ recorder' = Recorded(recorder, occurred + 1, "small")
  /\ occurred' = occurred + 1
  /\ call' = [call EXCEPT ![c].pc = "handing", ![c].records = @ + 1,
                           ![c].made = [number |-> Total(recorder'), commands |-> commands]]
  /\ UNCHANGED <<daemon, commands, queue, left, swept, failures, disk, bounds,
                 promised, origin, published>>

(* The session is closed while a call waits for the pause: an answer        *)
(* without a save.                                                          *)
Reject(c) ==
  /\ call[c].pc = "handing" /\ daemon # "open"
  /\ call' = [call EXCEPT ![c] = IdleCall]
  /\ UNCHANGED <<daemon, recorder, commands, queue, left, swept, failures, disk,
                 occurred, bounds, promised, origin, published>>

Save(c) ==
  /\ call[c].pc \in {"running", "handing"} /\ call[c].records > 0
  /\ Saved(c, recorder, commands)
  /\ call' = [call EXCEPT ![c].pc = "saving"]
  /\ UNCHANGED <<daemon, recorder, commands, left, swept, failures, disk,
                 occurred, bounds, promised, origin, published>>

(* The call is answered, whether or not its evidence could be saved.        *)
Answer(c) ==
  /\ call[c].pc = "saving" /\ ~Waiting(c)
  /\ call' = [call EXCEPT ![c] = IdleCall]
  /\ promised' = IF call[c].failed = {}
                 THEN [number |-> Max({promised.number, call[c].made.number}),
                       commands |-> Max({promised.commands, call[c].made.commands})]
                 ELSE promised
  /\ UNCHANGED <<daemon, recorder, commands, queue, left, swept, failures, disk,
                 occurred, bounds, origin, published>>

-----------------------------------------------------------------------------
(* Faulty: a write that failed breaks the chain of writes.                  *)
BeginUnlessFailed(s) ==
  /\ queue[s] # <<>> /\ left[s] = {} /\ failures[s] = 0
  /\ left' = [left EXCEPT ![s] = Files(s)]
  /\ UNCHANGED <<daemon, call, recorder, commands, queue, swept, failures, disk,
                 occurred, bounds, promised, origin, published>>

(* persistCliTrace and persistCliMetrics: the directory is made and the     *)
(* temporary files are written, ...                                         *)
BeginWrite(s) ==
  /\ queue[s] # <<>> /\ left[s] = {}
  /\ left' = [left EXCEPT ![s] = Files(s)]
  /\ UNCHANGED <<daemon, call, recorder, commands, queue, swept, failures, disk,
                 occurred, bounds, promised, origin, published>>

EndWrite(s) ==
  /\ left' = [left EXCEPT ![s] = {}]
  /\ queue' = [queue EXCEPT ![s] = Tail(@)]
  /\ swept' = swept \ {s}

Placed(events) ==
  {[origin |-> origin, number |-> ev.sequence, what |-> ev.what] : ev \in ToSet(events)}

(* ... then renamed in any order, ...                                       *)
Rename(s, f) ==
  /\ f \in left[s] /\ s \notin swept
  /\ disk' = [disk EXCEPT ![f] = Head(queue[s]).what]
  /\ published' = IF f # "json" THEN published
                  ELSE published \cup Placed(disk'["json"].events)
  /\ IF left[s] = {f} THEN EndWrite(s)
     ELSE left' = [left EXCEPT ![s] = @ \ {f}] /\ UNCHANGED <<queue, swept>>
  /\ UNCHANGED <<daemon, call, recorder, commands, failures, occurred, bounds, promised, origin>>

(* Faulty: the failure is not counted.                                      *)
FailSilently(s) ==
  /\ left[s] # {}
  /\ IF s \in swept THEN UNCHANGED faults ELSE faults < MaxFaults /\ faults' = faults + 1
  /\ EndWrite(s)
  /\ LET w == Head(queue[s]).who
     IN  call' = IF w \in Calls THEN [call EXCEPT ![w].failed = @ \cup {s}] ELSE call
  /\ UNCHANGED <<daemon, recorder, commands, failures, disk, occurred, starts, crashes,
                 promised, origin, published>>

(* ... or the write fails, before a rename, because the disk refuses it or  *)
(* because its files are gone.  The failure is counted; the next write goes *)
(* on.                                                                      *)
FailWrite(s) ==
  /\ left[s] # {}
  /\ IF s \in swept THEN UNCHANGED faults ELSE faults < MaxFaults /\ faults' = faults + 1
  /\ EndWrite(s)
  /\ failures' = [failures EXCEPT ![s] = @ + 1]
  /\ LET w == Head(queue[s]).who
     IN  call' = IF w \in Calls THEN [call EXCEPT ![w].failed = @ \cup {s}] ELSE call
  /\ UNCHANGED <<daemon, recorder, commands, disk, occurred, starts, crashes,
                 promised, origin, published>>

-----------------------------------------------------------------------------
(* close: the end is recorded and saved while calls may still be under way. *)
Close ==
  /\ daemon = "open"
  /\ daemon' = "ending"
  /\ recorder' = Recorded(recorder, occurred + 1, "small")
  /\ occurred' = occurred + 1
  /\ Saved("close", recorder', commands)
  /\ UNCHANGED <<call, commands, left, swept, failures, disk, bounds, promised, origin, published>>

(* Then the browser is closed, and a disposable session removes its files.  *)
RemoveFiles ==
  /\ daemon = "ending" /\ ~Waiting("close")
  /\ daemon' = "closed"
  /\ IF Disposable
     THEN /\ disk' = NoFiles
          /\ swept' = {s \in Stores : left[s] # {}}
     ELSE UNCHANGED <<disk, swept>>
  /\ UNCHANGED <<call, recorder, commands, queue, left, failures, occurred, bounds,
                 promised, origin, published>>

Forgotten ==
  /\ daemon' = "down"
  /\ call' = Blank.call /\ recorder' = EmptyRecorder /\ commands' = 0
  /\ queue' = Blank.queue /\ left' = Blank.left /\ swept' = {} /\ failures' = Blank.failures

(* The server closes when its connections have, and the process ends.       *)
Exit ==
  /\ daemon = "closed"
  /\ \A c \in Calls : call[c].pc = "idle"
  /\ Forgotten
  /\ UNCHANGED <<disk, occurred, bounds, promised, origin, published>>

Crash ==
  /\ daemon # "down" /\ crashes < MaxCrashes
  /\ Forgotten
  /\ crashes' = crashes + 1
  /\ UNCHANGED <<disk, occurred, starts, faults, promised, origin, published>>

WriteStep(s) == BeginWrite(s) \/ \E f \in Files(s) : Rename(s, f)
CallStep(c) ==
  \/ Reject(c) \/ Save(c) \/ Answer(c)
  \/ \E size \in Sizes[c] : Record(c, size)

EvidenceNext ==
  \/ Start \/ Serve \/ Close \/ RemoveFiles \/ Exit \/ Crash
  \/ \E c \in Calls : Begin(c) \/ RecordTransition(c) \/ CallStep(c)
  \/ \E s \in Stores : WriteStep(s) \/ FailWrite(s)

EvidenceSpec == EvidenceInit /\ [][EvidenceNext]_vars

(* What a daemon that was told to close has left to do: its calls end, the  *)
(* disk answers, and the event loop runs on while any of it is ready.  The  *)
(* order is left open: no call and no store is owed its turn.               *)
Finishing ==
  /\ daemon \in {"ending", "closed"}
  /\ \/ RemoveFiles \/ Exit
     \/ \E c \in Calls : CallStep(c)
     \/ \E s \in Stores : WriteStep(s) \/ FailWrite(s)
EvidenceFairness == WF_vars(Finishing)

FairEvidenceSpec == EvidenceSpec /\ EvidenceFairness

-----------------------------------------------------------------------------
(* A call that was answered, and whose evidence no store failed to save,    *)
(* is in every file, in the counts if not among the events, and stays there *)
(* through later writes, crashes and restarts.                              *)
AnsweredIsOnDisk ==
  ~Disposable /\ promised # NoEvidence =>
    /\ \A f \in Files("trace") : disk[f] # None /\ Total(disk[f]) >= promised.number
    /\ disk["metrics"] # None /\ disk["metrics"] >= promised.commands

(* A sequence number of the stored trace means one event for good, whatever *)
(* a crash took away before it was stored, as long as the numbering has not *)
(* begun again: it does when an export without events is resumed, because   *)
(* the last event of the process before was larger than an export.          *)
NumbersNameOneEvent ==
  \A x, y \in published : x.origin = y.origin /\ x.number = y.number => x = y

(* The omitted events are exactly those whose numbers are missing: the      *)
(* numbers that follow them, counted from where the numbering began, have   *)
(* no gap, and the next one goes on from there.                             *)
OmittedIsExact ==
  daemon # "down" =>
    /\ \A i \in DOMAIN recorder.events :
         origin + recorder.events[i].sequence = recorder.omitted + i
    /\ origin + recorder.next = Total(recorder) + 1

(* When no save is under way and none has failed since the daemon started,  *)
(* the files show all that the recorders know.                              *)
QuietDiskIsCurrent ==
  /\ daemon = "open"
  /\ \A s \in Stores : queue[s] = <<>> /\ failures[s] = 0
  /\ \A c \in Calls : call[c].pc \notin {"running", "handing"}
  => /\ disk["json"] = Exported(recorder) /\ disk["timeline"] = disk["json"]
     /\ disk["metrics"] = commands

(* The file of a store that a later process goes on from, how far a write,   *)
(* the file and the recorders have got.                                     *)
Main(s) == IF s = "trace" THEN "json" ELSE "metrics"
Mark(s, what) == IF s = "trace" THEN Total(what) ELSE what
Shown(s) == IF disk[Main(s)] = None THEN 0 ELSE Mark(s, disk[Main(s)])
Reached(s, r, n) == IF s = "trace" THEN Total(r) ELSE n
Now(s) == Reached(s, recorder, commands)
Part(s, evidence) == IF s = "trace" THEN evidence.number ELSE evidence.commands

(* The stores of a session that keeps its files are logs that only grow,    *)
(* across overlapping calls, refused writes, crashes and restarts.          *)
Log == INSTANCE EvidenceLog
  WITH Logs <- Stores,
       up <- daemon # "down",
       known <- [s \in Stores |-> Now(s)],
       stored <- [s \in Stores |-> Shown(s)],
       promised <- [s \in Stores |-> Part(s, promised)]
ImplementsLog == Log!Spec

(* The daemon exits once it was told to close, whatever the disk refuses.   *)
CloseCompletes == daemon = "ending" ~> daemon = "down"

(* A stored trace is refused only for what calls were given: its numbers,   *)
(* its length and its bytes are always such that the next daemon reads it,  *)
(* whatever was dropped, refused, lost or numbered anew.                    *)
OnlyInputsAreRefused ==
  disk["json"] # None /\ InputsAccepted(disk["json"].events) => Readable(disk["json"])

(* What MCEvidenceOversized.cfg refutes: a number of the stored trace means *)
(* one event, also after an event larger than an export.                    *)
NumbersNeverRepeat ==
  \A x, y \in published : x.number = y.number => x.what = y.what

(* docs/action-traces.md on reopening a session: what is stored can be      *)
(* read and continued.                                                      *)
StoredTraceResumes == disk["json"] # None => Readable(disk["json"])

(* README.md on disposable sessions: after an orderly end nothing is left.  *)
DisposableLeavesNothing ==
  Disposable /\ crashes = 0 /\ daemon = "down" => disk = NoFiles
=============================================================================
