---------------------------- MODULE EvidenceProofs ----------------------------
(***************************************************************************)
(* What SessionEvidence promises for any calls, recorder, files, daemons,  *)
(* crashes and refused writes.                                             *)
(*                                                                         *)
(* The first part is about the recorder: recording, exporting and resuming  *)
(* account for every event (Total) and number them without a gap from the   *)
(* origin of the numbering (Gapless, Numbered).  The second is the          *)
(* invariant.  A store is followed from the file that is renamed last       *)
(* through the writes under way to the recorder: what comes later shows no  *)
(* less (Ordered).  An answer is safe because its write is somewhere on     *)
(* that way, or failed, or is in every file (Answers); a place in the trace *)
(* is never given twice because whatever it was given to is on the way, too *)
(* (Known).  An event larger than an export breaks none of this: the        *)
(* numbering may begin again, the places behind the numbers go on.          *)
(***************************************************************************)
EXTENDS SessionEvidence, FiniteSetTheorems, WellFoundedInduction, TLAPS

Gapless(base, omitted, events) ==
  \A i \in DOMAIN events : base + events[i].sequence = omitted + i
Numbered(base, r) == Gapless(base, r.omitted, r.events) /\ base + r.next = Total(r) + 1

Keeps(r) == r \in Recorder /\ Len(r.events) <= MaxEvents

Whole(e) ==
  /\ e \in Export
  /\ Len(e.events) <= MaxEvents
  /\ Bytes(e.events) <= MaxExportBytes

-----------------------------------------------------------------------------
(* The invariant.                                                           *)
Contents(s) == IF s = "trace" THEN {e \in Export : Whole(e)} ELSE Nat
Write(s) == [who : Savers, what : Contents(s)]

CallRecord == [pc : {"idle", "running", "handing", "saving"}, records : Nat,
               made : Evidence, failed : SUBSET Stores]

Types ==
  /\ daemon \in {"down", "starting", "open", "ending", "closed"}
  /\ call \in [Calls -> CallRecord]
  /\ Keeps(recorder) /\ commands \in Nat /\ occurred \in Nat
  /\ queue = [s \in Stores |-> queue[s]] /\ \A s \in Stores : queue[s] \in Seq(Write(s))
  /\ left \in [Stores -> SUBSET AllFiles] /\ \A s \in Stores : left[s] \subseteq Files(s)
  /\ swept \subseteq Stores
  /\ disk = [f \in AllFiles |-> disk[f]]
  /\ \A s \in Stores : \A f \in Files(s) : disk[f] \in {None} \cup Contents(s)
  /\ failures \in [Stores -> Nat]
  /\ promised \in Evidence

(* A process that has ended knows nothing; one that has not begun to serve  *)
(* has no calls.                                                            *)
Phases ==
  /\ daemon = "down" =>
       call = Blank.call /\ recorder = EmptyRecorder /\ commands = 0
         /\ queue = Blank.queue /\ left = Blank.left
  /\ daemon = "starting" => \A c \in Calls : call[c] = IdleCall

(* What a save takes of the recorders, and would take now.                  *)
Taken(s, r, n) == IF s = "trace" THEN Exported(r) ELSE n
Value(s) == Taken(s, recorder, commands)

Ordered(s) ==
  /\ \A i \in DOMAIN queue[s] : Mark(s, queue[s][i].what) <= Now(s)
  /\ \A i, j \in DOMAIN queue[s] : i < j => Mark(s, queue[s][i].what) <= Mark(s, queue[s][j].what)
  /\ ~Disposable /\ daemon # "down" =>
       /\ Shown(s) <= Now(s)
       /\ \A i \in DOMAIN queue[s] : Shown(s) <= Mark(s, queue[s][i].what)

(* What the write under way has renamed shows what it writes.               *)
Writing(s) ==
  left[s] # {} =>
    /\ queue[s] # <<>>
    /\ ~Disposable \/ daemon \in {"starting", "open"} =>
         \A f \in Files(s) \ left[s] : disk[f] = queue[s][1].what

(* Unless a call has yet to save, the newest write is up to date.           *)
Current ==
  /\ daemon \in {"starting", "open"}
  /\ \A c \in Calls : call[c].pc \notin {"running", "handing"}

Latest(s) ==
  Current /\ failures[s] = 0 =>
     IF queue[s] = <<>> THEN \A f \in Files(s) : disk[f] = Value(s)
     ELSE queue[s][Len(queue[s])].what = Value(s)

Shows(s, evidence) ==
  \A f \in Files(s) : disk[f] # None /\ Mark(s, disk[f]) >= Part(s, evidence)

CallFits(s, c) ==
  /\ Part(s, call[c].made) <= Now(s)
  /\ call[c].pc = "saving" /\ ~Disposable =>
       \/ s \in call[c].failed
       \/ \E i \in DOMAIN queue[s] : queue[s][i].who = c
       \/ Shows(s, call[c].made)

Answers(s) ==
  /\ \A c \in Calls : CallFits(s, c)
  /\ \A i \in DOMAIN queue[s] : queue[s][i].who \in Calls =>
       /\ call[queue[s][i].who].pc = "saving"
       /\ Part(s, call[queue[s][i].who].made) <= Mark(s, queue[s][i].what)
  /\ ~Disposable /\ promised # NoEvidence => Shows(s, promised)

(* What is in memory, under way and on disk is numbered from one origin.    *)
Fits(e) == Gapless(origin, e.omitted, e.events)

Numbering ==
  /\ origin \in Nat /\ (Disposable => origin = 0)
  /\ daemon # "down" => Numbered(origin, recorder)
  /\ \A i \in DOMAIN queue["trace"] : Fits(queue["trace"][i].what)
  /\ disk["json"] # None => Fits(disk["json"])

(* What places have been given to: on disk for good, or still in memory.    *)
(* The place of an event is its number, counted from the first origin.      *)
Pairs(base, events) == {<<base + events[i].sequence, events[i].what>> : i \in DOMAIN events}
Shelved == {<<x.origin + x.number, x.what>> : x \in published}
Queued == UNION {Pairs(origin, queue["trace"][i].what.events) : i \in DOMAIN queue["trace"]}
Known == Shelved \cup Pairs(origin, recorder.events) \cup Queued

Agree(S) == \A x, y \in S : x[1] = y[1] => x = y

Places ==
  ~Disposable =>
    /\ Agree(Known)
    /\ published \subseteq [origin : Nat, number : Nat, what : Nat]
    /\ \A x \in Shelved : /\ disk["json"] # None
                         /\ x[1] \in Nat /\ x[1] <= Total(disk["json"])
    /\ disk["json"] # None => Pairs(origin, disk["json"].events) \subseteq Shelved

IInv ==
  /\ Types /\ Phases /\ Numbering /\ Places
  /\ \A s \in Stores : Ordered(s) /\ Writing(s) /\ Latest(s) /\ Answers(s)
-----------------------------------------------------------------------------
(* The recorder.                                                            *)

(* Any set of numbers up to a limit has a greatest element: the one nearest *)
(* to the limit, by the well-foundedness of the naturals.                   *)
LEMMA HasMax ==
  ASSUME NEW n \in Nat, NEW S \in SUBSET (0..n), S # {}
  PROVE  Max(S) \in S /\ \A y \in S : Max(S) >= y
<1> DEFINE R == {ss \in Nat \X Nat : ss[1] < ss[2]}
           T == {k \in Nat : n - k \in S}
<1>1. IsWellFoundedOn(R, Nat)
  BY NatLessThanWellFounded DEF OpToRel
<1>2. T \subseteq Nat /\ T # {}
  <2>1. PICK y \in S : TRUE
    OBVIOUS
  <2>2. n - y \in T
    BY <2>1
  <2> QED BY <2>2
<1>3. PICK k \in T : \A j \in T : ~(<<j, k>> \in R)
  <2> HIDE DEF R, T
  <2> QED BY <1>1, <1>2, WFMin
<1>4. \A y \in S : n - k >= y
  <2> SUFFICES ASSUME NEW y \in S PROVE n - k >= y
    OBVIOUS
  <2>1. n - y \in T /\ n - y \in Nat /\ k \in Nat
    OBVIOUS
  <2>2. ~(n - y < k)
    BY <1>3, <2>1
  <2> QED BY <2>1, <2>2
<1> QED BY <1>4 DEF Max

LEMMA MaxOfTwo ==
  ASSUME NEW a \in Nat, NEW b \in Nat
  PROVE  Max({a, b}) \in {a, b} /\ Max({a, b}) >= a /\ Max({a, b}) >= b
<1>1. CASE a >= b
  BY <1>1 DEF Max
<1>2. CASE b >= a
  BY <1>2 DEF Max
<1> QED BY <1>1, <1>2

LEMMA EventFacts ==
  ASSUME NEW events \in Seq(Event), NEW i \in DOMAIN events
  PROVE  events[i].sequence \in Nat /\ events[i].what \in Nat
<1>1. events[i] \in Event
  OBVIOUS
<1> QED BY <1>1 DEF Event

LEMMA NewestFacts ==
  ASSUME NEW events \in Seq(Event), NEW n \in 0..Len(events)
  PROVE  /\ Newest(events, n) \in Seq(Event)
         /\ Len(Newest(events, n)) = n
         /\ \A i \in 1..n : Newest(events, n)[i] = events[Len(events) - n + i]
BY DEF Newest

(* What is numbered without a gap stays so when the oldest are dropped and  *)
(* counted as omitted.                                                      *)
LEMMA NewestGapless ==
  ASSUME NEW omitted \in Nat, NEW events \in Seq(Event), NEW n \in 0..Len(events)
  PROVE  /\ omitted + Len(events) - n \in Nat
         /\ \A base \in Nat :
              /\ Pairs(base, Newest(events, n)) \subseteq Pairs(base, events)
              /\ Gapless(base, omitted, events) =>
                   Gapless(base, omitted + Len(events) - n, Newest(events, n))
<1>1. Len(events) \in Nat /\ DOMAIN events = 1..Len(events)
  OBVIOUS
<1>2. /\ Newest(events, n) \in Seq(Event) /\ Len(Newest(events, n)) = n
      /\ \A i \in 1..n : Newest(events, n)[i] = events[Len(events) - n + i]
  BY NewestFacts
<1>3. DOMAIN Newest(events, n) = 1..n
  BY <1>2
<1>4. ASSUME NEW i \in 1..n
      PROVE  /\ Len(events) - n + i \in 1..Len(events)
             /\ Newest(events, n)[i] = events[Len(events) - n + i]
             /\ omitted + (Len(events) - n + i) = omitted + Len(events) - n + i
  <2>1. Len(events) - n + i \in 1..Len(events) /\ n \in Nat /\ i \in Nat
    BY <1>1
  <2>2. omitted + (Len(events) - n + i) = omitted + Len(events) - n + i
    BY <1>1, <2>1
  <2> QED BY <1>2, <2>1, <2>2
<1>5. ASSUME NEW base \in Nat, Gapless(base, omitted, events)
      PROVE  Gapless(base, omitted + Len(events) - n, Newest(events, n))
  <2> SUFFICES ASSUME NEW i \in 1..n
               PROVE  base + Newest(events, n)[i].sequence = omitted + Len(events) - n + i
    BY <1>3 DEF Gapless
  <2>1. base + events[Len(events) - n + i].sequence = omitted + (Len(events) - n + i)
    BY <1>1, <1>4, <1>5 DEF Gapless
  <2> QED BY <1>4, <2>1
<1>6. ASSUME NEW base \in Nat PROVE Pairs(base, Newest(events, n)) \subseteq Pairs(base, events)
  <2> SUFFICES ASSUME NEW i \in 1..n
               PROVE  <<base + Newest(events, n)[i].sequence, Newest(events, n)[i].what>>
                        \in Pairs(base, events)
    BY <1>3 DEF Pairs
  <2> QED BY <1>1, <1>4 DEF Pairs
<1> QED BY <1>1, <1>5, <1>6

(* No place is beyond what is accounted for.                                *)
LEMMA PlacesOfGapless ==
  ASSUME NEW base \in Nat, NEW omitted \in Nat, NEW events \in Seq(Event),
         Gapless(base, omitted, events)
  PROVE  /\ Len(events) \in Nat
         /\ \A x \in Pairs(base, events) : x[1] \in Nat /\ x[1] <= omitted + Len(events)
BY DEF Gapless, Pairs

LEMMA NoBytes == Bytes(<<>>) = 0 /\ MaxExportBytes \in Nat
<1>1. \A sizes : Count(<<>>, sizes) = 0
  BY FS_EmptySet DEF Count
<1>2. /\ SmallBytes \in Nat /\ LargeBytes \in Nat /\ HugeBytes \in Nat
      /\ MaxExportBytes \in Nat
  BY RecorderBounds
<1> QED BY <1>1, <1>2 DEF Bytes

LEMMA EmptyKeeps ==
  Keeps(EmptyRecorder) /\ Numbered(0, EmptyRecorder) /\ Total(EmptyRecorder) = 0
<1>1. <<>> \in Seq(Event) /\ Len(<<>>) = 0 /\ DOMAIN <<>> = {}
  OBVIOUS
<1> QED BY <1>1, RecorderBounds
    DEF Keeps, EmptyRecorder, Recorder, Gapless, Numbered, Total

LEMMA KeptFacts ==
  ASSUME NEW r, Keeps(r)
  PROVE  /\ r \in Recorder /\ r.omitted \in Nat /\ r.events \in Seq(Event)
         /\ r.next \in Nat \ {0}
         /\ Len(r.events) \in Nat /\ Len(r.events) <= MaxEvents /\ Total(r) \in Nat
BY DEF Keeps, Recorder, Total

(* record: one event more is accounted for, and numbered next.              *)
LEMMA RecordedKeeps ==
  ASSUME NEW r, Keeps(r), NEW what \in Nat \ {0}, NEW size \in EventSizes
  PROVE  /\ Keeps(Recorded(r, what, size))
         /\ Total(Recorded(r, what, size)) = Total(r) + 1
         /\ \A base \in Nat :
              /\ Pairs(base, Recorded(r, what, size).events)
                   \subseteq Pairs(base, r.events) \cup {<<base + r.next, what>>}
              /\ Numbered(base, r) => Numbered(base, Recorded(r, what, size))
<1> DEFINE ev == [sequence |-> r.next, what |-> what, size |-> size]
           events == Append(r.events, ev)
           R == Recorded(r, what, size)
           n == Len(r.events)
<1>1. /\ r.omitted \in Nat /\ r.events \in Seq(Event) /\ r.next \in Nat \ {0}
      /\ n \in Nat /\ n <= MaxEvents /\ MaxEvents \in Nat \ {0}
      /\ Total(r) = r.omitted + n
  BY RecorderBounds, KeptFacts DEF Total
<1>2. ev \in Event /\ ev.sequence = r.next /\ ev.what = what
  BY <1>1 DEF Event
<1> HIDE DEF ev
<1>3. /\ events \in Seq(Event) /\ Len(events) = n + 1 /\ DOMAIN events = 1..(n + 1)
      /\ \A i \in 1..n : events[i] = r.events[i]
      /\ events[n + 1] = ev /\ DOMAIN r.events = 1..n
  BY <1>1, <1>2
<1>4. \A i \in 1..(n + 1) : i \in 1..n \/ i = n + 1
  BY <1>1
<1>5. R = [omitted |-> IF n + 1 > MaxEvents THEN r.omitted + 1 ELSE r.omitted,
           events |-> IF n + 1 > MaxEvents THEN Tail(events) ELSE events,
           next |-> r.next + 1]
  BY <1>3 DEF Recorded, ev
<1> HIDE DEF events, R, n
<1>6. ASSUME NEW base \in Nat
      PROVE  Pairs(base, events) \subseteq Pairs(base, r.events) \cup {<<base + r.next, what>>}
  <2> SUFFICES ASSUME NEW i \in 1..(n + 1)
               PROVE  <<base + events[i].sequence, events[i].what>>
                        \in Pairs(base, r.events) \cup {<<base + r.next, what>>}
    BY <1>3 DEF Pairs
  <2>1. CASE i \in 1..n
    BY <1>3, <2>1 DEF Pairs
  <2>2. CASE i = n + 1
    BY <1>2, <1>3, <2>2
  <2> QED BY <1>4, <2>1, <2>2
<1>7. ASSUME NEW base \in Nat, Numbered(base, r)
      PROVE  \A i \in 1..(n + 1) : base + events[i].sequence = r.omitted + i
  <2> SUFFICES ASSUME NEW i \in 1..(n + 1) PROVE base + events[i].sequence = r.omitted + i
    OBVIOUS
  <2>1. CASE i \in 1..n
    BY <1>3, <1>7, <2>1 DEF Numbered, Gapless
  <2>2. CASE i = n + 1
    <3>1. base + r.next = r.omitted + n + 1
      BY <1>1, <1>7 DEF Numbered
    <3>2. r.omitted + n + 1 = r.omitted + (n + 1)
      BY <1>1
    <3> QED BY <1>2, <1>3, <2>2, <3>1, <3>2
  <2> QED BY <1>4, <2>1, <2>2
<1>8. CASE n + 1 > MaxEvents
  <2> DEFINE tail == Tail(events)
  <2>1. /\ tail \in Seq(Event) /\ Len(tail) = n /\ DOMAIN tail = 1..n
        /\ \A i \in 1..n : tail[i] = events[i + 1] /\ i + 1 \in 1..(n + 1)
    BY <1>1, <1>3
  <2> HIDE DEF tail
  <2>2. R.omitted = r.omitted + 1 /\ R.events = tail /\ R.next = r.next + 1 /\ R \in Recorder
    BY <1>1, <1>5, <1>8, <2>1 DEF Recorder, tail
  <2>3. Total(R) = r.omitted + 1 + n
    BY <2>1, <2>2 DEF Total
  <2>4. Keeps(R) /\ Total(R) = Total(r) + 1
    BY <1>1, <2>1, <2>2, <2>3 DEF Keeps
  <2>5. ASSUME NEW base \in Nat PROVE Pairs(base, tail) \subseteq Pairs(base, events)
    BY <1>3, <2>1 DEF Pairs
  <2>6. ASSUME NEW base \in Nat, Numbered(base, r) PROVE Numbered(base, R)
    <3>1. ASSUME NEW i \in 1..n PROVE base + tail[i].sequence = r.omitted + 1 + i
      <4>1. base + events[i + 1].sequence = r.omitted + (i + 1)
        BY <1>7, <2>1, <2>6
      <4>2. r.omitted + (i + 1) = r.omitted + 1 + i
        BY <1>1
      <4> QED BY <2>1, <4>1, <4>2
    <3>2. Gapless(base, R.omitted, R.events)
      BY <2>1, <2>2, <3>1 DEF Gapless
    <3>3. base + r.next = Total(r) + 1
      BY <2>6 DEF Numbered
    <3>4. base + R.next = Total(R) + 1
      BY <1>1, <2>2, <2>4, <3>3
    <3> QED BY <3>2, <3>4 DEF Numbered
  <2> QED BY <1>6, <2>2, <2>4, <2>5, <2>6 DEF R
<1>9. CASE ~(n + 1 > MaxEvents)
  <2>1. R.omitted = r.omitted /\ R.events = events /\ R.next = r.next + 1 /\ R \in Recorder
    BY <1>1, <1>3, <1>5, <1>9 DEF Recorder
  <2>2. Total(R) = Total(r) + 1
    <3>1. Total(R) = r.omitted + (n + 1)
      BY <1>3, <2>1 DEF Total
    <3> QED BY <1>1, <3>1
  <2>3. Keeps(R)
    BY <1>1, <1>3, <1>9, <2>1 DEF Keeps
  <2>4. ASSUME NEW base \in Nat, Numbered(base, r) PROVE Numbered(base, R)
    <3>1. Gapless(base, R.omitted, R.events)
      BY <1>3, <1>7, <2>1, <2>4 DEF Gapless
    <3>2. base + r.next = Total(r) + 1
      BY <2>4 DEF Numbered
    <3>3. base + R.next = Total(R) + 1
      BY <1>1, <2>1, <2>2, <3>2
    <3> QED BY <3>1, <3>3 DEF Numbered
  <2> QED BY <1>6, <2>1, <2>2, <2>3, <2>4 DEF R
<1> QED BY <1>8, <1>9

(* snapshot: what a recorder exports accounts for all it has recorded, even *)
(* where no event fits.                                                     *)
LEMMA ExportedIsWhole ==
  ASSUME NEW r, Keeps(r)
  PROVE  /\ Whole(Exported(r)) /\ Exported(r) \in Export
         /\ Total(Exported(r)) = Total(r)
         /\ \A base \in Nat :
              /\ Pairs(base, Exported(r).events) \subseteq Pairs(base, r.events)
              /\ Gapless(base, r.omitted, r.events) =>
                   Gapless(base, Exported(r).omitted, Exported(r).events)
<1> DEFINE fits == {n \in 0..Len(r.events) : Bytes(Newest(r.events, n)) <= MaxExportBytes}
           kept == Max(fits)
           E == Exported(r)
<1>1. /\ r.omitted \in Nat /\ r.events \in Seq(Event)
      /\ Len(r.events) \in Nat /\ Len(r.events) <= MaxEvents /\ MaxEvents \in Nat
  BY RecorderBounds, KeptFacts
<1>2. 0 \in fits
  <2>1. 0 \in 0..Len(r.events)
    BY <1>1
  <2>2. Newest(r.events, 0) = <<>>
    BY <1>1, <2>1, NewestFacts
  <2> QED BY <2>1, <2>2, NoBytes
<1>3. kept \in fits
  <2> HIDE DEF fits
  <2>1. fits \subseteq 0..Len(r.events) /\ fits # {} /\ Len(r.events) \in Nat
    BY <1>1, <1>2 DEF fits
  <2> QED BY <2>1, HasMax
<1>4. kept \in 0..Len(r.events) /\ Bytes(Newest(r.events, kept)) <= MaxExportBytes
  BY <1>3
<1>5. E = [omitted |-> r.omitted + Len(r.events) - kept, events |-> Newest(r.events, kept)]
  BY DEF Exported
<1> HIDE DEF kept, fits, E
<1>6. /\ Newest(r.events, kept) \in Seq(Event) /\ Len(Newest(r.events, kept)) = kept
      /\ r.omitted + Len(r.events) - kept \in Nat
      /\ \A base \in Nat :
           /\ Pairs(base, Newest(r.events, kept)) \subseteq Pairs(base, r.events)
           /\ Gapless(base, r.omitted, r.events) =>
                Gapless(base, r.omitted + Len(r.events) - kept, Newest(r.events, kept))
  BY <1>1, <1>4, NewestFacts, NewestGapless
<1>7. E \in Export /\ Len(E.events) = kept /\ Total(E) = Total(r)
  BY <1>1, <1>4, <1>5, <1>6 DEF Export, Total
<1>8. Whole(E)
  BY <1>1, <1>4, <1>5, <1>7 DEF Whole
<1> QED BY <1>5, <1>6, <1>7, <1>8 DEF E

LEMMA WholeFacts ==
  ASSUME NEW e, Whole(e)
  PROVE  /\ e \in Export /\ e.omitted \in Nat /\ e.events \in Seq(Event)
         /\ Len(e.events) \in Nat /\ Len(e.events) <= MaxEvents
         /\ Total(e) \in Nat
         /\ \A base \in Nat : Gapless(base, e.omitted, e.events) =>
              \A x \in Pairs(base, e.events) : x[1] \in Nat /\ x[1] <= Total(e)
<1>1. /\ e \in Export /\ e.omitted \in Nat /\ e.events \in Seq(Event)
      /\ Len(e.events) \in Nat /\ Len(e.events) <= MaxEvents
  BY DEF Whole, Export
<1> QED BY <1>1, PlacesOfGapless DEF Total

(* initialTrace: the numbering goes on where it ended, or begins again      *)
(* where nothing is left of it.                                             *)
LEMMA ResumedKeeps ==
  ASSUME NEW e, Whole(e), NEW base \in Nat, Gapless(base, e.omitted, e.events)
  PROVE  /\ Keeps(Resumed(e))
         /\ Total(Resumed(e)) = Total(e)
         /\ Resumed(e).events = <<>> =>
              Numbered(Resumed(e).omitted, Resumed(e)) /\ e.events = <<>>
         /\ Resumed(e).events # <<>> => Numbered(base, Resumed(e))
         /\ Pairs(base, Resumed(e).events) \subseteq Pairs(base, e.events)
<1> DEFINE kept == IF Len(e.events) < MaxEvents THEN Len(e.events) ELSE MaxEvents
           events == Newest(e.events, kept)
           numbers == {0} \cup {ev.sequence : ev \in ToSet(events)}
           R == Resumed(e)
           last == e.omitted + Len(e.events)
<1>1. /\ e.omitted \in Nat /\ e.events \in Seq(Event) /\ Len(e.events) \in Nat
      /\ Total(e) = last /\ last \in Nat /\ last = e.omitted + Len(e.events)
  BY WholeFacts DEF Total
<1>2. /\ kept \in 0..Len(e.events) /\ kept <= MaxEvents /\ kept \in Nat
      /\ kept = 0 => e.events = <<>>
  BY <1>1, RecorderBounds
<1>4. R = [omitted |-> e.omitted + Len(e.events) - kept, events |-> events,
           next |-> Max(numbers) + 1]
  BY DEF Resumed
<1> HIDE DEF kept, R, numbers
<1>3. /\ events \in Seq(Event) /\ Len(events) = kept /\ DOMAIN events = 1..kept
      /\ last - kept \in Nat /\ last - kept + kept = last
      /\ Pairs(base, events) \subseteq Pairs(base, e.events)
      /\ Gapless(base, last - kept, events)
  <2>1. events \in Seq(Event) /\ Len(events) = kept
    BY <1>1, <1>2, NewestFacts
  <2>2. DOMAIN events = 1..kept
    BY <1>2, <2>1
  <2>3. /\ Pairs(base, events) \subseteq Pairs(base, e.events)
        /\ Gapless(base, last - kept, events)
    <3>1. e.omitted \in Nat /\ e.events \in Seq(Event) /\ kept \in 0..Len(e.events)
      BY <1>1, <1>2
    <3>2. last - kept = e.omitted + Len(e.events) - kept
      BY <1>1, <1>2
    <3>3. /\ Pairs(base, Newest(e.events, kept)) \subseteq Pairs(base, e.events)
          /\ Gapless(base, e.omitted + Len(e.events) - kept, Newest(e.events, kept))
      BY <3>1, NewestGapless
    <3> QED BY <3>2, <3>3
  <2>4. last - kept \in Nat /\ last - kept + kept = last
    BY <1>1, <1>2
  <2> QED BY <2>1, <2>2, <2>3, <2>4
<1> HIDE DEF events, last
<1>5. numbers = {0} \cup {events[i].sequence : i \in 1..kept}
  BY <1>3 DEF ToSet, numbers
<1>6. \A i \in 1..kept : /\ events[i].sequence \in Nat
                         /\ base + events[i].sequence = last - kept + i
                         /\ events[i].sequence <= last
  <2> SUFFICES ASSUME NEW i \in 1..kept
               PROVE  /\ events[i].sequence \in Nat
                      /\ base + events[i].sequence = last - kept + i
                      /\ events[i].sequence <= last
    OBVIOUS
  <2>1. events[i].sequence \in Nat
    BY <1>3, EventFacts
  <2>2. base + events[i].sequence = last - kept + i
    BY <1>3 DEF Gapless
  <2>3. last - kept + i <= last
    BY <1>1, <1>2
  <2> QED BY <1>1, <1>2, <2>1, <2>2, <2>3
<1>7. Max(numbers) \in numbers /\ Max(numbers) \in Nat /\ \A y \in numbers : Max(numbers) >= y
  <2>1. \A y \in numbers : y = 0 \/ \E i \in 1..kept : y = events[i].sequence
    BY <1>5
  <2>2. 0 \in 0..last /\ \A i \in 1..kept : events[i].sequence \in 0..last
    BY <1>1, <1>6
  <2>3. numbers \subseteq 0..last /\ numbers # {}
    BY <1>5, <2>1, <2>2
  <2>4. Max(numbers) \in numbers /\ \A y \in numbers : Max(numbers) >= y
    BY <1>1, <2>3, HasMax
  <2>5. Max(numbers) \in 0..last
    BY <2>3, <2>4
  <2>6. Max(numbers) \in Nat
    BY <1>1, <2>5
  <2> QED BY <2>4, <2>6
<1>8. R \in Recorder /\ Keeps(R) /\ Total(R) = Total(e)
  BY <1>1, <1>2, <1>3, <1>4, <1>7 DEF Recorder, Keeps, Total
<1>9. ASSUME events # <<>> PROVE Numbered(base, R)
  <2>1. kept \in 1..kept
    BY <1>2, <1>3, <1>9
  <2>2. events[kept].sequence \in numbers
    BY <1>5, <2>1
  <2>3. \A y \in numbers : events[kept].sequence >= y
    <3>1. \A i \in 1..kept : last - kept + i <= last - kept + kept
      BY <1>1, <1>2
    <3>2. \A i \in 1..kept : events[i].sequence <= events[kept].sequence
      BY <1>2, <1>3, <1>6, <2>1, <3>1
    <3> QED BY <1>5, <1>6, <2>1, <3>2
  <2>4. Max(numbers) = events[kept].sequence
    <3>1. events[kept].sequence \in Nat
      BY <1>6, <2>1
    <3> QED BY <1>7, <2>2, <2>3, <3>1
  <2>5. base + Max(numbers) = last
    BY <1>1, <1>3, <1>6, <2>1, <2>4
  <2>6. base + (Max(numbers) + 1) = Total(R) + 1
    BY <1>1, <1>7, <1>8, <2>5
  <2> QED BY <1>1, <1>3, <1>4, <2>6 DEF Numbered
<1>10. ASSUME events = <<>> PROVE Numbered(R.omitted, R) /\ e.events = <<>>
  <2>1. kept = 0 /\ R.omitted = last /\ R.omitted \in Nat
    BY <1>1, <1>3, <1>4, <1>10
  <2>2. Max(numbers) = 0
    BY <1>5, <1>7, <2>1
  <2>3. R.omitted + R.next = Total(R) + 1
    BY <1>1, <1>4, <1>8, <2>1, <2>2
  <2>4. Gapless(R.omitted, R.omitted, R.events)
    BY <1>4, <1>10 DEF Gapless
  <2> QED BY <1>2, <2>1, <2>3, <2>4 DEF Numbered
<1> QED BY <1>3, <1>4, <1>8, <1>9, <1>10 DEF R

-----------------------------------------------------------------------------
(* Writes and queues.                                                       *)
LEMMA StoreFacts ==
  /\ "trace" \in Stores /\ "metrics" \in Stores
  /\ \A s \in Stores : Main(s) \in Files(s) /\ Files(s) \subseteq AllFiles /\ Files(s) # {}
  /\ \A s, t \in Stores : s # t => Files(s) \cap Files(t) = {}
BY DEF Stores, Main, Files, AllFiles

LEMMA ContentFacts ==
  ASSUME NEW s \in Stores, NEW what \in Contents(s)
  PROVE  /\ Mark(s, what) \in Nat /\ what # None
         /\ s = "trace" => Whole(what)
BY WholeFacts, NoneIsNoFile DEF Contents, Mark, Stores

(* What is taken for a save shows all that the recorders know.              *)
LEMMA TakenFacts ==
  ASSUME NEW s \in Stores, NEW r, Keeps(r), NEW n \in Nat
  PROVE  /\ Reached(s, r, n) \in Nat
         /\ Taken(s, r, n) \in Contents(s)
         /\ Mark(s, Taken(s, r, n)) = Reached(s, r, n)
BY KeptFacts, ExportedIsWhole DEF Reached, Taken, Contents, Mark

LEMMA QueueFacts ==
  ASSUME NEW s \in Stores, NEW q \in Seq(Write(s))
  PROVE  /\ Len(q) \in Nat /\ DOMAIN q = 1..Len(q) /\ (q = <<>> <=> Len(q) = 0)
         /\ \A i \in 1..Len(q) : /\ q[i] \in Write(s) /\ q[i].who \in Savers
                                /\ q[i].what \in Contents(s) /\ Mark(s, q[i].what) \in Nat
<1>1. Len(q) \in Nat /\ DOMAIN q = 1..Len(q) /\ (q = <<>> <=> Len(q) = 0)
  OBVIOUS
<1>2. ASSUME NEW i \in 1..Len(q)
      PROVE  /\ q[i] \in Write(s) /\ q[i].who \in Savers /\ q[i].what \in Contents(s)
  <2>1. q[i] \in Write(s)
    OBVIOUS
  <2> QED BY <2>1 DEF Write
<1> QED BY <1>1, <1>2, ContentFacts

LEMMA AppendFacts ==
  ASSUME NEW s \in Stores, NEW q \in Seq(Write(s)), NEW w \in Write(s)
  PROVE  /\ Append(q, w) \in Seq(Write(s)) /\ Len(Append(q, w)) = Len(q) + 1
         /\ Append(q, w) # <<>>
         /\ \A i \in 1..Len(q) : Append(q, w)[i] = q[i]
         /\ Append(q, w)[Len(q) + 1] = w
OBVIOUS

LEMMA TailFacts ==
  ASSUME NEW s \in Stores, NEW q \in Seq(Write(s)), q # <<>>
  PROVE  /\ Tail(q) \in Seq(Write(s)) /\ Len(Tail(q)) = Len(q) - 1
         /\ Head(q) = q[1] /\ Len(q) >= 1 /\ 1 \in 1..Len(q)
         /\ \A i \in 1..Len(q) - 1 : Tail(q)[i] = q[i + 1]
OBVIOUS

LEMMA SavedFacts ==
  ASSUME Types, NEW who \in Savers, NEW r, Keeps(r), NEW n \in Nat, Saved(who, r, n)
  PROVE  /\ queue' = [s \in Stores |-> queue'[s]]
         /\ \A s \in Stores :
              /\ [who |-> who, what |-> Taken(s, r, n)] \in Write(s)
              /\ queue'[s] = Append(queue[s], [who |-> who, what |-> Taken(s, r, n)])
              /\ queue'[s] \in Seq(Write(s))
<1>1. queue = [s \in Stores |-> queue[s]] /\ \A s \in Stores : queue[s] \in Seq(Write(s))
  BY DEF Types
<1>2. /\ queue' = [s \in Stores |-> queue'[s]]
      /\ \A s \in Stores : queue'[s] = Append(queue[s], [who |-> who, what |-> Taken(s, r, n)])
  BY <1>1 DEF Saved, Taken, Stores
<1>3. ASSUME NEW s \in Stores PROVE [who |-> who, what |-> Taken(s, r, n)] \in Write(s)
  BY TakenFacts DEF Write
<1> QED BY <1>1, <1>2, <1>3, AppendFacts

LEMMA EndFacts ==
  ASSUME Types, NEW s \in Stores, queue[s] # <<>>, EndWrite(s)
  PROVE  /\ queue' = [t \in Stores |-> queue'[t]]
         /\ queue'[s] = Tail(queue[s]) /\ \A t \in Stores \ {s} : queue'[t] = queue[t]
         /\ \A t \in Stores : queue'[t] \in Seq(Write(t))
         /\ left' \in [Stores -> SUBSET AllFiles] /\ left'[s] = {}
         /\ \A t \in Stores \ {s} : left'[t] = left[t]
         /\ swept' \subseteq Stores
<1>1. /\ queue = [t \in Stores |-> queue[t]] /\ \A t \in Stores : queue[t] \in Seq(Write(t))
      /\ left \in [Stores -> SUBSET AllFiles] /\ swept \subseteq Stores
  BY DEF Types
<1>2. /\ queue' = [t \in Stores |-> queue'[t]]
      /\ queue'[s] = Tail(queue[s]) /\ \A t \in Stores \ {s} : queue'[t] = queue[t]
  BY <1>1 DEF EndWrite
<1>3. Tail(queue[s]) \in Seq(Write(s))
  BY <1>1, TailFacts
<1> QED BY <1>1, <1>2, <1>3 DEF EndWrite

-----------------------------------------------------------------------------
(* Types.                                                                   *)
LEMMA IdleTyped == IdleCall \in CallRecord /\ NoEvidence \in Evidence
BY DEF IdleCall, CallRecord, NoEvidence, Evidence, Stores

LEMMA BlankTyped ==
  /\ Blank.call \in [Calls -> CallRecord]
  /\ Blank.queue = [s \in Stores |-> Blank.queue[s]]
  /\ \A s \in Stores : Blank.queue[s] = <<>> /\ Blank.queue[s] \in Seq(Write(s))
  /\ Blank.left \in [Stores -> SUBSET AllFiles] /\ \A s \in Stores : Blank.left[s] = {}
  /\ Blank.failures \in [Stores -> Nat]
BY IdleTyped DEF Blank

LEMMA InitTypes == EvidenceInit => Types /\ Phases
<1> SUFFICES ASSUME EvidenceInit PROVE Types /\ Phases
  OBVIOUS
<1>1. disk = [f \in AllFiles |-> disk[f]] /\ \A s \in Stores : \A f \in Files(s) : disk[f] = None
  BY StoreFacts DEF EvidenceInit, NoFiles
<1>2. Types
  BY <1>1, BlankTyped, IdleTyped, EmptyKeeps DEF EvidenceInit, Types
<1>3. Phases
  BY DEF EvidenceInit, Phases
<1> QED BY <1>2, <1>3

(* What a start finds: a recorder to go on with.                            *)
Found == IF Disposable \/ disk["json"] = None THEN EmptyRecorder ELSE Resumed(disk["json"])
CountFound == IF Disposable \/ disk["metrics"] = None THEN 0 ELSE disk["metrics"]

LEMMA FoundKeeps ==
  ASSUME Types, Numbering
  PROVE  /\ Keeps(Found) /\ CountFound \in Nat
         /\ ~Disposable => Total(Found) = Shown("trace") /\ CountFound = Shown("metrics")
         /\ Found.events = <<>> =>
              /\ Found.omitted \in Nat /\ (Disposable => Found.omitted = 0)
              /\ Numbered(Found.omitted, Found)
              /\ ~Disposable /\ disk["json"] # None => disk["json"].events = <<>>
         /\ Found.events # <<>> => Numbered(origin, Found)
         /\ ~Disposable /\ disk["json"] # None =>
              Pairs(origin, Found.events) \subseteq Pairs(origin, disk["json"].events)
<1>1. disk["json"] \in {None} \cup Contents("trace") /\ disk["metrics"] \in {None} \cup Contents("metrics")
  BY DEF Types, Stores, Files
<1>2. disk["json"] # None =>
        /\ Whole(disk["json"]) /\ origin \in Nat
        /\ Gapless(origin, disk["json"].omitted, disk["json"].events)
  BY <1>1, StoreFacts, ContentFacts DEF Numbering, Fits
<1>3. disk["metrics"] # None => disk["metrics"] \in Nat
  BY <1>1 DEF Contents
<1>4. CountFound \in Nat /\ (~Disposable => CountFound = Shown("metrics"))
  BY <1>3 DEF CountFound, Shown, Main, Mark
<1>5. CASE Disposable \/ disk["json"] = None
  <2>1. Found = EmptyRecorder /\ Found.events = <<>> /\ Found.omitted = 0
    BY <1>5 DEF Found, EmptyRecorder
  <2>2. ~Disposable => Shown("trace") = 0
    BY <1>5 DEF Shown, Main
  <2> QED BY <1>4, <1>5, <2>1, <2>2, EmptyKeeps
<1>6. CASE ~Disposable /\ disk["json"] # None
  <2>1. Found = Resumed(disk["json"]) /\ Shown("trace") = Total(disk["json"])
    BY <1>6 DEF Found, Shown, Main, Mark
  <2>2. /\ Keeps(Found) /\ Total(Found) = Total(disk["json"])
        /\ Found.events = <<>> => Numbered(Found.omitted, Found) /\ disk["json"].events = <<>>
        /\ Found.events # <<>> => Numbered(origin, Found)
        /\ Pairs(origin, Found.events) \subseteq Pairs(origin, disk["json"].events)
    BY <1>2, <1>6, <2>1, ResumedKeeps
  <2>3. Found.omitted \in Nat
    BY <2>2, KeptFacts
  <2> QED BY <1>4, <1>6, <2>1, <2>2, <2>3
<1> QED BY <1>5, <1>6

(* What a start makes of it, with the origin it numbers from.               *)
LEMMA StartFacts ==
  ASSUME Types, Numbering, Start
  PROVE  /\ Keeps(recorder') /\ Total(recorder') = Total(Found) + 1
         /\ origin' \in Nat /\ (Disposable => origin' = 0)
         /\ Numbered(origin', Found) /\ Numbered(origin', recorder')
         /\ \/ origin' = origin
            \/ ~Disposable /\ disk["json"] # None => disk["json"].events = <<>>
         /\ Pairs(origin', recorder'.events)
              \subseteq Pairs(origin', Found.events) \cup {<<origin' + Found.next, occurred + 1>>}
         /\ commands' = CountFound /\ Saved("start", recorder', commands')
<1>1. /\ recorder' = Recorded(Found, occurred + 1, "small") /\ commands' = CountFound
      /\ Saved("start", recorder', commands')
      /\ origin' = IF Found.events = <<>> THEN Found.omitted ELSE origin
  BY DEF Start, Found, CountFound
<1>2. occurred + 1 \in Nat \ {0} /\ "small" \in EventSizes
  BY DEF Types, EventSizes
<1>3. /\ origin' \in Nat /\ (Disposable => origin' = 0) /\ Numbered(origin', Found)
      /\ \/ origin' = origin
         \/ ~Disposable /\ disk["json"] # None => disk["json"].events = <<>>
  BY <1>1, FoundKeeps DEF Numbering
<1>4. /\ Keeps(recorder') /\ Total(recorder') = Total(Found) + 1
      /\ Numbered(origin', recorder')
      /\ Pairs(origin', recorder'.events)
           \subseteq Pairs(origin', Found.events) \cup {<<origin' + Found.next, occurred + 1>>}
  BY <1>1, <1>2, <1>3, FoundKeeps, RecordedKeeps
<1> QED BY <1>1, <1>3, <1>4

LEMMA TypesKept == Types /\ UNCHANGED vars => Types'
<1> SUFFICES ASSUME Types, UNCHANGED vars PROVE Types'
  OBVIOUS
<1> QED BY DEF Types, vars, memory

LEMMA CallTypes ==
  ASSUME Types, NEW c \in Calls, NEW pc \in {"idle", "running", "handing", "saving"},
         NEW made \in Evidence
  PROVE  /\ [call EXCEPT ![c] = IdleCall] \in [Calls -> CallRecord]
         /\ [call EXCEPT ![c].pc = pc] \in [Calls -> CallRecord]
         /\ [call EXCEPT ![c] = [IdleCall EXCEPT !.pc = pc]] \in [Calls -> CallRecord]
         /\ [call EXCEPT ![c].made = made, ![c].records = @ + 1] \in [Calls -> CallRecord]
         /\ [call EXCEPT ![c].pc = pc, ![c].records = @ + 1, ![c].made = made]
              \in [Calls -> CallRecord]
         /\ \A s \in Stores : [call EXCEPT ![c].failed = @ \cup {s}] \in [Calls -> CallRecord]
<1>1. call \in [Calls -> CallRecord] /\ IdleCall \in CallRecord
  BY IdleTyped DEF Types
<1> DEFINE r == call[c]
           n == r.records + 1
<1>2. r \in CallRecord /\ n \in Nat /\ r.failed \in SUBSET Stores
  BY <1>1 DEF CallRecord
<1> HIDE DEF r, n
<1>3. [IdleCall EXCEPT !.pc = pc] \in CallRecord /\ [r EXCEPT !.pc = pc] \in CallRecord
  BY <1>1, <1>2 DEF CallRecord
<1>4. [r EXCEPT !.made = made, !.records = n] \in CallRecord
  BY <1>2 DEF CallRecord
<1>5. [r EXCEPT !.pc = pc, !.records = n, !.made = made] \in CallRecord
  BY <1>2 DEF CallRecord
<1>6. ASSUME NEW s \in Stores PROVE [r EXCEPT !.failed = r.failed \cup {s}] \in CallRecord
  <2>1. r.failed \cup {s} \in SUBSET Stores
    BY <1>2
  <2> QED BY <1>2, <2>1 DEF CallRecord
<1> QED BY <1>1, <1>3, <1>4, <1>5, <1>6 DEF r, n

(* What a step that leaves queues and files alone leaves alone.             *)
Unsaved == UNCHANGED <<queue, left, swept, disk, failures, origin, published>>

LEMMA UnsavedTypes ==
  ASSUME Types, Unsaved, daemon' \in {"down", "starting", "open", "ending", "closed"},
         call' \in [Calls -> CallRecord], Keeps(recorder'), commands' \in Nat, occurred' \in Nat,
         promised' \in Evidence
  PROVE  Types'
BY DEF Types, Unsaved

-----------------------------------------------------------------------------
(* Steps that leave queues and files alone.                                 *)
LEMMA AgreeMore ==
  ASSUME NEW K, NEW L, Agree(K), NEW n, NEW what, \A x \in K : x[1] # n,
         L \subseteq K \cup {<<n, what>>}
  PROVE  Agree(L)
BY DEF Agree

LEMMA NowIsNat == Types => \A s \in Stores : Now(s) \in Nat
BY TakenFacts DEF Types, Now

(* While a process runs, no place that an event has is still to be given.   *)
LEMMA KnownPlaces ==
  ASSUME IInv, daemon # "down", ~Disposable
  PROVE  \A x \in Known : x[1] \in Nat /\ x[1] <= Total(recorder)
<1>1. /\ Types /\ Places /\ Numbering /\ Ordered("trace") /\ "trace" \in Stores
      /\ Keeps(recorder) /\ origin \in Nat
  BY StoreFacts DEF IInv, Types, Numbering
<1>2. Now("trace") = Total(recorder) /\ Now("trace") \in Nat
  BY <1>1, NowIsNat DEF Now, Reached
<1>3. ASSUME NEW x \in Shelved PROVE x[1] \in Nat /\ x[1] <= Total(recorder)
  <2>1. disk["json"] # None /\ x[1] \in Nat /\ x[1] <= Total(disk["json"])
    BY <1>1, <1>3 DEF Places
  <2>2. Shown("trace") = Total(disk["json"]) /\ Shown("trace") <= Now("trace")
    BY <1>1, <2>1 DEF Shown, Main, Mark, Ordered
  <2>3. disk["json"] \in Contents("trace")
    BY <1>1, <2>1 DEF Types, Files
  <2>4. Total(disk["json"]) \in Nat
    BY <1>1, <2>3, ContentFacts, WholeFacts
  <2> QED BY <1>2, <2>1, <2>2, <2>4
<1>4. ASSUME NEW x \in Pairs(origin, recorder.events) PROVE x[1] \in Nat /\ x[1] <= Total(recorder)
  BY <1>1, KeptFacts, PlacesOfGapless DEF Numbering, Numbered, Total
<1>5. ASSUME NEW x \in Queued PROVE x[1] \in Nat /\ x[1] <= Total(recorder)
  <2>1. PICK i \in DOMAIN queue["trace"] : x \in Pairs(origin, queue["trace"][i].what.events)
    BY DEF Queued
  <2>2. queue["trace"] \in Seq(Write("trace"))
    BY <1>1 DEF Types
  <2>3. Whole(queue["trace"][i].what)
    BY <1>1, <2>1, <2>2, QueueFacts, ContentFacts
  <2>4. Total(queue["trace"][i].what) <= Now("trace")
    BY <1>1, <2>1 DEF Ordered, Mark
  <2>5. Gapless(origin, queue["trace"][i].what.omitted, queue["trace"][i].what.events)
    BY <1>1, <2>1 DEF Numbering, Fits
  <2>6. x[1] \in Nat /\ x[1] <= Total(queue["trace"][i].what) /\ Total(queue["trace"][i].what) \in Nat
    BY <1>1, <2>1, <2>3, <2>5, WholeFacts
  <2> QED BY <1>2, <2>4, <2>6
<1> QED BY <1>3, <1>4, <1>5 DEF Known

(* The place of the event that comes next.                                  *)
LEMMA FreshPlace ==
  ASSUME IInv, daemon # "down", ~Disposable
  PROVE  \A x \in Known : x[1] # origin + recorder.next
<1>1. Total(recorder) \in Nat /\ origin + recorder.next = Total(recorder) + 1
  BY KeptFacts DEF IInv, Types, Numbering, Numbered
<1>2. \A x \in Known : x[1] \in Nat /\ x[1] <= Total(recorder)
  BY KnownPlaces
<1> QED BY <1>1, <1>2

LEMMA UnsavedKeeps ==
  ASSUME IInv, Types', Unsaved, daemon # "down", daemon' # "down",
         daemon' \in {"starting", "open"} => daemon \in {"starting", "open"},
         daemon' = "starting" => \A c \in Calls : call'[c] = IdleCall,
         Numbered(origin, recorder'),
         \A s \in Stores : Now(s) <= Now(s)',
         Current' => Current /\ UNCHANGED <<recorder, commands>>,
         \A c \in Calls :
           \/ call'[c] = call[c]
           \/ /\ call'[c].pc # "saving" /\ ~Waiting(c)
              /\ \A s \in Stores : Part(s, call'[c].made) <= Now(s)',
         \A s \in Stores : promised' = promised \/ Disposable \/ Shows(s, promised'),
         Pairs(origin, recorder'.events)
           \subseteq Pairs(origin, recorder.events) \cup {<<origin + recorder.next, occurred + 1>>}
  PROVE  IInv'
<1>1. Types /\ Types' /\ Phases'
  BY DEF IInv, Phases
<1>2. Places'
  <2> SUFFICES ASSUME ~Disposable PROVE Places'
    BY DEF Places
  <2>1. UNCHANGED <<published, disk, origin>> /\ Queued' = Queued /\ Shelved' = Shelved
    BY DEF Unsaved, Queued, Shelved
  <2>2. Known' \subseteq Known \cup {<<origin + recorder.next, occurred + 1>>}
    BY <2>1 DEF Known
  <2>3. \A x \in Known : x[1] # origin + recorder.next
    BY FreshPlace
  <2>4. Agree(Known')
    BY <2>2, <2>3, AgreeMore DEF IInv, Places
  <2> QED BY <2>1, <2>4 DEF IInv, Places
<1>4. Numbering'
  BY DEF IInv, Numbering, Unsaved, Fits
<1>3. ASSUME NEW s \in Stores PROVE Ordered(s)' /\ Writing(s)' /\ Latest(s)' /\ Answers(s)'
  <2>1. /\ queue'[s] = queue[s] /\ left'[s] = left[s] /\ failures'[s] = failures[s] /\ disk' = disk
        /\ Ordered(s) /\ Writing(s) /\ Latest(s) /\ Answers(s)
        /\ Now(s) \in Nat /\ Now(s)' \in Nat /\ Now(s) <= Now(s)'
    <3>1. Keeps(recorder)' /\ commands' \in Nat
      BY <1>1 DEF Types
    <3>2. Now(s)' \in Nat
      BY <3>1, TakenFacts DEF Now
    <3> QED BY <1>1, <3>2, NowIsNat DEF Unsaved, IInv
  <2>2. /\ DOMAIN queue[s] = 1..Len(queue[s])
        /\ \A i \in DOMAIN queue[s] : Mark(s, queue[s][i].what) \in Nat
    BY <1>1, QueueFacts DEF Types
  <2>3. Shown(s)' = Shown(s) /\ (~Disposable => Shown(s) \in Nat)
    <3>1. disk[Main(s)] \in {None} \cup Contents(s)
      BY <1>1, StoreFacts DEF Types
    <3> QED BY <2>1, <3>1, ContentFacts DEF Shown
  <2>4. Ordered(s)'
    BY <2>1, <2>2, <2>3 DEF Ordered
  <2>5. Writing(s)'
    BY <2>1 DEF Writing
  <2>6. Latest(s)'
    BY <2>1 DEF Latest, Value
  <2>7. ASSUME NEW c \in Calls PROVE CallFits(s, c)'
    <3>1. CASE call'[c] = call[c]
      <4>1. CallFits(s, c) /\ Part(s, call[c].made) \in Nat
        BY <1>1, <2>1 DEF Answers, Types, CallRecord, Evidence, Part
      <4> QED BY <2>1, <3>1, <4>1 DEF CallFits, Shows
    <3>2. CASE call'[c].pc # "saving" /\ Part(s, call'[c].made) <= Now(s)'
      BY <3>2 DEF CallFits
    <3> QED BY <3>1, <3>2
  <2>8. ASSUME NEW i \in DOMAIN queue[s], queue[s][i].who \in Calls
        PROVE  /\ call'[queue[s][i].who].pc = "saving"
               /\ Part(s, call'[queue[s][i].who].made) <= Mark(s, queue[s][i].what)
    <3>1. Waiting(queue[s][i].who)
      BY DEF Waiting
    <3>2. call'[queue[s][i].who] = call[queue[s][i].who]
      BY <2>8, <3>1
    <3> QED BY <2>1, <2>8, <3>2 DEF Answers
  <2>9. ~Disposable /\ promised' # NoEvidence => Shows(s, promised)'
    BY <2>1 DEF Answers, Shows
  <2>10. Answers(s)'
    BY <2>1, <2>7, <2>8, <2>9 DEF Answers
  <2> QED BY <2>4, <2>5, <2>6, <2>10
<1> QED BY <1>1, <1>2, <1>4, <1>3 DEF IInv

LEMMA NotWaiting ==
  ASSUME IInv, NEW c \in Calls, call[c].pc # "saving"
  PROVE  ~Waiting(c)
<1> SUFFICES ASSUME NEW s \in Stores, NEW i \in DOMAIN queue[s], queue[s][i].who = c PROVE FALSE
  BY DEF Waiting
<1> QED BY DEF IInv, Answers

(* What a step finds that comes when a process runs, and makes of the       *)
(* recorder.                                                                *)
LEMMA RecorderFacts ==
  ASSUME IInv, daemon # "down"
  PROVE  /\ Keeps(recorder) /\ Numbered(origin, recorder) /\ origin \in Nat
         /\ Pairs(origin, recorder.events)
              \subseteq Pairs(origin, recorder.events) \cup {<<origin + recorder.next, occurred + 1>>}
         /\ commands \in Nat /\ occurred \in Nat /\ occurred + 1 \in Nat \ {0}
         /\ \A s \in Stores : Now(s) <= Now(s)
BY NowIsNat DEF IInv, Types, Numbering

LEMMA OneMore ==
  ASSUME IInv, daemon # "down", NEW size \in EventSizes,
         recorder' = Recorded(recorder, occurred + 1, size), commands' \in {commands, commands + 1}
  PROVE  /\ Keeps(recorder') /\ Numbered(origin, recorder')
         /\ commands' \in Nat
         /\ \A s \in Stores : Now(s) <= Now(s)'
         /\ Pairs(origin, recorder'.events)
              \subseteq Pairs(origin, recorder.events) \cup {<<origin + recorder.next, occurred + 1>>}
         /\ LET made == [number |-> Total(recorder'), commands |-> commands']
            IN  made \in Evidence /\ \A s \in Stores : Part(s, made) <= Now(s)'
<1>1. /\ Keeps(recorder) /\ Numbered(origin, recorder) /\ origin \in Nat
      /\ Total(recorder) \in Nat /\ commands \in Nat /\ occurred + 1 \in Nat \ {0}
  BY RecorderFacts, KeptFacts
<1>2. /\ Keeps(recorder') /\ Total(recorder') = Total(recorder) + 1 /\ Numbered(origin, recorder')
      /\ Pairs(origin, recorder'.events)
           \subseteq Pairs(origin, recorder.events) \cup {<<origin + recorder.next, occurred + 1>>}
  BY <1>1, RecordedKeeps
<1>3. \A s \in Stores : Now(s) <= Now(s)'
  BY <1>1, <1>2 DEF Now, Reached
<1>4. [number |-> Total(recorder'), commands |-> commands'] \in Evidence
  BY <1>1, <1>2 DEF Evidence
<1>5. \A s \in Stores : Part(s, [number |-> Total(recorder'), commands |-> commands']) <= Now(s)'
  BY <1>1, <1>2 DEF Now, Reached, Part
<1> QED BY <1>1, <1>2, <1>3, <1>4, <1>5

LEMMA ServeKeeps == IInv /\ Serve => IInv'
<1> SUFFICES ASSUME IInv, Serve PROVE IInv'
  OBVIOUS
<1>1. /\ Unsaved /\ UNCHANGED <<call, recorder, commands, occurred, promised>>
      /\ daemon = "starting" /\ daemon' = "open"
  BY DEF Serve, Unsaved
<1>2. Types'
  BY <1>1, UnsavedTypes DEF IInv, Types
<1>3. /\ \A s \in Stores : Now(s) <= Now(s)'
      /\ Current' => Current /\ UNCHANGED <<recorder, commands>>
  BY <1>1, RecorderFacts DEF Now, Current
<1> QED BY <1>1, <1>2, <1>3, RecorderFacts, UnsavedKeeps

LEMMA BeginKeeps == ASSUME IInv, NEW c \in Calls, Begin(c) PROVE IInv'
<1>1. /\ Unsaved /\ UNCHANGED <<daemon, recorder, commands, occurred, promised>>
      /\ daemon \in {"open", "ending", "closed"} /\ call[c].pc = "idle"
      /\ call' = [call EXCEPT ![c] = [IdleCall EXCEPT !.pc = "running"]]
      /\ Types /\ call \in [Calls -> CallRecord]
  BY DEF Begin, Unsaved, IInv, Types
<1>2. Types'
  <2>1. call' \in [Calls -> CallRecord]
    BY <1>1, CallTypes, IdleTyped DEF NoEvidence
  <2> QED BY <1>1, <2>1, UnsavedTypes DEF Types
<1>3. /\ call'[c] = [IdleCall EXCEPT !.pc = "running"] /\ \A x \in Calls \ {c} : call'[x] = call[x]
      /\ call'[c].pc = "running" /\ call'[c].made = NoEvidence
  BY <1>1 DEF IdleCall
<1>4. \A s \in Stores : Part(s, call'[c].made) <= Now(s)'
  BY <1>1, <1>3, NowIsNat DEF Part, NoEvidence, Now
<1>5. ~Waiting(c)
  BY <1>1, NotWaiting
<1>6. ~Current'
  BY <1>3 DEF Current
<1>7. \A s \in Stores : Now(s) <= Now(s)'
  BY <1>1, RecorderFacts DEF Now
<1> QED BY <1>1, <1>2, <1>3, <1>4, <1>5, <1>6, <1>7, RecorderFacts, UnsavedKeeps

LEMMA RecordKeeps == ASSUME IInv, NEW c \in Calls, NEW size \in Sizes[c], Record(c, size) PROVE IInv'
<1> DEFINE made == [number |-> Total(recorder'), commands |-> commands']
<1>1. /\ Unsaved /\ UNCHANGED <<daemon, promised>>
      /\ call[c].pc = "running" /\ commands' = commands + 1 /\ occurred' = occurred + 1
      /\ recorder' = Recorded(recorder, occurred + 1, size)
      /\ call' = [call EXCEPT ![c].made = made, ![c].records = @ + 1]
      /\ Types /\ Phases /\ call \in [Calls -> CallRecord]
  BY DEF Record, Unsaved, IInv, Types
<1>2. daemon # "down" /\ daemon # "starting" /\ size \in EventSizes
  <2>1. Sizes[c] \in SUBSET EventSizes
    BY SizesOfCalls
  <2>2. daemon # "down" /\ daemon # "starting"
    BY <1>1 DEF Phases, Blank, IdleCall
  <2> QED BY <2>1, <2>2
<1>3. /\ Keeps(recorder') /\ Numbered(origin, recorder')
      /\ commands' \in Nat
      /\ \A s \in Stores : Now(s) <= Now(s)'
      /\ Pairs(origin, recorder'.events)
           \subseteq Pairs(origin, recorder.events) \cup {<<origin + recorder.next, occurred + 1>>}
      /\ made \in Evidence /\ \A s \in Stores : Part(s, made) <= Now(s)'
  BY <1>1, <1>2, OneMore
<1> HIDE DEF made
<1>4. Types'
  <2>1. call' \in [Calls -> CallRecord]
    BY <1>1, <1>3, CallTypes
  <2> QED BY <1>1, <1>2, <1>3, <2>1, RecorderFacts, UnsavedTypes DEF Types
<1>5. /\ call'[c].pc = "running" /\ call'[c].made = made /\ \A x \in Calls \ {c} : call'[x] = call[x]
  BY <1>1 DEF CallRecord
<1>6. ~Waiting(c)
  BY <1>1, NotWaiting
<1>7. ~Current'
  BY <1>5 DEF Current
<1> QED BY <1>1, <1>2, <1>3, <1>4, <1>5, <1>6, <1>7, UnsavedKeeps

LEMMA TransitionKeeps == ASSUME IInv, NEW c \in Calls, RecordTransition(c) PROVE IInv'
<1> DEFINE made == [number |-> Total(recorder'), commands |-> commands']
<1>1. /\ Unsaved /\ UNCHANGED <<daemon, commands, promised>>
      /\ daemon = "open" /\ call[c].pc \in {"idle", "handing"} /\ occurred' = occurred + 1
      /\ recorder' = Recorded(recorder, occurred + 1, "small")
      /\ call' = [call EXCEPT ![c].pc = "handing", ![c].records = @ + 1, ![c].made = made]
      /\ Types /\ Phases /\ call \in [Calls -> CallRecord]
  BY DEF RecordTransition, Unsaved, IInv, Types
<1>3. /\ Keeps(recorder') /\ Numbered(origin, recorder')
      /\ commands' \in Nat
      /\ \A s \in Stores : Now(s) <= Now(s)'
      /\ Pairs(origin, recorder'.events)
           \subseteq Pairs(origin, recorder.events) \cup {<<origin + recorder.next, occurred + 1>>}
      /\ made \in Evidence /\ \A s \in Stores : Part(s, made) <= Now(s)'
  <2>1. "small" \in EventSizes
    BY DEF EventSizes
  <2> QED BY <1>1, <2>1, OneMore
<1> HIDE DEF made
<1>4. Types'
  <2>1. call' \in [Calls -> CallRecord]
    BY <1>1, <1>3, CallTypes
  <2> QED BY <1>1, <1>3, <2>1, RecorderFacts, UnsavedTypes DEF Types
<1>5. /\ call'[c].pc = "handing" /\ call'[c].made = made /\ \A x \in Calls \ {c} : call'[x] = call[x]
  BY <1>1 DEF CallRecord
<1>6. ~Waiting(c)
  BY <1>1, NotWaiting
<1>7. ~Current'
  BY <1>5 DEF Current
<1> QED BY <1>1, <1>3, <1>4, <1>5, <1>6, <1>7, UnsavedKeeps

LEMMA RejectKeeps == ASSUME IInv, NEW c \in Calls, Reject(c) PROVE IInv'
<1>1. /\ Unsaved /\ UNCHANGED <<daemon, recorder, commands, occurred, promised>>
      /\ daemon # "open" /\ call[c].pc = "handing" /\ call' = [call EXCEPT ![c] = IdleCall]
      /\ Types /\ Phases /\ call \in [Calls -> CallRecord]
  BY DEF Reject, Unsaved, IInv, Types
<1>2. daemon # "down" /\ daemon # "starting"
  BY <1>1 DEF Phases, Blank, IdleCall
<1>3. Types'
  <2>1. call' \in [Calls -> CallRecord]
    BY <1>1, CallTypes, IdleTyped DEF NoEvidence
  <2> QED BY <1>1, <2>1, UnsavedTypes DEF Types
<1>4. /\ call'[c].pc = "idle" /\ call'[c].made = NoEvidence /\ \A x \in Calls \ {c} : call'[x] = call[x]
  BY <1>1 DEF IdleCall
<1>5. \A s \in Stores : Part(s, call'[c].made) <= Now(s)'
  BY <1>1, <1>4, NowIsNat DEF Part, NoEvidence, Now
<1>6. ~Waiting(c)
  BY <1>1, NotWaiting
<1>7. ~Current'
  BY <1>1, <1>2 DEF Current
<1>8. \A s \in Stores : Now(s) <= Now(s)'
  BY <1>1, RecorderFacts, <1>2 DEF Now
<1> QED BY <1>1, <1>2, <1>3, <1>4, <1>5, <1>6, <1>7, <1>8, RecorderFacts, UnsavedKeeps

(* An answer promises what the call made only where every file shows it.     *)
LEMMA AnswerKeeps == ASSUME IInv, NEW c \in Calls, Answer(c) PROVE IInv'
<1> DEFINE made == call[c].made
           more == [number |-> Max({promised.number, made.number}),
                    commands |-> Max({promised.commands, made.commands})]
<1>1. /\ Unsaved /\ UNCHANGED <<daemon, recorder, commands, occurred>>
      /\ call[c].pc = "saving" /\ call' = [call EXCEPT ![c] = IdleCall] /\ ~Waiting(c)
      /\ promised' = IF call[c].failed = {} THEN more ELSE promised
      /\ Types /\ Phases /\ call \in [Calls -> CallRecord]
  BY DEF Answer, Unsaved, IInv, Types
<1>2. daemon # "down" /\ daemon # "starting"
  BY <1>1 DEF Phases, Blank, IdleCall
<1>3. /\ promised \in Evidence /\ made \in Evidence
      /\ promised.number \in Nat /\ promised.commands \in Nat
      /\ made.number \in Nat /\ made.commands \in Nat
  BY <1>1 DEF Types, CallRecord, Evidence
<1>4. /\ more \in Evidence
      /\ \A s \in Stores : Part(s, more) = Part(s, promised) \/ Part(s, more) = Part(s, made)
  BY <1>3, MaxOfTwo DEF Evidence, Part
<1> HIDE DEF more, made
<1>5. Types'
  <2>1. call' \in [Calls -> CallRecord]
    BY <1>1, CallTypes, IdleTyped DEF NoEvidence
  <2> QED BY <1>1, <1>3, <1>4, <2>1, UnsavedTypes DEF Types
<1>6. /\ call'[c].pc = "idle" /\ call'[c].made = NoEvidence /\ \A x \in Calls \ {c} : call'[x] = call[x]
  BY <1>1 DEF IdleCall
<1>7. \A s \in Stores : Part(s, call'[c].made) <= Now(s)'
  BY <1>1, <1>6, NowIsNat DEF Part, NoEvidence, Now
<1>8. Current' => Current
  BY <1>1, <1>6 DEF Current
<1>9. \A s \in Stores : Now(s) <= Now(s)'
  BY <1>1, RecorderFacts, <1>2 DEF Now
<1>10. ASSUME NEW s \in Stores PROVE promised' = promised \/ Disposable \/ Shows(s, promised')
  <2> SUFFICES ASSUME call[c].failed = {}, ~Disposable PROVE Shows(s, more)
    BY <1>1
  <2>1. Shows(s, made)
    BY <1>1 DEF IInv, Answers, CallFits, Waiting, made
  <2>2. CASE promised = NoEvidence
    <3>1. Part(s, promised) = 0
      BY <2>2 DEF Part, NoEvidence
    <3>2. \A f \in Files(s) : disk[f] # None /\ Mark(s, disk[f]) \in Nat
      BY <1>1, <2>1, ContentFacts DEF Shows, Types
    <3> QED BY <1>4, <2>1, <3>1, <3>2 DEF Shows
  <2>3. CASE promised # NoEvidence
    <3>1. Shows(s, promised)
      BY <2>3 DEF IInv, Answers
    <3> QED BY <1>4, <2>1, <3>1 DEF Shows
  <2> QED BY <2>2, <2>3
<1> QED BY <1>1, <1>2, <1>5, <1>6, <1>7, <1>8, <1>9, <1>10, RecorderFacts, UnsavedKeeps

-----------------------------------------------------------------------------
(* Steps that save.                                                         *)
LEMMA SavedKeeps ==
  ASSUME IInv, Types', Phases', NEW who \in Savers, Saved(who, recorder', commands'),
         UNCHANGED <<left, swept, disk, failures, published, promised>>,
         daemon' # "down", origin' \in Nat, Disposable => origin' = 0, Numbered(origin', recorder'),
         \/ origin' = origin
         \/ /\ \A s \in Stores : queue[s] = <<>>
            /\ disk["json"] # None => disk["json"].events = <<>>,
         \/ daemon # "down" /\ (daemon' \in {"starting", "open"} => daemon \in {"starting", "open"})
         \/ \A s \in Stores : queue[s] = <<>> /\ left[s] = {},
         \A s \in Stores : \A i \in DOMAIN queue[s] : Mark(s, queue[s][i].what) <= Now(s)',
         ~Disposable => \A s \in Stores : Shown(s) <= Now(s)',
         \A c \in Calls : \/ call'[c] = call[c]
                          \/ /\ c = who /\ call'[c].pc = "saving" /\ call'[c].made = call[c].made
                             /\ call'[c].failed = call[c].failed,
         who \in Calls => call'[who].pc = "saving",
         \A c \in Calls : \A s \in Stores : Part(s, call'[c].made) <= Now(s)',
         ~Disposable => \E n, what : /\ \A x \in Known : x[1] # n
                                    /\ Pairs(origin', recorder'.events) \subseteq Known \cup {<<n, what>>}
  PROVE  IInv'
<1>1. /\ Types /\ Types' /\ Phases' /\ Keeps(recorder') /\ commands' \in Nat
  BY DEF IInv, Types, Phases
<1>2. /\ \A s \in Stores :
           /\ [who |-> who, what |-> Taken(s, recorder', commands')] \in Write(s)
           /\ queue'[s] = Append(queue[s], [who |-> who, what |-> Taken(s, recorder', commands')])
           /\ queue'[s] \in Seq(Write(s))
  BY <1>1, SavedFacts
<1>3. ASSUME NEW s \in Stores
      PROVE  /\ queue[s] \in Seq(Write(s)) /\ Len(queue[s]) \in Nat
             /\ DOMAIN queue[s] = 1..Len(queue[s]) /\ DOMAIN queue'[s] = 1..(Len(queue[s]) + 1)
             /\ Len(queue'[s]) = Len(queue[s]) + 1 /\ queue'[s] # <<>>
             /\ \A i \in 1..Len(queue[s]) : queue'[s][i] = queue[s][i]
             /\ queue'[s][Len(queue[s]) + 1].who = who
             /\ queue'[s][Len(queue[s]) + 1].what = Taken(s, recorder', commands')
             /\ Mark(s, queue'[s][Len(queue[s]) + 1].what) = Now(s)'
  <2>1. queue[s] \in Seq(Write(s))
    BY <1>1 DEF Types
  <2>2. queue'[s] = Append(queue[s], [who |-> who, what |-> Taken(s, recorder', commands')])
    BY <1>2
  <2>3. Mark(s, Taken(s, recorder', commands')) = Now(s)'
    BY <1>1, TakenFacts DEF Now
  <2>4. /\ Len(queue[s]) \in Nat /\ DOMAIN queue[s] = 1..Len(queue[s])
        /\ Len(queue'[s]) = Len(queue[s]) + 1 /\ queue'[s] # <<>>
        /\ \A i \in 1..Len(queue[s]) : queue'[s][i] = queue[s][i]
        /\ queue'[s][Len(queue[s]) + 1] = [who |-> who, what |-> Taken(s, recorder', commands')]
    BY <1>2, <2>1, <2>2, AppendFacts
  <2>5. DOMAIN queue'[s] = 1..(Len(queue[s]) + 1)
    BY <1>2, <2>4, QueueFacts
  <2> QED BY <2>1, <2>3, <2>4, <2>5
<1>4. Places'
  <2> SUFFICES ASSUME ~Disposable PROVE Places'
    BY DEF Places
  <2>1. PICK n, what : /\ \A x \in Known : x[1] # n
                       /\ Pairs(origin', recorder'.events) \subseteq Known \cup {<<n, what>>}
    OBVIOUS
  <2>2. Queued' \subseteq Queued \cup Pairs(origin', recorder'.events)
    <3> SUFFICES ASSUME NEW i \in 1..(Len(queue["trace"]) + 1),
                        NEW x \in Pairs(origin', queue'["trace"][i].what.events)
                 PROVE  x \in Queued \cup Pairs(origin', recorder'.events)
      BY <1>3, StoreFacts DEF Queued
    <3>1. CASE i \in 1..Len(queue["trace"])
      <4>1. origin' = origin
        BY <3>1, StoreFacts
      <4>2. queue'["trace"][i] = queue["trace"][i] /\ i \in DOMAIN queue["trace"]
        BY <1>3, <3>1, StoreFacts
      <4> QED BY <4>1, <4>2 DEF Queued
    <3>2. CASE i = Len(queue["trace"]) + 1
      <4>1. queue'["trace"][i].what = Exported(recorder')
        BY <1>3, <3>2, StoreFacts DEF Taken
      <4>2. Pairs(origin', Exported(recorder').events) \subseteq Pairs(origin', recorder'.events)
        BY <1>1, ExportedIsWhole
      <4> QED BY <4>1, <4>2
    <3>3. Len(queue["trace"]) \in Nat
      BY <1>3, StoreFacts
    <3> QED BY <3>1, <3>2, <3>3
  <2>3. Known' \subseteq Known \cup {<<n, what>>} /\ Shelved' = Shelved
    <3>1. Shelved' = Shelved
      BY DEF Shelved
    <3> QED BY <2>1, <2>2, <3>1 DEF Known
  <2>4. Agree(Known)
    BY DEF IInv, Places
  <2>5. Agree(Known')
    <3> DEFINE K == Known
               L == Known'
    <3>1. Agree(K) /\ (\A x \in K : x[1] # n) /\ L \subseteq K \cup {<<n, what>>}
      BY <2>1, <2>3, <2>4
    <3> HIDE DEF K, L
    <3>2. Agree(L)
      BY <3>1 DEF Agree
    <3> QED BY <3>2 DEF L
  <2>6. disk["json"] # None => Pairs(origin', disk["json"].events) \subseteq Shelved
    <3>1. CASE origin' = origin
      BY <3>1 DEF IInv, Places
    <3>2. CASE disk["json"] # None => disk["json"].events = <<>>
      BY <3>2 DEF Pairs
    <3> QED BY <3>1, <3>2
  <2> QED BY <2>3, <2>5, <2>6 DEF IInv, Places
<1>6. Numbering'
  <2>1. ASSUME NEW i \in 1..(Len(queue["trace"]) + 1) PROVE Fits(queue["trace"][i].what)'
    <3>1. CASE i \in 1..Len(queue["trace"])
      <4>1. origin' = origin
        BY <3>1, StoreFacts
      <4>2. queue'["trace"][i] = queue["trace"][i] /\ i \in DOMAIN queue["trace"]
        BY <1>3, <3>1, StoreFacts
      <4> QED BY <4>1, <4>2 DEF IInv, Numbering, Fits
    <3>2. CASE i = Len(queue["trace"]) + 1
      <4>1. queue'["trace"][i].what = Exported(recorder')
        BY <1>3, <3>2, StoreFacts DEF Taken
      <4>2. Gapless(origin', recorder'.omitted, recorder'.events)
        BY DEF Numbered
      <4>3. Gapless(origin', Exported(recorder').omitted, Exported(recorder').events)
        BY <1>1, <4>2, ExportedIsWhole
      <4> QED BY <4>1, <4>3 DEF Fits
    <3>3. Len(queue["trace"]) \in Nat
      BY <1>3, StoreFacts
    <3> QED BY <3>1, <3>2, <3>3
  <2>2. disk["json"] # None => Fits(disk["json"])'
    <3>1. CASE origin' = origin
      BY <3>1 DEF IInv, Numbering, Fits
    <3>2. CASE disk["json"] # None => disk["json"].events = <<>>
      BY <3>2 DEF Fits, Gapless
    <3> QED BY <3>1, <3>2
  <2>3. DOMAIN queue'["trace"] = 1..(Len(queue["trace"]) + 1)
    BY <1>3, StoreFacts
  <2> QED BY <2>1, <2>2, <2>3 DEF Numbering
<1>5. ASSUME NEW s \in Stores PROVE Ordered(s)' /\ Writing(s)' /\ Latest(s)' /\ Answers(s)'
  <2> DEFINE n == Len(queue[s])
  <2>1. /\ n \in Nat /\ DOMAIN queue[s] = 1..n /\ DOMAIN queue'[s] = 1..(n + 1)
        /\ Len(queue'[s]) = n + 1 /\ queue'[s] # <<>>
        /\ \A i \in 1..n : queue'[s][i] = queue[s][i] /\ Mark(s, queue'[s][i].what) <= Now(s)'
        /\ queue'[s][n + 1].who = who /\ queue'[s][n + 1].what = Taken(s, recorder', commands')
        /\ Mark(s, queue'[s][n + 1].what) = Now(s)'
        /\ (queue[s] = <<>> <=> n = 0)
    BY <1>3, QueueFacts
  <2> HIDE DEF n
  <2>2. /\ Ordered(s) /\ Writing(s) /\ Answers(s)
        /\ left'[s] = left[s] /\ disk' = disk /\ Shown(s)' = Shown(s) /\ Now(s)' \in Nat
    <3>1. Now(s)' \in Nat
      BY <1>1, TakenFacts DEF Now
    <3> QED BY <3>1 DEF IInv, Shown
  <2>3. \A i \in 1..(n + 1) : i \in 1..n \/ i = n + 1
    BY <2>1
  <2>4. Ordered(s)'
    <3>1. \A i \in 1..(n + 1) : Mark(s, queue'[s][i].what) <= Now(s)'
      BY <2>1, <2>2, <2>3
    <3>2. \A i, j \in 1..(n + 1) : i < j => Mark(s, queue'[s][i].what) <= Mark(s, queue'[s][j].what)
      <4> SUFFICES ASSUME NEW i \in 1..(n + 1), NEW j \in 1..(n + 1), i < j
                   PROVE  Mark(s, queue'[s][i].what) <= Mark(s, queue'[s][j].what)
        OBVIOUS
      <4>1. CASE j = n + 1
        BY <2>1, <3>1, <4>1
      <4>2. CASE j \in 1..n
        <5>1. i \in 1..n
          BY <2>1, <4>2
        <5>2. Mark(s, queue[s][i].what) <= Mark(s, queue[s][j].what)
          BY <2>1, <2>2, <4>2, <5>1, Zenon DEF Ordered
        <5> QED BY <2>1, <4>2, <5>1, <5>2
      <4> QED BY <2>3, <4>1, <4>2
    <3>3. ASSUME ~Disposable
          PROVE  Shown(s) <= Now(s)' /\ \A i \in 1..(n + 1) : Shown(s) <= Mark(s, queue'[s][i].what)
      <4>1. Shown(s) <= Now(s)'
        BY <3>3
      <4>2. ASSUME NEW i \in 1..n PROVE Shown(s) <= Mark(s, queue'[s][i].what)
        <5>1. daemon # "down"
          BY <2>1
        <5> QED BY <2>1, <2>2, <3>3, <5>1 DEF Ordered
      <4> QED BY <2>1, <2>3, <4>1, <4>2
    <3> QED BY <2>1, <2>2, <3>1, <3>2, <3>3 DEF Ordered
  <2>5. Writing(s)'
    <3> SUFFICES ASSUME left[s] # {} PROVE Writing(s)'
      BY <2>2 DEF Writing
    <3>1. queue[s] # <<>> /\ 1 \in 1..n /\ queue'[s][1] = queue[s][1]
      BY <2>1, <2>2 DEF Writing
    <3> QED BY <2>1, <2>2, <3>1 DEF Writing
  <2>6. Latest(s)'
    BY <2>1 DEF Latest, Value
  <2>7. ASSUME NEW c \in Calls PROVE CallFits(s, c)'
    <3>1. CASE call'[c] = call[c] /\ c # who
      <4>1. CallFits(s, c)
        BY <2>2 DEF Answers
      <4>2. ASSUME NEW i \in 1..n PROVE queue'[s][i].who = queue[s][i].who /\ i \in 1..(n + 1)
        BY <2>1
      <4> QED BY <2>1, <2>2, <3>1, <4>1, <4>2 DEF CallFits, Shows
    <3>2. CASE c = who
      <4>1. n + 1 \in 1..(n + 1)
        BY <2>1
      <4> QED BY <2>1, <3>2, <4>1 DEF CallFits
    <3> QED BY <3>1, <3>2
  <2>8. ASSUME NEW i \in 1..(n + 1), queue'[s][i].who \in Calls
        PROVE  /\ call'[queue'[s][i].who].pc = "saving"
               /\ Part(s, call'[queue'[s][i].who].made) <= Mark(s, queue'[s][i].what)
    <3>1. CASE i = n + 1
      BY <2>1, <2>8, <3>1
    <3>2. CASE i \in 1..n
      <4>1. /\ queue'[s][i] = queue[s][i]
            /\ call[queue[s][i].who].pc = "saving"
            /\ Part(s, call[queue[s][i].who].made) <= Mark(s, queue[s][i].what)
        BY <2>1, <2>2, <2>8, <3>2 DEF Answers
      <4> QED BY <2>8, <4>1
    <3> QED BY <2>3, <3>1, <3>2
  <2>9. ~Disposable /\ promised' # NoEvidence => Shows(s, promised)'
    BY <2>2 DEF Answers, Shows
  <2>10. Answers(s)'
    BY <2>1, <2>7, <2>8, <2>9 DEF Answers
  <2> QED BY <2>4, <2>5, <2>6, <2>10
<1> QED BY <1>1, <1>4, <1>5, <1>6 DEF IInv

LEMMA SavedTypes ==
  ASSUME Types, NEW who \in Savers, Keeps(recorder'), commands' \in Nat,
         Saved(who, recorder', commands'), occurred' \in Nat,
         UNCHANGED <<left, swept, disk, failures, published, promised>>,
         daemon' \in {"down", "starting", "open", "ending", "closed"}, call' \in [Calls -> CallRecord]
  PROVE  Types'
<1>1. /\ queue' = [s \in Stores |-> queue'[s]]
      /\ \A s \in Stores : queue'[s] \in Seq(Write(s))
  BY SavedFacts
<1> QED BY <1>1 DEF Types

LEMMA MarksSoFar ==
  ASSUME IInv, \A s \in Stores : Now(s) <= Now(s)' /\ Now(s)' \in Nat
  PROVE  \A s \in Stores : \A i \in DOMAIN queue[s] : Mark(s, queue[s][i].what) <= Now(s)'
<1> SUFFICES ASSUME NEW s \in Stores, NEW i \in DOMAIN queue[s]
             PROVE  Mark(s, queue[s][i].what) <= Now(s)'
  OBVIOUS
<1>1. Types /\ Ordered(s) /\ Now(s) \in Nat
  BY NowIsNat DEF IInv
<1>2. Mark(s, queue[s][i].what) \in Nat
  BY <1>1, QueueFacts DEF Types
<1>3. Mark(s, queue[s][i].what) <= Now(s)
  BY <1>1 DEF Ordered
<1> QED BY <1>1, <1>2, <1>3

LEMMA ShownSoFar ==
  ASSUME IInv, daemon # "down", ~Disposable, \A s \in Stores : Now(s) <= Now(s)' /\ Now(s)' \in Nat
  PROVE  \A s \in Stores : Shown(s) <= Now(s)'
<1> SUFFICES ASSUME NEW s \in Stores PROVE Shown(s) <= Now(s)'
  OBVIOUS
<1>1. Types /\ Ordered(s) /\ Now(s) \in Nat
  BY NowIsNat DEF IInv
<1>2. disk[Main(s)] \in {None} \cup Contents(s)
  BY <1>1, StoreFacts DEF Types
<1>3. Shown(s) \in Nat
  BY <1>2, ContentFacts DEF Shown
<1>4. Shown(s) <= Now(s)
  BY <1>1 DEF Ordered
<1> QED BY <1>1, <1>3, <1>4

LEMMA MadeSoFar ==
  ASSUME IInv, \A s \in Stores : Now(s) <= Now(s)' /\ Now(s)' \in Nat
  PROVE  \A c \in Calls : \A s \in Stores : Part(s, call[c].made) <= Now(s)'
<1> SUFFICES ASSUME NEW c \in Calls, NEW s \in Stores PROVE Part(s, call[c].made) <= Now(s)'
  OBVIOUS
<1>1. /\ Types /\ Now(s) \in Nat /\ Part(s, call[c].made) <= Now(s)
  BY NowIsNat DEF IInv, Answers, CallFits
<1>2. Part(s, call[c].made) \in Nat
  BY <1>1 DEF Types, CallRecord, Evidence, Part
<1> QED BY <1>1, <1>2

LEMMA SaveKeeps == ASSUME IInv, NEW c \in Calls, Save(c) PROVE IInv'
<1>1. /\ UNCHANGED <<daemon, recorder, commands, left, swept, failures, disk, occurred, promised,
                     origin, published>>
      /\ call[c].pc \in {"running", "handing"} /\ call' = [call EXCEPT ![c].pc = "saving"]
      /\ Saved(c, recorder', commands')
      /\ Types /\ Phases /\ call \in [Calls -> CallRecord] /\ c \in Savers
  BY DEF Save, IInv, Types, Savers
<1>2. daemon # "down" /\ daemon # "starting"
  BY <1>1 DEF Phases, Blank, IdleCall
<1>3. /\ call'[c].pc = "saving" /\ call'[c].made = call[c].made /\ call'[c].failed = call[c].failed
      /\ \A x \in Calls \ {c} : call'[x] = call[x]
  BY <1>1 DEF CallRecord
<1>4. Types'
  <2>1. call' \in [Calls -> CallRecord]
    BY <1>1, CallTypes, IdleTyped DEF NoEvidence
  <2> QED BY <1>1, <1>2, <2>1, RecorderFacts, SavedTypes DEF Types
<1>5. Phases'
  BY <1>1, <1>2, RecorderFacts DEF Phases
<1>6. \A s \in Stores : Now(s) <= Now(s)' /\ Now(s)' \in Nat
  BY <1>1, <1>2, NowIsNat, RecorderFacts DEF Now
<1>7. \A x \in Calls : \A s \in Stores : Part(s, call'[x].made) <= Now(s)'
  BY <1>3, <1>6, MadeSoFar
<1>8. ASSUME ~Disposable
      PROVE  \E n, what : /\ \A x \in Known : x[1] # n
                          /\ Pairs(origin', recorder'.events) \subseteq Known \cup {<<n, what>>}
  <2>1. \A x \in Known : x[1] # origin + recorder.next
    BY <1>2, <1>8, FreshPlace
  <2>2. Pairs(origin', recorder'.events) \subseteq Known \cup {<<origin + recorder.next, 0>>}
    BY <1>1 DEF Known
  <2> QED BY <2>1, <2>2
<1>11. origin' \in Nat /\ (Disposable => origin' = 0) /\ Numbered(origin', recorder')
  BY <1>1, <1>2, RecorderFacts DEF IInv, Numbering
<1>9. \A s \in Stores : \A i \in DOMAIN queue[s] : Mark(s, queue[s][i].what) <= Now(s)'
  BY <1>6, MarksSoFar
<1>10. ~Disposable => \A s \in Stores : Shown(s) <= Now(s)'
  BY <1>2, <1>6, ShownSoFar
<1> QED BY <1>1, <1>2, <1>3, <1>4, <1>5, <1>7, <1>8, <1>9, <1>10, <1>11, SavedKeeps

LEMMA CloseKeeps == IInv /\ Close => IInv'
<1> SUFFICES ASSUME IInv, Close PROVE IInv'
  OBVIOUS
<1>1. /\ UNCHANGED <<call, left, swept, failures, disk, promised, origin, published>>
      /\ daemon = "open" /\ daemon' = "ending" /\ commands' = commands
      /\ recorder' = Recorded(recorder, occurred + 1, "small") /\ occurred' = occurred + 1
      /\ Saved("close", recorder', commands')
      /\ Types /\ Phases /\ call \in [Calls -> CallRecord]
      /\ "close" \in Savers /\ "close" \notin Calls
  BY SaversAreTold DEF Close, IInv, Types, Savers
<1>2. /\ Keeps(recorder') /\ Numbered(origin, recorder') /\ commands' \in Nat
      /\ \A s \in Stores : Now(s) <= Now(s)'
      /\ Pairs(origin, recorder'.events)
           \subseteq Pairs(origin, recorder.events) \cup {<<origin + recorder.next, occurred + 1>>}
  <2>1. "small" \in EventSizes
    BY DEF EventSizes
  <2> QED BY <1>1, <2>1, OneMore
<1>3. Types'
  BY <1>1, <1>2, RecorderFacts, SavedTypes DEF Types
<1>4. Phases'
  BY <1>1, <1>2 DEF Phases
<1>5. \A s \in Stores : Now(s) <= Now(s)' /\ Now(s)' \in Nat
  BY <1>2, TakenFacts DEF Now
<1>6. \A x \in Calls : \A s \in Stores : Part(s, call'[x].made) <= Now(s)'
  BY <1>1, <1>5, MadeSoFar
<1>7. ASSUME ~Disposable
      PROVE  \E n, what : /\ \A x \in Known : x[1] # n
                          /\ Pairs(origin', recorder'.events) \subseteq Known \cup {<<n, what>>}
  <2>1. \A x \in Known : x[1] # origin + recorder.next
    BY <1>1, <1>7, FreshPlace
  <2>2. Pairs(origin', recorder'.events) \subseteq Known \cup {<<origin + recorder.next, occurred + 1>>}
    BY <1>1, <1>2 DEF Known
  <2> QED BY <2>1, <2>2
<1>10. origin' \in Nat /\ (Disposable => origin' = 0) /\ Numbered(origin', recorder')
  BY <1>1, <1>2, RecorderFacts DEF IInv, Numbering
<1>8. \A s \in Stores : \A i \in DOMAIN queue[s] : Mark(s, queue[s][i].what) <= Now(s)'
  BY <1>5, MarksSoFar
<1>9. ~Disposable => \A s \in Stores : Shown(s) <= Now(s)'
  BY <1>1, <1>5, ShownSoFar
<1> QED BY <1>1, <1>2, <1>3, <1>4, <1>6, <1>7, <1>8, <1>9, <1>10, SavedKeeps

(* A daemon that starts knows only what is on disk, and numbers go on after *)
(* it.                                                                      *)
LEMMA StartKeeps == IInv /\ Start => IInv'
<1> SUFFICES ASSUME IInv, Start PROVE IInv'
  OBVIOUS
<1>1. /\ UNCHANGED <<call, left, swept, failures, disk, promised, published>>
      /\ daemon = "down" /\ daemon' = "starting" /\ occurred' = occurred + 1
      /\ Types /\ Phases /\ Numbering /\ Places /\ call \in [Calls -> CallRecord]
      /\ "start" \in Savers /\ "start" \notin Calls /\ occurred + 1 \in Nat
  BY SaversAreTold DEF Start, IInv, Types, Savers
<1>2. /\ Keeps(recorder') /\ Total(recorder') = Total(Found) + 1
      /\ origin' \in Nat /\ (Disposable => origin' = 0)
      /\ Numbered(origin', Found) /\ Numbered(origin', recorder')
      /\ \/ origin' = origin
         \/ ~Disposable /\ disk["json"] # None => disk["json"].events = <<>>
      /\ Pairs(origin', recorder'.events)
           \subseteq Pairs(origin', Found.events) \cup {<<origin' + Found.next, occurred + 1>>}
      /\ commands' = CountFound /\ Saved("start", recorder', commands')
  BY <1>1, StartFacts
<1>3. /\ Keeps(Found) /\ CountFound \in Nat /\ Total(Found) \in Nat
      /\ ~Disposable => Total(Found) = Shown("trace") /\ CountFound = Shown("metrics")
  BY <1>1, FoundKeeps, KeptFacts
<1>4. /\ \A c \in Calls : call[c] = IdleCall
      /\ \A s \in Stores : queue[s] = <<>> /\ left[s] = {}
      /\ recorder = EmptyRecorder
  BY <1>1 DEF Phases, Blank
<1>5. Types'
  BY <1>1, <1>2, <1>3, SavedTypes
<1>6. Phases'
  BY <1>1, <1>2, <1>4 DEF Phases
<1>7. \A s \in Stores : Now(s)' \in Nat
  BY <1>2, <1>3, TakenFacts DEF Now
<1>8. \A c \in Calls : \A s \in Stores : Part(s, call'[c].made) <= Now(s)'
  BY <1>1, <1>4, <1>7 DEF Part, IdleCall, NoEvidence
<1>9. ASSUME ~Disposable PROVE \A s \in Stores : Shown(s) <= Now(s)'
  <2>1. Now("trace")' = Total(recorder') /\ Now("metrics")' = commands'
    BY DEF Now, Reached
  <2>2. /\ Total(Found) \in Nat /\ Total(Found) = Shown("trace") /\ Total(recorder') = Total(Found) + 1
        /\ commands' = Shown("metrics") /\ commands' \in Nat
    BY <1>2, <1>3, <1>9
  <2>3. Shown("trace") <= Now("trace")' /\ Shown("metrics") <= Now("metrics")'
    BY <2>1, <2>2
  <2> QED BY <2>3 DEF Stores
<1>10. ASSUME ~Disposable
       PROVE  \E n, what : /\ \A x \in Known : x[1] # n
                           /\ Pairs(origin', recorder'.events) \subseteq Known \cup {<<n, what>>}
  <2>1. Known = Shelved
    <3>1. Pairs(origin, recorder.events) = {} /\ Queued = {}
      BY <1>4, StoreFacts DEF Pairs, EmptyRecorder, Queued
    <3> QED BY <3>1 DEF Known
  <2>2. disk["json"] \in {None} \cup Contents("trace")
    BY <1>1, StoreFacts DEF Types, Files
  <2>3. origin' + Found.next = Total(Found) + 1
    BY <1>2 DEF Numbered
  <2>4. \A x \in Shelved : x[1] # origin' + Found.next
    <3> SUFFICES ASSUME NEW x \in Shelved PROVE x[1] # origin' + Found.next
      OBVIOUS
    <3>1. disk["json"] # None /\ x[1] \in Nat /\ x[1] <= Total(disk["json"])
      BY <1>1, <1>10 DEF Places
    <3>2. Shown("trace") = Total(disk["json"])
      BY <3>1 DEF Shown, Main, Mark
    <3> QED BY <1>3, <1>10, <2>3, <3>1, <3>2
  <2>5. Pairs(origin', Found.events) \subseteq Shelved
    <3>1. CASE disk["json"] = None
      BY <3>1 DEF Found, EmptyRecorder, Pairs
    <3>2. CASE disk["json"] # None /\ Found.events = <<>>
      BY <3>2 DEF Pairs
    <3>3. CASE disk["json"] # None /\ Found.events # <<>>
      <4>1. origin' = origin
        BY <3>3 DEF Start, Found
      <4>2. Pairs(origin, Found.events) \subseteq Pairs(origin, disk["json"].events)
        BY <1>1, <1>10, <3>3, FoundKeeps
      <4>3. Pairs(origin, disk["json"].events) \subseteq Shelved
        BY <1>1, <1>10, <3>3 DEF Places
      <4> QED BY <4>1, <4>2, <4>3
    <3> QED BY <3>1, <3>2, <3>3
  <2>6. Pairs(origin', recorder'.events) \subseteq Known \cup {<<origin' + Found.next, occurred + 1>>}
    BY <1>2, <2>1, <2>5
  <2> QED BY <2>1, <2>4, <2>6
<1>12. \/ origin' = origin
       \/ /\ \A s \in Stores : queue[s] = <<>>
          /\ disk["json"] # None => disk["json"].events = <<>>
  BY <1>1, <1>2, <1>4 DEF Numbering
<1>11. \A s \in Stores : \A i \in DOMAIN queue[s] : Mark(s, queue[s][i].what) <= Now(s)'
  BY <1>4
<1> QED BY <1>1, <1>2, <1>4, <1>5, <1>6, <1>8, <1>9, <1>10, <1>11, <1>12, SavedKeeps

-----------------------------------------------------------------------------
(* Steps of the disk.  A store that a step leaves alone is as it was, even  *)
(* when a write of the other one fails.                                     *)
LEMMA StoreFrame ==
  ASSUME IInv, NEW t \in Stores, queue'[t] = queue[t], failures'[t] = failures[t],
         \A f \in Files(t) : disk'[f] = disk[f],
         UNCHANGED <<daemon, recorder, commands, promised>>,
         \A c \in Calls : /\ call'[c].pc = call[c].pc /\ call'[c].made = call[c].made
                          /\ call[c].failed \subseteq call'[c].failed
  PROVE  /\ Ordered(t)' /\ Latest(t)' /\ Answers(t)'
         /\ left'[t] = left[t] => Writing(t)'
<1>1. Ordered(t) /\ Latest(t) /\ Answers(t) /\ Writing(t)
  BY DEF IInv
<1>2. Now(t)' = Now(t) /\ Value(t)' = Value(t) /\ (Current' => Current)
  BY DEF Now, Value, Current
<1>3. disk'[Main(t)] = disk[Main(t)]
  BY StoreFacts
<1>4. Shown(t)' = Shown(t)
  BY <1>3 DEF Shown
<1>5. Ordered(t)'
  BY <1>1, <1>2, <1>4 DEF Ordered
<1>6. Latest(t)'
  BY <1>1, <1>2 DEF Latest
<1>7. ASSUME NEW e, Shows(t, e) PROVE Shows(t, e)'
  BY <1>7 DEF Shows
<1>8. ASSUME NEW c \in Calls PROVE CallFits(t, c)'
  <2>1. CallFits(t, c)
    BY <1>1 DEF Answers
  <2>2. Shows(t, call[c].made) => Shows(t, call[c].made)'
    BY DEF Shows
  <2> QED BY <1>2, <2>1, <2>2 DEF CallFits, Shows
<1>9. ASSUME NEW i \in DOMAIN queue[t], queue[t][i].who \in Calls
      PROVE  /\ call'[queue[t][i].who].pc = "saving"
             /\ Part(t, call'[queue[t][i].who].made) <= Mark(t, queue[t][i].what)
  BY <1>1, <1>9 DEF Answers
<1>10. ~Disposable /\ promised' # NoEvidence => Shows(t, promised)'
  BY <1>1 DEF Answers, Shows
<1>11. Answers(t)'
  BY <1>8, <1>9, <1>10 DEF Answers
<1>12. left'[t] = left[t] => Writing(t)'
  BY <1>1 DEF Writing
<1> QED BY <1>5, <1>6, <1>11, <1>12

LEMMA BeginWriteKeeps == ASSUME IInv, NEW s \in Stores, BeginWrite(s) PROVE IInv'
<1>1. /\ UNCHANGED <<daemon, call, recorder, commands, queue, swept, failures, disk, occurred,
                     promised, origin, published>>
      /\ queue[s] # <<>> /\ left' = [left EXCEPT ![s] = Files(s)]
      /\ Types /\ Phases
  BY DEF BeginWrite, IInv
<1>2. left' \in [Stores -> SUBSET AllFiles] /\ \A t \in Stores : left'[t] \subseteq Files(t)
  BY <1>1, StoreFacts DEF Types
<1>3. Types'
  BY <1>1, <1>2 DEF Types
<1>4. Phases'
  BY <1>1 DEF Phases, Blank
<1>5. Numbering' /\ Places'
  BY <1>1 DEF IInv, Numbering, Fits, Places, Known, Queued, Shelved
<1>6. ASSUME NEW t \in Stores PROVE Ordered(t)' /\ Writing(t)' /\ Latest(t)' /\ Answers(t)'
  <2>1. /\ Ordered(t)' /\ Latest(t)' /\ Answers(t)'
        /\ left'[t] = left[t] => Writing(t)'
    BY <1>1, StoreFrame
  <2>2. CASE t # s
    BY <1>1, <2>1, <2>2 DEF Types
  <2>3. CASE t = s
    <3>1. left'[s] = Files(s) /\ queue'[s] # <<>>
      BY <1>1 DEF Types
    <3>2. Writing(t)'
      BY <2>3, <3>1 DEF Writing
    <3> QED BY <2>1, <3>2
  <2> QED BY <2>2, <2>3
<1> QED BY <1>3, <1>4, <1>5, <1>6 DEF IInv

(* A process that writes is up, and its store shows no more than any write. *)
LEMMA WriterFacts ==
  ASSUME IInv, NEW s \in Stores, left[s] # {}
  PROVE  /\ daemon # "down" /\ queue[s] # <<>> /\ queue[s] \in Seq(Write(s))
         /\ Len(queue[s]) \in Nat \ {0} /\ DOMAIN queue[s] = 1..Len(queue[s])
         /\ 1 \in DOMAIN queue[s] /\ Head(queue[s]) = queue[s][1]
         /\ queue[s][1].what \in Contents(s) /\ Mark(s, queue[s][1].what) \in Nat
         /\ \A i \in DOMAIN queue[s] : Mark(s, queue[s][i].what) >= Mark(s, queue[s][1].what)
         /\ Now(s) \in Nat /\ Mark(s, queue[s][1].what) <= Now(s)
<1>1. /\ Types /\ Phases /\ Writing(s) /\ Ordered(s) /\ Now(s) \in Nat
  BY NowIsNat DEF IInv
<1>2. queue[s] # <<>> /\ queue[s] \in Seq(Write(s))
  BY <1>1 DEF Types, Writing
<1>3. daemon # "down"
  BY <1>1 DEF Phases, Blank
<1>4. /\ Len(queue[s]) \in Nat \ {0} /\ DOMAIN queue[s] = 1..Len(queue[s]) /\ 1 \in DOMAIN queue[s]
      /\ \A i \in DOMAIN queue[s] : queue[s][i].what \in Contents(s) /\ Mark(s, queue[s][i].what) \in Nat
  BY <1>2, QueueFacts
<1>5. Head(queue[s]) = queue[s][1]
  BY <1>2
<1>6. ASSUME NEW i \in DOMAIN queue[s] PROVE Mark(s, queue[s][i].what) >= Mark(s, queue[s][1].what)
  <2>1. CASE i = 1
    BY <1>4, <2>1
  <2>2. CASE i # 1
    <3>1. 1 < i
      BY <1>4, <2>2
    <3>2. Mark(s, queue[s][1].what) <= Mark(s, queue[s][i].what)
      BY <1>1, <1>4, <3>1, Zenon DEF Ordered
    <3> QED BY <1>4, <3>2
  <2> QED BY <2>1, <2>2
<1>7. Mark(s, queue[s][1].what) <= Now(s)
  BY <1>1, <1>4 DEF Ordered
<1> QED BY <1>1, <1>2, <1>3, <1>4, <1>5, <1>6, <1>7

(* A write that ends makes way for the next.                                *)
LEMMA ShorterFacts ==
  ASSUME IInv, NEW s \in Stores, left[s] # {}, queue'[s] = Tail(queue[s])
  PROVE  /\ \A i \in DOMAIN queue'[s] : i + 1 \in DOMAIN queue[s] /\ queue'[s][i] = queue[s][i + 1]
         /\ \A j \in DOMAIN queue[s] :
              j = 1 \/ (j - 1 \in DOMAIN queue'[s] /\ queue'[s][j - 1] = queue[s][j])
         /\ queue'[s] = <<>> => Len(queue[s]) = 1
         /\ queue'[s] # <<>> => queue'[s][Len(queue'[s])] = queue[s][Len(queue[s])]
<1> DEFINE q == queue[s]
           n == Len(q)
           p == queue'[s]
<1>1. q \in Seq(Write(s)) /\ q # <<>> /\ n \in Nat \ {0} /\ DOMAIN q = 1..n
  BY WriterFacts
<1>2. /\ p \in Seq(Write(s)) /\ Len(p) = n - 1 /\ \A i \in 1..n - 1 : p[i] = q[i + 1]
  BY <1>1, TailFacts
<1>3. DOMAIN p = 1..n - 1 /\ (p = <<>> <=> Len(p) = 0)
  BY <1>2, QueueFacts
<1> HIDE DEF p, n
<1>4. ASSUME NEW i \in 1..n - 1 PROVE i + 1 \in 1..n /\ p[i] = q[i + 1]
  BY <1>1, <1>2
<1>5. ASSUME NEW j \in 1..n PROVE j = 1 \/ (j - 1 \in 1..n - 1 /\ p[j - 1] = q[j])
  <2> SUFFICES ASSUME j # 1 PROVE j - 1 \in 1..n - 1 /\ p[j - 1] = q[j]
    OBVIOUS
  <2>1. j - 1 \in 1..n - 1 /\ j - 1 + 1 = j
    BY <1>1
  <2> QED BY <1>2, <2>1
<1>6. p = <<>> => n = 1
  BY <1>1, <1>2, <1>3
<1>7. ASSUME p # <<>> PROVE p[Len(p)] = q[n]
  <2>1. n - 1 \in 1..n - 1 /\ n - 1 + 1 = n
    BY <1>1, <1>2, <1>3, <1>7
  <2> QED BY <1>2, <2>1
<1> QED BY <1>1, <1>3, <1>4, <1>5, <1>6, <1>7 DEF p, n

LEMMA OrderedStays ==
  ASSUME IInv, NEW s \in Stores, left[s] # {}, queue'[s] \in {queue[s], Tail(queue[s])},
         UNCHANGED <<daemon, recorder, commands>>,
         Shown(s)' \in {Shown(s), Mark(s, queue[s][1].what)}
  PROVE  Ordered(s)'
<1> DEFINE q == queue[s]
           mark == [i \in DOMAIN q |-> Mark(s, q[i].what)]
<1>1. /\ Ordered(s) /\ Now(s)' = Now(s)
      /\ daemon # "down" /\ DOMAIN q = 1..Len(q) /\ 1 \in DOMAIN q
      /\ \A i \in DOMAIN q : mark[i] = Mark(s, q[i].what)
  BY WriterFacts DEF IInv, Now
<1>2. /\ \A i \in DOMAIN q : mark[i] <= Now(s) /\ mark[1] <= mark[i]
      /\ \A i, j \in DOMAIN q : i < j => mark[i] <= mark[j]
      /\ ~Disposable => Shown(s) <= Now(s) /\ \A i \in DOMAIN q : Shown(s) <= mark[i]
  <2>1. \A i \in DOMAIN q : mark[i] <= Now(s)
    BY <1>1 DEF Ordered
  <2>2. \A i, j \in DOMAIN q : i < j => mark[i] <= mark[j]
    BY <1>1, Zenon DEF Ordered
  <2>3. ~Disposable => Shown(s) <= Now(s) /\ \A i \in DOMAIN q : Shown(s) <= mark[i]
    BY <1>1 DEF Ordered
  <2>4. \A i \in DOMAIN q : Mark(s, q[i].what) >= Mark(s, q[1].what)
    BY WriterFacts
  <2>5. \A i \in DOMAIN q : Mark(s, q[i].what) \in Nat
    <3>1. q \in Seq(Write(s))
      BY WriterFacts
    <3> QED BY <3>1, QueueFacts
  <2>6. \A i \in DOMAIN q : mark[1] <= mark[i]
    BY <1>1, <2>4, <2>5
  <2> QED BY <2>1, <2>2, <2>3, <2>6
<1> HIDE DEF mark
<1>3. ~Disposable => Shown(s)' <= Now(s) /\ \A i \in DOMAIN q : Shown(s)' <= mark[i]
  BY <1>1, <1>2
<1>4. CASE queue'[s] = q
  BY <1>1, <1>2, <1>3, <1>4 DEF Ordered
<1>5. CASE queue'[s] = Tail(q)
  <2>1. ASSUME NEW i \in DOMAIN queue'[s]
        PROVE  i + 1 \in DOMAIN q /\ Mark(s, queue'[s][i].what) = mark[i + 1]
    BY <1>1, <1>5, ShorterFacts
  <2>2. DOMAIN queue'[s] \subseteq Nat
    <3>1. q \in Seq(Write(s)) /\ q # <<>>
      BY WriterFacts
    <3>2. Tail(q) \in Seq(Write(s))
      BY <3>1, TailFacts
    <3> QED BY <1>5, <3>2
  <2>3. \A i \in DOMAIN queue'[s] : Mark(s, queue'[s][i].what) <= Now(s)
    BY <1>2, <2>1
  <2>4. \A i, j \in DOMAIN queue'[s] :
           i < j => Mark(s, queue'[s][i].what) <= Mark(s, queue'[s][j].what)
    <3> SUFFICES ASSUME NEW i \in DOMAIN queue'[s], NEW j \in DOMAIN queue'[s], i < j
                 PROVE  mark[i + 1] <= mark[j + 1]
      BY <2>1
    <3>1. i + 1 < j + 1
      BY <2>2
    <3> QED BY <1>2, <2>1, <3>1
  <2>5. ~Disposable => \A i \in DOMAIN queue'[s] : Shown(s)' <= Mark(s, queue'[s][i].what)
    BY <1>3, <2>1
  <2> QED BY <1>1, <1>3, <2>3, <2>4, <2>5 DEF Ordered
<1> QED BY <1>4, <1>5

LEMMA WaitersStay ==
  ASSUME IInv, NEW s \in Stores, left[s] # {}, queue'[s] \in {queue[s], Tail(queue[s])},
         \A c \in Calls : call'[c].pc = call[c].pc /\ call'[c].made = call[c].made
  PROVE  \A i \in DOMAIN queue'[s] : queue'[s][i].who \in Calls =>
            /\ call'[queue'[s][i].who].pc = "saving"
            /\ Part(s, call'[queue'[s][i].who].made) <= Mark(s, queue'[s][i].what)
<1> SUFFICES ASSUME NEW i \in DOMAIN queue'[s], queue'[s][i].who \in Calls
             PROVE  /\ call'[queue'[s][i].who].pc = "saving"
                    /\ Part(s, call'[queue'[s][i].who].made) <= Mark(s, queue'[s][i].what)
  OBVIOUS
<1>1. Answers(s)
  BY DEF IInv
<1>2. PICK j \in DOMAIN queue[s] : queue'[s][i] = queue[s][j]
  BY ShorterFacts
<1> QED BY <1>1, <1>2 DEF Answers

LEMMA FailWriteKeeps == ASSUME IInv, NEW s \in Stores, FailWrite(s) PROVE IInv'
<1> DEFINE who == Head(queue[s]).who
<1>1. /\ UNCHANGED <<daemon, recorder, commands, disk, occurred, promised, origin, published>>
      /\ left[s] # {} /\ EndWrite(s) /\ failures' = [failures EXCEPT ![s] = @ + 1]
      /\ call' = IF who \in Calls THEN [call EXCEPT ![who].failed = @ \cup {s}] ELSE call
      /\ Types /\ Phases /\ call \in [Calls -> CallRecord] /\ failures \in [Stores -> Nat]
  BY DEF FailWrite, IInv, Types
<1>2. /\ daemon # "down" /\ queue[s] # <<>> /\ Head(queue[s]) = queue[s][1] /\ 1 \in DOMAIN queue[s]
  BY <1>1, WriterFacts
<1>3. /\ queue' = [t \in Stores |-> queue'[t]]
      /\ queue'[s] = Tail(queue[s]) /\ \A t \in Stores \ {s} : queue'[t] = queue[t]
      /\ \A t \in Stores : queue'[t] \in Seq(Write(t))
      /\ left' \in [Stores -> SUBSET AllFiles] /\ left'[s] = {}
      /\ \A t \in Stores \ {s} : left'[t] = left[t]
      /\ swept' \subseteq Stores
  BY <1>1, <1>2, EndFacts
<1>4. /\ call' \in [Calls -> CallRecord]
      /\ \A c \in Calls : /\ call'[c].pc = call[c].pc /\ call'[c].made = call[c].made
                          /\ call[c].failed \subseteq call'[c].failed
      /\ who \in Calls => s \in call'[who].failed
      /\ \A c \in Calls : c # who => call'[c] = call[c]
  <2>1. CASE who \in Calls
    <3> HIDE DEF who
    <3>1. call' = [call EXCEPT ![who].failed = @ \cup {s}]
      BY <1>1, <2>1
    <3>2. call' \in [Calls -> CallRecord]
      <4>1. "idle" \in {"idle", "running", "handing", "saving"} /\ NoEvidence \in Evidence
        BY IdleTyped
      <4>2. \A t \in Stores : [call EXCEPT ![who].failed = @ \cup {t}] \in [Calls -> CallRecord]
        BY <1>1, <2>1, <4>1, CallTypes
      <4> QED BY <3>1, <4>2
    <3>3. /\ call'[who] = [call[who] EXCEPT !.failed = call[who].failed \cup {s}]
          /\ \A c \in Calls : c # who => call'[c] = call[c]
      BY <1>1, <2>1, <3>1
    <3>4. call[who] \in CallRecord
      BY <1>1, <2>1
    <3>5. /\ call'[who].pc = call[who].pc /\ call'[who].made = call[who].made
          /\ call'[who].failed = call[who].failed \cup {s}
      BY <3>3, <3>4 DEF CallRecord
    <3> QED BY <2>1, <3>2, <3>3, <3>5
  <2>2. CASE who \notin Calls
    BY <1>1, <2>2
  <2> QED BY <2>1, <2>2
<1> HIDE DEF who
<1>5. failures' \in [Stores -> Nat] /\ failures'[s] # 0 /\ \A t \in Stores \ {s} : failures'[t] = failures[t]
  BY <1>1
<1>6. Types'
  <2>1. \A t \in Stores : left'[t] \subseteq Files(t)
    BY <1>1, <1>3 DEF Types
  <2> QED BY <1>1, <1>3, <1>4, <1>5, <2>1 DEF Types
<1>7. Phases'
  <2>1. daemon # "starting" \/ \A c \in Calls : call[c] = IdleCall
    BY <1>1 DEF Phases
  <2>2. ASSUME daemon = "starting" PROVE who \notin Calls
    <3> SUFFICES ASSUME who \in Calls PROVE FALSE
      OBVIOUS
    <3>1. call[who].pc = "saving"
      BY <1>2 DEF IInv, Answers, who
    <3> QED BY <2>1, <2>2, <3>1 DEF IdleCall
  <2> QED BY <1>1, <1>2, <2>1, <2>2 DEF Phases
<1>10. \A i \in DOMAIN queue'["trace"] :
          \E j \in DOMAIN queue["trace"] : queue'["trace"][i] = queue["trace"][j]
  <2>1. CASE s = "trace"
    <3>1. \A i \in DOMAIN queue'[s] : i + 1 \in DOMAIN queue[s] /\ queue'[s][i] = queue[s][i + 1]
      BY <1>1, <1>3, ShorterFacts
    <3> QED BY <2>1, <3>1
  <2>2. CASE s # "trace"
    BY <1>3, <2>2, StoreFacts
  <2> QED BY <2>1, <2>2
<1>8. Numbering' /\ Places'
  <2>1. Numbering'
    BY <1>1, <1>10 DEF IInv, Numbering, Fits
  <2>2. Queued' \subseteq Queued
    BY <1>1, <1>10 DEF Queued
  <2>3. Known' \subseteq Known /\ Shelved' = Shelved
    <3>1. Shelved' = Shelved
      BY <1>1 DEF Shelved
    <3> QED BY <1>1, <2>2, <3>1 DEF Known
  <2>4. Agree(Known) => Agree(Known')
    BY <2>3 DEF Agree
  <2>5. Places'
    BY <1>1, <2>3, <2>4 DEF IInv, Places
  <2> QED BY <2>1, <2>5
<1>9. ASSUME NEW t \in Stores PROVE Ordered(t)' /\ Writing(t)' /\ Latest(t)' /\ Answers(t)'
  <2>1. CASE t # s
    BY <1>1, <1>3, <1>4, <1>5, <2>1, StoreFrame
  <2>2. CASE t = s
    <3>1. Ordered(s)'
      <4>1. Shown(s)' = Shown(s)
        BY <1>1 DEF Shown
      <4> QED BY <1>1, <1>3, <4>1, OrderedStays
    <3>2. Writing(s)' /\ Latest(s)'
      BY <1>3, <1>5 DEF Writing, Latest
    <3>3. ASSUME NEW c \in Calls PROVE CallFits(s, c)'
      <4>1. CallFits(s, c) /\ Now(s)' = Now(s)
        BY <1>1 DEF IInv, Answers, Now
      <4>2. Shows(s, call[c].made) => Shows(s, call[c].made)'
        BY <1>1, <1>4 DEF Shows
      <4>3. ASSUME NEW i \in DOMAIN queue[s], queue[s][i].who = c
            PROVE  s \in call'[c].failed \/ \E j \in DOMAIN queue'[s] : queue'[s][j].who = c
        <5>1. CASE i = 1
          BY <1>2, <1>4, <4>3, <5>1 DEF who
        <5>2. CASE i # 1
          <6>1. i - 1 \in DOMAIN queue'[s] /\ queue'[s][i - 1] = queue[s][i]
            BY <1>1, <1>3, <5>2, ShorterFacts
          <6> QED BY <4>3, <6>1
        <5> QED BY <5>1, <5>2
      <4> QED BY <1>4, <4>1, <4>2, <4>3 DEF CallFits
    <3>4. ~Disposable /\ promised' # NoEvidence => Shows(s, promised)'
      BY <1>1 DEF IInv, Answers, Shows
    <3>5. Answers(s)'
      BY <1>1, <1>3, <1>4, <3>3, <3>4, WaitersStay DEF Answers
    <3> QED BY <2>2, <3>1, <3>2, <3>5
  <2> QED BY <2>1, <2>2
<1> QED BY <1>6, <1>7, <1>8, <1>9 DEF IInv

(* A file that is renamed shows no less than before, and no less than it    *)
(* was promised to.                                                         *)
LEMMA RenameKeeps == ASSUME IInv, NEW s \in Stores, NEW f \in Files(s), Rename(s, f) PROVE IInv'
<1> DEFINE what == queue[s][1].what
           last == left[s] = {f}
<1>1. /\ UNCHANGED <<daemon, call, recorder, commands, failures, occurred, promised, origin>>
      /\ f \in left[s] /\ left[s] # {}
      /\ disk' = [disk EXCEPT ![f] = Head(queue[s]).what]
      /\ published' = IF f # "json" THEN published
                      ELSE published \cup Placed(disk'["json"].events)
      /\ IF last THEN EndWrite(s)
         ELSE left' = [left EXCEPT ![s] = @ \ {f}] /\ UNCHANGED <<queue, swept>>
      /\ Types /\ Phases /\ disk = [g \in AllFiles |-> disk[g]]
  BY DEF Rename, IInv, Types
<1>2. /\ daemon # "down" /\ queue[s] # <<>> /\ Head(queue[s]) = queue[s][1] /\ 1 \in DOMAIN queue[s]
      /\ what \in Contents(s) /\ Mark(s, what) \in Nat /\ what # None
      /\ \A i \in DOMAIN queue[s] : Mark(s, queue[s][i].what) >= Mark(s, what)
  BY <1>1, WriterFacts, ContentFacts
<1> HIDE DEF what
<1>3. /\ queue' = [t \in Stores |-> queue'[t]]
      /\ queue'[s] = IF last THEN Tail(queue[s]) ELSE queue[s]
      /\ queue'[s] \in {queue[s], Tail(queue[s])}
      /\ \A t \in Stores \ {s} : queue'[t] = queue[t]
      /\ \A t \in Stores : queue'[t] \in Seq(Write(t))
      /\ left' \in [Stores -> SUBSET AllFiles] /\ left'[s] = left[s] \ {f}
      /\ \A t \in Stores \ {s} : left'[t] = left[t]
      /\ swept' \subseteq Stores
  <2>1. CASE last
    <3>1. EndWrite(s)
      BY <1>1, <2>1
    <3> QED BY <1>1, <1>2, <2>1, <3>1, EndFacts
  <2>2. CASE ~last
    <3>1. left' = [left EXCEPT ![s] = @ \ {f}] /\ UNCHANGED <<queue, swept>>
      BY <1>1, <2>2
    <3>2. /\ queue = [t \in Stores |-> queue[t]] /\ \A t \in Stores : queue[t] \in Seq(Write(t))
          /\ left \in [Stores -> SUBSET AllFiles] /\ swept \subseteq Stores
      BY <1>1 DEF Types
    <3>3. left' \in [Stores -> SUBSET AllFiles] /\ left'[s] = left[s] \ {f}
          /\ \A t \in Stores \ {s} : left'[t] = left[t]
      BY <3>1, <3>2
    <3> QED BY <2>2, <3>1, <3>2, <3>3
  <2> QED BY <2>1, <2>2
<1>4. /\ disk' = [g \in AllFiles |-> disk'[g]] /\ disk'[f] = what
      /\ \A g \in AllFiles \ {f} : disk'[g] = disk[g]
      /\ f \in AllFiles
      /\ \A t \in Stores \ {s} : \A g \in Files(t) : g # f /\ disk'[g] = disk[g]
  <2>1. /\ f \in AllFiles /\ \A t \in Stores : Files(t) \subseteq AllFiles
        /\ \A t \in Stores \ {s} : \A g \in Files(t) : g # f
    BY StoreFacts
  <2> QED BY <1>1, <1>2, <2>1 DEF what
<1>5. Types'
  <2>1. \A t \in Stores : left'[t] \subseteq Files(t)
    BY <1>1, <1>3 DEF Types
  <2>2. ASSUME NEW t \in Stores, NEW g \in Files(t) PROVE disk'[g] \in {None} \cup Contents(t)
    <3>1. disk[g] \in {None} \cup Contents(t)
      BY <1>1 DEF Types
    <3>2. g \in AllFiles
      BY StoreFacts
    <3> QED BY <1>2, <1>4, <3>1, <3>2
  <2> QED BY <1>1, <1>3, <1>4, <2>1, <2>2 DEF Types
<1>6. Phases'
  BY <1>1, <1>2 DEF Phases
<1>7. f = "json" => s = "trace" /\ Main(s) = "json"
  BY DEF Files, Stores, Main
<1>19. \A i \in DOMAIN queue'["trace"] :
          \E j \in DOMAIN queue["trace"] : queue'["trace"][i] = queue["trace"][j]
  <2>1. CASE s = "trace"
    <3>1. queue'[s] = Tail(queue[s]) =>
            \A i \in DOMAIN queue'[s] : i + 1 \in DOMAIN queue[s] /\ queue'[s][i] = queue[s][i + 1]
      BY <1>1, ShorterFacts
    <3> QED BY <1>3, <2>1, <3>1
  <2>2. CASE s # "trace"
    BY <1>3, <2>2, StoreFacts
  <2> QED BY <2>1, <2>2
<1>20. f = "json" => /\ disk'["json"] = what /\ Whole(what) /\ Fits(what)
                    /\ Pairs(origin, what.events) \subseteq Queued
  <2> SUFFICES ASSUME f = "json"
               PROVE  /\ disk'["json"] = what /\ Whole(what) /\ Fits(what)
                      /\ Pairs(origin, what.events) \subseteq Queued
    OBVIOUS
  <2>1. disk'["json"] = what /\ Whole(what)
    BY <1>2, <1>4, <1>7, ContentFacts
  <2>2. 1 \in DOMAIN queue["trace"] /\ what = queue["trace"][1].what
    BY <1>2, <1>7 DEF what
  <2> QED BY <2>1, <2>2 DEF IInv, Numbering, Queued
<1>21. f # "json" => published' = published /\ disk'["json"] = disk["json"]
  BY <1>1, <1>4 DEF AllFiles
<1>22. Numbering'
  <2>1. disk'["json"] # None => Fits(disk'["json"])
    BY <1>20, <1>21 DEF IInv, Numbering
  <2> QED BY <1>1, <1>19, <2>1 DEF IInv, Numbering, Fits
<1>8. Places'
  <2> SUFFICES ASSUME ~Disposable PROVE Places'
    BY DEF Places
  <2>1. Queued' \subseteq Queued
    BY <1>1, <1>19 DEF Queued
  <2>2. CASE f # "json"
    <3>1. published' = published /\ disk'["json"] = disk["json"] /\ Shelved' = Shelved
      BY <1>21, <2>2 DEF Shelved
    <3>2. Known' \subseteq Known
      BY <1>1, <2>1, <3>1 DEF Known
    <3>3. Agree(Known) => Agree(Known')
      BY <3>2 DEF Agree
    <3> QED BY <1>1, <3>1, <3>3 DEF IInv, Places
  <2>3. CASE f = "json"
    <3>1. /\ disk'["json"] = what /\ Whole(what) /\ Fits(what)
          /\ Pairs(origin, what.events) \subseteq Queued
          /\ what.events \in Seq(Event) /\ origin \in Nat
      BY <1>20, <2>3, WholeFacts DEF IInv, Numbering
    <3>2. published' = published \cup Placed(what.events)
      BY <1>1, <2>3, <3>1
    <3>3. Shelved' = Shelved \cup Pairs(origin, what.events)
      <4>1. {<<x.origin + x.number, x.what>> : x \in Placed(what.events)} = Pairs(origin, what.events)
        <5>1. Placed(what.events) =
                {[origin |-> origin, number |-> what.events[i].sequence, what |-> what.events[i].what] :
                   i \in DOMAIN what.events}
          BY DEF Placed, ToSet
        <5> DEFINE S == {<<x.origin + x.number, x.what>> : x \in Placed(what.events)}
                   P == Pairs(origin, what.events)
        <5>2. ASSUME NEW y \in S PROVE y \in P
          <6>1. PICK x \in Placed(what.events) : y = <<x.origin + x.number, x.what>>
            OBVIOUS
          <6>2. PICK i \in DOMAIN what.events :
                   /\ x.origin = origin /\ x.number = what.events[i].sequence
                   /\ x.what = what.events[i].what
            BY <5>1
          <6> QED BY <6>1, <6>2 DEF Pairs
        <5>3. ASSUME NEW y \in P PROVE y \in S
          <6>1. PICK i \in DOMAIN what.events :
                   y = <<origin + what.events[i].sequence, what.events[i].what>>
            BY DEF Pairs
          <6> DEFINE x == [origin |-> origin, number |-> what.events[i].sequence,
                           what |-> what.events[i].what]
          <6>2. x \in Placed(what.events)
            BY <5>1
          <6> QED BY <6>1, <6>2
        <5> HIDE DEF S, P
        <5>4. S = P
          BY <5>2, <5>3
        <5> QED BY <5>4 DEF S, P
      <4> QED BY <3>2, <4>1 DEF Shelved
    <3>4. Placed(what.events) \subseteq [origin : Nat, number : Nat, what : Nat]
      <4>1. \A i \in DOMAIN what.events :
               what.events[i].sequence \in Nat /\ what.events[i].what \in Nat
        BY <3>1, EventFacts
      <4> QED BY <3>1, <4>1 DEF Placed, ToSet
    <3>5. Known' \subseteq Known
      BY <1>1, <2>1, <3>1, <3>3 DEF Known
    <3>6. Agree(Known')
      <4>1. Agree(Known)
        BY DEF IInv, Places
      <4> QED BY <3>5, <4>1 DEF Agree
    <3>7. ASSUME NEW x \in Shelved' PROVE x[1] \in Nat /\ x[1] <= Total(what)
      <4>1. CASE x \in Pairs(origin, what.events)
        BY <3>1, <4>1, WholeFacts DEF Fits
      <4>2. CASE x \in Shelved
        <5>1. disk["json"] # None /\ x[1] \in Nat /\ x[1] <= Total(disk["json"])
          BY <4>2 DEF IInv, Places
        <5>2. Total(disk["json"]) \in Nat /\ Total(what) \in Nat
          <6>1. disk["json"] \in {None} \cup Contents("trace")
            BY <1>1, StoreFacts DEF Types, Files
          <6> QED BY <3>1, <5>1, <6>1, StoreFacts, ContentFacts, WholeFacts
        <5>3. Total(disk["json"]) <= Total(what)
          <6>1. Shown("trace") = Total(disk["json"])
            BY <5>1 DEF Shown, Main, Mark
          <6>2. Shown(s) <= Mark(s, what)
            BY <1>2 DEF IInv, Ordered, what
          <6> QED BY <1>7, <2>3, <6>1, <6>2 DEF Mark
        <5> QED BY <5>1, <5>2, <5>3
      <4> QED BY <3>3, <4>1, <4>2
    <3>8. what # None
      BY <1>2
    <3>9. published' \subseteq [origin : Nat, number : Nat, what : Nat]
      BY <3>2, <3>4 DEF IInv, Places
    <3> QED BY <1>1, <3>1, <3>3, <3>6, <3>7, <3>8, <3>9 DEF Places
  <2> QED BY <2>2, <2>3
<1>9. ASSUME NEW t \in Stores, t # s PROVE Ordered(t)' /\ Writing(t)' /\ Latest(t)' /\ Answers(t)'
  BY <1>1, <1>3, <1>4, <1>9, StoreFrame
<1>10. Shown(s)' \in {Shown(s), Mark(s, what)}
  <2>1. Main(s) \in AllFiles
    BY StoreFacts
  <2> QED BY <1>2, <1>4, <2>1 DEF Shown
<1>11. Ordered(s)'
  <2>1. Shown(s)' \in {Shown(s), Mark(s, queue[s][1].what)}
    BY <1>10 DEF what
  <2> QED BY <1>1, <1>3, <2>1, OrderedStays
<1>12. ASSUME ~Disposable \/ daemon \in {"starting", "open"}
       PROVE  \A g \in Files(s) \ left'[s] : disk'[g] = what
  <2>1. \A g \in Files(s) \ left[s] : disk[g] = what
    BY <1>1, <1>12 DEF IInv, Writing, what
  <2>2. Files(s) \subseteq AllFiles
    BY StoreFacts
  <2> QED BY <1>3, <1>4, <2>1, <2>2
<1>13. Writing(s)'
  <2> SUFFICES ASSUME left'[s] # {} PROVE Writing(s)'
    BY DEF Writing
  <2>1. queue'[s] = queue[s]
    BY <1>3
  <2> QED BY <1>1, <1>2, <1>12, <2>1 DEF Writing, what
<1>14. Latest(s)'
  <2> SUFFICES ASSUME Current', failures'[s] = 0 PROVE Latest(s)'
    BY DEF Latest
  <2>1. /\ daemon \in {"starting", "open"} /\ Value(s)' = Value(s)
        /\ queue[s][Len(queue[s])].what = Value(s)
    BY <1>1, <1>2 DEF IInv, Latest, Current, Value
  <2>2. CASE queue'[s] = <<>>
    <3>1. last /\ queue'[s] = Tail(queue[s])
      BY <1>2, <1>3, <2>2
    <3>2. Len(queue[s]) = 1 /\ left'[s] = {}
      BY <1>1, <1>3, <2>2, <3>1, ShorterFacts
    <3>3. what = Value(s)
      BY <2>1, <3>2 DEF what
    <3> QED BY <1>12, <2>1, <2>2, <3>2, <3>3 DEF Latest
  <2>3. CASE queue'[s] # <<>>
    <3>1. queue'[s][Len(queue'[s])] = queue[s][Len(queue[s])]
      BY <1>1, <1>3, <2>3, ShorterFacts
    <3> QED BY <2>1, <2>3, <3>1 DEF Latest
  <2> QED BY <2>2, <2>3
<1>15. ASSUME NEW e \in Evidence, Shows(s, e), ~Disposable PROVE Shows(s, e)'
  <2>1. Part(s, e) <= Mark(s, what)
    <3>1. disk[Main(s)] # None /\ Mark(s, disk[Main(s)]) >= Part(s, e)
      BY <1>15, StoreFacts DEF Shows
    <3>2. Shown(s) <= Mark(s, what) /\ Shown(s) = Mark(s, disk[Main(s)])
      BY <1>2, <1>15, <3>1 DEF IInv, Ordered, Shown, what
    <3>3. Shown(s) \in Nat /\ Part(s, e) \in Nat
      <4>1. disk[Main(s)] \in {None} \cup Contents(s)
        BY <1>1, StoreFacts DEF Types
      <4> QED BY <3>1, <3>2, <4>1, ContentFacts DEF Evidence, Part
    <3> QED BY <1>2, <3>1, <3>2, <3>3
  <2>2. Part(s, e) \in Nat
    BY DEF Evidence, Part
  <2>3. ASSUME NEW g \in Files(s) PROVE disk'[g] # None /\ Mark(s, disk'[g]) >= Part(s, e)
    <3>1. CASE g = f
      BY <1>2, <1>4, <2>1, <2>2, <3>1
    <3>2. CASE g # f
      BY <1>4, <1>15, <3>2, StoreFacts DEF Shows
    <3> QED BY <3>1, <3>2
  <2> QED BY <2>3 DEF Shows
<1>16. ASSUME NEW c \in Calls PROVE CallFits(s, c)'
  <2>1. CallFits(s, c) /\ Now(s)' = Now(s) /\ call' = call
    BY <1>1 DEF IInv, Answers, Now
  <2>2. call[c].made \in Evidence
    BY <1>1 DEF Types, CallRecord
  <2>3. ASSUME ~Disposable, Shows(s, call[c].made) PROVE Shows(s, call[c].made)'
    BY <1>15, <2>1, <2>2, <2>3 DEF Shows
  <2>4. ASSUME ~Disposable, NEW i \in DOMAIN queue[s], queue[s][i].who = c
        PROVE  Shows(s, call[c].made)' \/ \E j \in DOMAIN queue'[s] : queue'[s][j].who = c
    <3>1. CASE ~last
      BY <1>3, <2>4, <3>1
    <3>2. CASE last /\ i # 1
      <4>1. i - 1 \in DOMAIN queue'[s] /\ queue'[s][i - 1] = queue[s][i]
        BY <1>1, <1>3, <3>2, ShorterFacts
      <4> QED BY <2>4, <4>1
    <3>3. CASE last /\ i = 1
      <4>1. Part(s, call[c].made) <= Mark(s, what)
        BY <2>4, <3>3 DEF IInv, Answers, what
      <4>2. Part(s, call[c].made) \in Nat
        BY <2>2 DEF Evidence, Part
      <4>3. \A g \in Files(s) : disk'[g] = what
        BY <1>1, <1>3, <1>12, <2>4, <3>3
      <4> QED BY <1>2, <2>1, <4>1, <4>2, <4>3 DEF Shows
    <3> QED BY <3>1, <3>2, <3>3
  <2> QED BY <2>1, <2>3, <2>4 DEF CallFits
<1>17. ~Disposable /\ promised' # NoEvidence => Shows(s, promised)'
  <2> SUFFICES ASSUME ~Disposable, promised # NoEvidence PROVE Shows(s, promised)'
    BY <1>1
  <2>1. Shows(s, promised) /\ promised \in Evidence
    BY <1>1 DEF IInv, Answers, Types
  <2> QED BY <1>1, <1>15, <2>1 DEF Shows
<1>18. Answers(s)'
  BY <1>1, <1>3, <1>16, <1>17, WaitersStay DEF Answers
<1> QED BY <1>5, <1>6, <1>8, <1>9, <1>11, <1>13, <1>14, <1>18, <1>22 DEF IInv

-----------------------------------------------------------------------------
(* The end of a process, and the invariant.                                 *)
LEMMA RemoveFilesKeeps == IInv /\ RemoveFiles => IInv'
<1> SUFFICES ASSUME IInv, RemoveFiles PROVE IInv'
  OBVIOUS
<1>1. /\ UNCHANGED <<call, recorder, commands, queue, left, failures, occurred, promised, origin,
                     published>>
      /\ daemon = "ending" /\ daemon' = "closed"
      /\ Types /\ Phases
      /\ Disposable => disk' = NoFiles /\ swept' = {s \in Stores : left[s] # {}}
      /\ ~Disposable => UNCHANGED <<disk, swept>>
  BY DEF RemoveFiles, IInv
<1>2. Types'
  <2>1. CASE Disposable
    <3>1. disk' = [f \in AllFiles |-> disk'[f]] /\ \A s \in Stores : \A f \in Files(s) : disk'[f] = None
      BY <1>1, <2>1, StoreFacts DEF NoFiles
    <3>2. swept' \subseteq Stores
      BY <1>1, <2>1
    <3> QED BY <1>1, <3>1, <3>2 DEF Types
  <2>2. CASE ~Disposable
    BY <1>1, <2>2 DEF Types
  <2> QED BY <2>1, <2>2
<1>3. Phases'
  BY <1>1 DEF Phases
<1>4. Numbering' /\ Places'
  <2>1. disk'["json"] # None => disk' = disk
    BY <1>1, StoreFacts DEF NoFiles, AllFiles
  <2>2. Numbering'
    BY <1>1, <2>1 DEF IInv, Numbering, Fits
  <2>3. Places'
    BY <1>1 DEF IInv, Places, Known, Queued, Shelved
  <2> QED BY <2>2, <2>3
<1>5. ASSUME NEW s \in Stores PROVE Ordered(s)' /\ Writing(s)' /\ Latest(s)' /\ Answers(s)'
  <2>1. Ordered(s) /\ Writing(s) /\ Answers(s) /\ Now(s)' = Now(s)
    BY <1>1 DEF IInv, Now
  <2>2. ~Disposable => Shown(s)' = Shown(s)
    BY <1>1 DEF Shown
  <2>3. Ordered(s)'
    BY <1>1, <2>1, <2>2 DEF Ordered
  <2>4. Writing(s)'
    BY <1>1, <2>1 DEF Writing
  <2>5. Latest(s)'
    BY <1>1 DEF Latest, Current
  <2>6. ASSUME NEW c \in Calls PROVE CallFits(s, c)'
    <3>1. CallFits(s, c)
      BY <2>1 DEF Answers
    <3> QED BY <1>1, <2>1, <3>1 DEF CallFits, Shows
  <2>7. Answers(s)'
    <3>1. \A i \in DOMAIN queue'[s] : queue'[s][i].who \in Calls =>
             /\ call'[queue'[s][i].who].pc = "saving"
             /\ Part(s, call'[queue'[s][i].who].made) <= Mark(s, queue'[s][i].what)
      BY <1>1, <2>1 DEF Answers
    <3>2. ~Disposable /\ promised' # NoEvidence => Shows(s, promised)'
      BY <1>1, <2>1 DEF Answers, Shows
    <3> QED BY <2>6, <3>1, <3>2 DEF Answers
  <2> QED BY <2>3, <2>4, <2>5, <2>7
<1> QED BY <1>2, <1>3, <1>4, <1>5 DEF IInv

(* What a process knew and had not stored is gone: nothing was promised of  *)
(* it.                                                                      *)
LEMMA ForgottenKeeps ==
  ASSUME IInv, Forgotten, UNCHANGED <<disk, occurred, promised, origin, published>>
  PROVE  IInv'
<1>1. /\ daemon' = "down" /\ call' = Blank.call /\ recorder' = EmptyRecorder /\ commands' = 0
      /\ queue' = Blank.queue /\ left' = Blank.left /\ swept' = {} /\ failures' = Blank.failures
      /\ Types
  BY DEF Forgotten, IInv
<1>2. Types'
  BY <1>1, BlankTyped, EmptyKeeps DEF Types
<1>3. Phases'
  BY <1>1 DEF Phases
<1>4. /\ \A s \in Stores : queue'[s] = <<>> /\ left'[s] = {}
      /\ \A c \in Calls : call'[c] = IdleCall
  BY <1>1 DEF Blank
<1>5. Numbering' /\ Places'
  <2>1. Pairs(origin', recorder'.events) = {}
    BY <1>1 DEF Pairs, EmptyRecorder
  <2>2. DOMAIN queue'["trace"] = {} /\ Queued' = {}
    <3>1. DOMAIN queue'["trace"] = {}
      BY <1>4, StoreFacts
    <3> QED BY <3>1 DEF Queued
  <2>3. Known' \subseteq Known /\ Shelved' = Shelved
    <3>1. Shelved' = Shelved
      BY DEF Shelved
    <3> QED BY <2>1, <2>2, <3>1 DEF Known
  <2>4. Agree(Known) => Agree(Known')
    BY <2>3 DEF Agree
  <2>5. Numbering'
    BY <1>1, <2>2 DEF IInv, Numbering, Fits
  <2>6. Places'
    BY <2>3, <2>4 DEF IInv, Places
  <2> QED BY <2>5, <2>6
<1>6. ASSUME NEW s \in Stores PROVE Ordered(s)' /\ Writing(s)' /\ Latest(s)' /\ Answers(s)'
  <2>1. DOMAIN queue'[s] = {}
    BY <1>4
  <2>2. Ordered(s)' /\ Writing(s)' /\ Latest(s)'
    BY <1>1, <1>4, <2>1 DEF Ordered, Writing, Latest, Current
  <2>3. Now(s)' = 0
    BY <1>1, EmptyKeeps DEF Now, Reached
  <2>4. \A c \in Calls : CallFits(s, c)'
    BY <1>4, <2>3 DEF CallFits, IdleCall, NoEvidence, Part
  <2>5. ~Disposable /\ promised' # NoEvidence => Shows(s, promised)'
    BY DEF IInv, Answers, Shows
  <2>6. Answers(s)'
    BY <2>1, <2>4, <2>5 DEF Answers
  <2> QED BY <2>2, <2>6
<1> QED BY <1>2, <1>3, <1>5, <1>6 DEF IInv

LEMMA InitHolds == EvidenceInit => IInv
<1> SUFFICES ASSUME EvidenceInit PROVE IInv
  OBVIOUS
<1>1. Types /\ Phases
  BY InitTypes
<1>2. /\ \A s \in Stores : queue[s] = <<>> /\ left[s] = {} /\ DOMAIN queue[s] = {}
      /\ \A c \in Calls : call[c] = IdleCall
      /\ recorder = EmptyRecorder /\ commands = 0 /\ daemon = "down"
      /\ origin = 0 /\ published = {} /\ promised = NoEvidence
      /\ \A f \in AllFiles : disk[f] = None
  BY DEF EvidenceInit, Blank, NoFiles
<1>3. Numbering /\ Places
  <2>1. Pairs(origin, recorder.events) = {}
    BY <1>2 DEF Pairs, EmptyRecorder
  <2>2. DOMAIN queue["trace"] = {} /\ Queued = {}
    BY <1>2, StoreFacts DEF Queued
  <2>3. Known = {} /\ Shelved = {}
    <3>1. Shelved = {}
      BY <1>2 DEF Shelved
    <3> QED BY <2>1, <2>2, <3>1 DEF Known
  <2>4. disk["json"] = None
    BY <1>2 DEF AllFiles
  <2>5. Numbering
    BY <1>2, <2>2, <2>4 DEF Numbering
  <2>6. Places
    BY <1>2, <2>3, <2>4 DEF Places, Agree
  <2> QED BY <2>5, <2>6
<1>4. ASSUME NEW s \in Stores PROVE Ordered(s) /\ Writing(s) /\ Latest(s) /\ Answers(s)
  <2>1. Ordered(s) /\ Writing(s) /\ Latest(s)
    BY <1>2 DEF Ordered, Writing, Latest, Current
  <2>2. Now(s) = 0
    BY <1>2, EmptyKeeps DEF Now, Reached
  <2>3. \A c \in Calls : CallFits(s, c)
    BY <1>2, <2>2 DEF CallFits, IdleCall, NoEvidence, Part
  <2>4. Answers(s)
    BY <1>2, <2>3 DEF Answers
  <2> QED BY <2>1, <2>4
<1> QED BY <1>1, <1>3, <1>4 DEF IInv

LEMMA StutterKeeps == IInv /\ UNCHANGED vars => IInv'
<1> SUFFICES ASSUME IInv, UNCHANGED vars PROVE IInv'
  OBVIOUS
<1>1. /\ UNCHANGED <<daemon, call, recorder, commands, queue, left, swept, failures, disk,
                     occurred, promised, origin, published>>
      /\ Types /\ Phases
  BY DEF vars, memory, IInv
<1>2. Types' /\ Phases'
  BY <1>1, TypesKept DEF Phases
<1>3. Numbering' /\ Places'
  BY <1>1 DEF IInv, Numbering, Fits, Places, Known, Queued, Shelved
<1>4. \A s \in Stores : Ordered(s)' /\ Writing(s)' /\ Latest(s)' /\ Answers(s)'
  BY <1>1, StoreFrame
<1> QED BY <1>2, <1>3, <1>4 DEF IInv

LEMMA StepKeeps == IInv /\ [EvidenceNext]_vars => IInv'
<1> SUFFICES ASSUME IInv, [EvidenceNext]_vars PROVE IInv'
  OBVIOUS
<1>1. CASE Start
  BY <1>1, StartKeeps
<1>2. CASE Serve
  BY <1>2, ServeKeeps
<1>3. CASE Close
  BY <1>3, CloseKeeps
<1>4. CASE RemoveFiles
  BY <1>4, RemoveFilesKeeps
<1>5. CASE Exit
  BY <1>5, ForgottenKeeps DEF Exit
<1>6. CASE Crash
  BY <1>6, ForgottenKeeps DEF Crash
<1>7. ASSUME NEW c \in Calls, Begin(c) \/ RecordTransition(c) \/ CallStep(c) PROVE IInv'
  <2>1. CASE Begin(c)
    BY <2>1, BeginKeeps
  <2>2. CASE RecordTransition(c)
    BY <2>2, TransitionKeeps
  <2>3. CASE CallStep(c)
    <3>1. CASE Reject(c)
      BY <3>1, RejectKeeps
    <3>2. CASE Save(c)
      BY <3>2, SaveKeeps
    <3>3. CASE Answer(c)
      BY <3>3, AnswerKeeps
    <3>4. ASSUME NEW size \in Sizes[c], Record(c, size) PROVE IInv'
      BY <3>4, RecordKeeps
    <3> QED BY <2>3, <3>1, <3>2, <3>3, <3>4 DEF CallStep
  <2> QED BY <1>7, <2>1, <2>2, <2>3
<1>8. ASSUME NEW s \in Stores, WriteStep(s) \/ FailWrite(s) PROVE IInv'
  <2>1. CASE BeginWrite(s)
    BY <2>1, BeginWriteKeeps
  <2>2. ASSUME NEW f \in Files(s), Rename(s, f) PROVE IInv'
    BY <2>2, RenameKeeps
  <2>3. CASE FailWrite(s)
    BY <2>3, FailWriteKeeps
  <2> QED BY <1>8, <2>1, <2>2, <2>3 DEF WriteStep
<1>9. CASE UNCHANGED vars
  BY <1>9, StutterKeeps
<1> QED BY <1>1, <1>2, <1>3, <1>4, <1>5, <1>6, <1>7, <1>8, <1>9 DEF EvidenceNext

LEMMA EvidenceInvariance == EvidenceSpec => []IInv
<1>1. EvidenceInit => IInv
  BY InitHolds
<1>2. IInv /\ [EvidenceNext]_vars => IInv'
  BY StepKeeps
<1> QED BY <1>1, <1>2, PTL DEF EvidenceSpec

-----------------------------------------------------------------------------
(* What a recorder exports is short enough and in order: a reader has       *)
(* nothing to object to but the inputs.                                     *)
LEMMA WholeIsReadable ==
  ASSUME MaxEvents <= MaxReadEvents, NEW e, Whole(e), NEW base \in Nat,
         Gapless(base, e.omitted, e.events), InputsAccepted(e.events)
  PROVE  Readable(e)
<1>1. /\ Len(e.events) \in Nat /\ DOMAIN e.events = 1..Len(e.events) /\ Len(e.events) <= MaxEvents
      /\ e.omitted \in Nat /\ Bytes(e.events) <= MaxExportBytes
      /\ MaxEvents \in Nat /\ MaxReadEvents \in Nat
      /\ \A i \in DOMAIN e.events : e.events[i].sequence \in Nat
  <2>1. e.events \in Seq(Event)
    BY WholeFacts
  <2>2. \A i \in DOMAIN e.events : e.events[i].sequence \in Nat
    BY <2>1, EventFacts
  <2> QED BY <2>1, <2>2, WholeFacts, RecorderBounds DEF Whole
<1>2. \A i \in 1..(Len(e.events) - 1) : e.events[i].sequence < e.events[i + 1].sequence
  <2> SUFFICES ASSUME NEW i \in 1..(Len(e.events) - 1)
               PROVE  e.events[i].sequence < e.events[i + 1].sequence
    OBVIOUS
  <2>1. i \in DOMAIN e.events /\ i + 1 \in DOMAIN e.events
    BY <1>1
  <2>2. /\ base + e.events[i].sequence = e.omitted + i
        /\ base + e.events[i + 1].sequence = e.omitted + (i + 1)
    BY <1>1, <2>1 DEF Gapless
  <2>3. e.events[i].sequence \in Nat /\ e.events[i + 1].sequence \in Nat /\ i \in Nat
    BY <1>1, <2>1
  <2> DEFINE a == e.events[i].sequence
             b == e.events[i + 1].sequence
  <2>4. /\ base + a = e.omitted + i /\ base + b = e.omitted + (i + 1)
        /\ a \in Nat /\ b \in Nat /\ i \in Nat /\ e.omitted \in Nat
    BY <1>1, <2>2, <2>3
  <2> HIDE DEF a, b
  <2>5. a < b
    BY <2>4
  <2> QED BY <2>5 DEF a, b
<1> QED BY <1>1, <1>2 DEF Readable

-----------------------------------------------------------------------------
(* Whatever is recorded, saved, refused or lost, the state of the session   *)
(* keeps its types: recorders and files hold events that the code numbers.  *)
THEOREM EvidenceTypes == EvidenceSpec => []EvidenceTypeOK
<1>1. IInv => EvidenceTypeOK
  <2> SUFFICES ASSUME IInv PROVE EvidenceTypeOK
    OBVIOUS
  <2>1. Types
    BY DEF IInv
  <2>2. \A s \in Stores : \A i \in DOMAIN queue[s] :
          queue[s][i].who \in Savers /\ queue[s][i].what \in Contents(s)
    BY <2>1, QueueFacts DEF Types
  <2>3. \A s \in Stores : Contents(s) \subseteq IF s = "trace" THEN Export ELSE Nat
    BY DEF Contents
  <2>4. \A s \in Stores : \A i \in DOMAIN queue[s] :
          /\ queue[s][i].who \in Savers
          /\ queue[s][i].what \in IF s = "trace" THEN Export ELSE Nat
    BY <2>2, <2>3
  <2>5. \A s \in Stores : \A f \in Files(s) :
          disk[f] \in {None} \cup (IF s = "trace" THEN Export ELSE Nat)
    BY <2>1, <2>3 DEF Types
  <2> QED BY <2>1, <2>4, <2>5 DEF EvidenceTypeOK, Types, Keeps, CallRecord, IInv, Numbering
<1> QED BY <1>1, EvidenceInvariance, PTL

(* A call that was answered, and whose saves did not fail, is in every file *)
(* of a persistent session from then on: through the writes of later calls, *)
(* refused writes, crashes and restarts (persistEvidence of runtime.ts).    *)
THEOREM AnsweredEvidenceStays == EvidenceSpec => []AnsweredIsOnDisk
<1>1. IInv => AnsweredIsOnDisk
  <2> SUFFICES ASSUME IInv, ~Disposable, promised # NoEvidence PROVE AnsweredIsOnDisk
    BY DEF AnsweredIsOnDisk
  <2>1. Shows("trace", promised) /\ Shows("metrics", promised)
    BY StoreFacts DEF IInv, Answers
  <2> QED BY <2>1 DEF AnsweredIsOnDisk, Shows, Part, Mark, Files
<1> QED BY <1>1, EvidenceInvariance, PTL

(* In a session that keeps its files a sequence number of the stored trace  *)
(* stands for one event for good, as long as the numbering has not begun    *)
(* again; where it has, its events have places of their own.  A disposable  *)
(* session is left out: it removes its trace at its end, and the next       *)
(* begins at one again.                                                     *)
THEOREM NumbersStand ==
  ASSUME ~Disposable
  PROVE  EvidenceSpec => []NumbersNameOneEvent
<1>1. IInv => NumbersNameOneEvent
  <2> SUFFICES ASSUME IInv, NEW x \in published, NEW y \in published,
                      x.origin = y.origin, x.number = y.number
               PROVE  x = y
    BY DEF NumbersNameOneEvent
  <2>1. <<x.origin + x.number, x.what>> \in Known /\ <<y.origin + y.number, y.what>> \in Known
    BY DEF Known, Shelved
  <2>2. x.what = y.what
    BY <2>1 DEF IInv, Places, Agree
  <2>3. x \in [origin : Nat, number : Nat, what : Nat] /\ y \in [origin : Nat, number : Nat, what : Nat]
    BY DEF IInv, Places
  <2> QED BY <2>2, <2>3
<1> QED BY <1>1, EvidenceInvariance, PTL

(* The trace never has a hole it does not own up to: what the ring, the     *)
(* export and the resumption drop is counted as omitted, also where an      *)
(* export kept nothing, and the events kept are numbered right after        *)
(* (TraceRecorder.record, snapshot, initialTrace).                          *)
THEOREM OmissionIsExact == EvidenceSpec => []OmittedIsExact
<1>1. IInv => OmittedIsExact
  BY DEF IInv, Numbering, Numbered, Gapless, OmittedIsExact
<1> QED BY <1>1, EvidenceInvariance, PTL

(* The last write queued is the newest: when no write is left and none has  *)
(* failed, the files show all that the recorders know.                      *)
THEOREM QuietDiskShowsAll == EvidenceSpec => []QuietDiskIsCurrent
<1>1. IInv => QuietDiskIsCurrent
  <2> SUFFICES ASSUME IInv, daemon = "open",
                      \A s \in Stores : queue[s] = <<>> /\ failures[s] = 0,
                      \A c \in Calls : call[c].pc \notin {"running", "handing"}
               PROVE  /\ disk["json"] = Exported(recorder) /\ disk["timeline"] = disk["json"]
                      /\ disk["metrics"] = commands
    BY DEF QuietDiskIsCurrent
  <2>1. \A s \in Stores : \A f \in Files(s) : disk[f] = Value(s)
    BY DEF IInv, Latest, Current
  <2> QED BY <2>1, StoreFacts DEF Value, Taken, Files
<1> QED BY <1>1, EvidenceInvariance, PTL

(* Where a reader accepts as many events as a recorder keeps, as it does    *)
(* with the source's limits (100 and 100), a stored trace is refused only   *)
(* for the inputs its events record: validateTraceExport after any history  *)
(* of calls, drops, crashes and restarts.                                   *)
THEOREM StoredTraceIsReadable ==
  ASSUME MaxEvents <= MaxReadEvents
  PROVE  EvidenceSpec => []OnlyInputsAreRefused
<1>1. IInv => OnlyInputsAreRefused
  <2> SUFFICES ASSUME IInv, disk["json"] # None, InputsAccepted(disk["json"].events)
               PROVE  Readable(disk["json"])
    BY DEF OnlyInputsAreRefused
  <2>1. disk["json"] \in {None} \cup Contents("trace")
    BY StoreFacts DEF IInv, Types, Files
  <2>2. origin \in Nat /\ Gapless(origin, disk["json"].omitted, disk["json"].events)
    BY DEF IInv, Numbering, Fits
  <2> QED BY <2>1, <2>2, StoreFacts, ContentFacts, WholeIsReadable
<1> QED BY <1>1, EvidenceInvariance, PTL
-----------------------------------------------------------------------------
(* The stores as logs: what the steps of the session are to EvidenceLog.    *)
LEMMA LogFacts ==
  ASSUME IInv
  PROVE  /\ \A s \in Stores : /\ Now(s) \in Nat /\ Shown(s) \in Nat
                              /\ Part(s, promised) \in Nat
         /\ ~Disposable /\ daemon # "down" => \A s \in Stores : Shown(s) <= Now(s)
         /\ \A e \in Evidence : \A s \in Stores : Shows(s, e) => Part(s, e) <= Shown(s)
         /\ ~Disposable => \A s \in Stores : Part(s, promised) <= Shown(s)
<1>1. Types
  BY DEF IInv
<1>2. ASSUME NEW s \in Stores PROVE Now(s) \in Nat /\ Shown(s) \in Nat /\ Part(s, promised) \in Nat
  <2>1. disk[Main(s)] \in {None} \cup Contents(s)
    BY <1>1, StoreFacts DEF Types
  <2>2. Shown(s) \in Nat
    BY <2>1, ContentFacts DEF Shown
  <2>3. Part(s, promised) \in Nat
    BY <1>1 DEF Types, Evidence, Part
  <2> QED BY <1>1, <2>2, <2>3, NowIsNat
<1>3. ~Disposable /\ daemon # "down" => \A s \in Stores : Shown(s) <= Now(s)
  BY DEF IInv, Ordered
<1>4. ASSUME NEW e \in Evidence, NEW s \in Stores, Shows(s, e) PROVE Part(s, e) <= Shown(s)
  <2>1. disk[Main(s)] # None /\ Mark(s, disk[Main(s)]) >= Part(s, e)
    BY <1>4, StoreFacts DEF Shows
  <2>2. Shown(s) = Mark(s, disk[Main(s)]) /\ Shown(s) \in Nat /\ Part(s, e) \in Nat
    BY <1>2, <2>1 DEF Shown, Evidence, Part
  <2> QED BY <2>1, <2>2
<1>5. ASSUME ~Disposable, NEW s \in Stores PROVE Part(s, promised) <= Shown(s)
  <2>1. CASE promised = NoEvidence
    BY <1>2, <2>1 DEF NoEvidence, Part
  <2>2. CASE promised # NoEvidence
    <3>1. Shows(s, promised) /\ promised \in Evidence
      BY <1>1, <1>5, <2>2 DEF IInv, Answers, Types
    <3> QED BY <1>4, <3>1
  <2> QED BY <2>1, <2>2
<1> QED BY <1>2, <1>3, <1>4, <1>5

LEMMA StandsStill ==
  ASSUME UNCHANGED <<recorder, commands, disk, promised>>, (daemon # "down") = (daemon' # "down")
  PROVE  UNCHANGED <<daemon # "down", [s \in Stores |-> Now(s)], [s \in Stores |-> Shown(s)],
                     [s \in Stores |-> Part(s, promised)]>>
BY DEF Now, Shown

(* What is recorded is noted.                                               *)
LEMMA RecordedIsNoted ==
  ASSUME IInv, daemon # "down", daemon' # "down", UNCHANGED <<disk, promised>>,
         NEW size \in EventSizes, recorder' = Recorded(recorder, occurred + 1, size),
         commands' \in {commands, commands + 1}
  PROVE  Log!Note
<1>1. Keeps(recorder) /\ Total(recorder) \in Nat /\ commands \in Nat /\ occurred + 1 \in Nat \ {0}
  BY RecorderFacts, KeptFacts
<1>2. Total(recorder') = Total(recorder) + 1
  BY <1>1, RecordedKeeps
<1>3. \A s \in Stores : Now(s)' \in {Now(s), Now(s) + 1} /\ Now(s)' \in Nat
  BY <1>1, <1>2 DEF Now, Reached
<1>4. UNCHANGED <<[s \in Stores |-> Shown(s)], [s \in Stores |-> Part(s, promised)]>>
  BY DEF Shown
<1> QED BY <1>3, <1>4 DEF Log!Note

(* A daemon goes on where the disk ends.                                    *)
LEMMA StartOpens ==
  ASSUME IInv, Start, ~Disposable
  PROVE  Log!Open
<1>1. /\ daemon = "down" /\ daemon' = "starting" /\ UNCHANGED <<disk, promised>>
      /\ Types /\ Numbering /\ occurred + 1 \in Nat
  BY DEF Start, IInv, Types
<1>2. Total(recorder') = Total(Found) + 1 /\ commands' = CountFound
  BY <1>1, StartFacts
<1>3. Total(Found) = Shown("trace") /\ CountFound = Shown("metrics")
  BY <1>1, FoundKeeps
<1>4. \A s \in Stores : Shown(s) \in Nat
  BY LogFacts
<1>5. \A s \in Stores : Now(s)' \in {Shown(s), Shown(s) + 1} /\ Now(s)' \in Nat
  BY <1>2, <1>3, <1>4 DEF Now, Reached, Stores
<1>6. UNCHANGED <<[s \in Stores |-> Shown(s)], [s \in Stores |-> Part(s, promised)]>>
  BY <1>1 DEF Shown
<1> QED BY <1>1, <1>5, <1>6 DEF Log!Open

(* A rename brings a store no further than the recorders are, and never     *)
(* back.                                                                    *)
LEMMA RenameStores ==
  ASSUME IInv, NEW s \in Stores, NEW f \in Files(s), Rename(s, f), ~Disposable
  PROVE  Log!Store(s)
<1> DEFINE what == queue[s][1].what
<1>1. /\ UNCHANGED <<daemon, recorder, commands, promised>> /\ left[s] # {}
      /\ disk' = [disk EXCEPT ![f] = Head(queue[s]).what]
      /\ Types /\ disk = [g \in AllFiles |-> disk[g]]
  BY DEF Rename, IInv, Types
<1>2. /\ daemon # "down" /\ Head(queue[s]) = queue[s][1] /\ 1 \in DOMAIN queue[s]
      /\ what \in Contents(s) /\ Mark(s, what) \in Nat /\ what # None
      /\ Mark(s, what) <= Now(s) /\ Now(s) \in Nat
  BY <1>1, WriterFacts, ContentFacts
<1>3. Shown(s) <= Mark(s, what)
  BY <1>2 DEF IInv, Ordered
<1> HIDE DEF what
<1>4. /\ f \in AllFiles /\ Main(s) \in AllFiles
      /\ \A t \in Stores \ {s} : Main(t) # f /\ Main(t) \in AllFiles
  BY StoreFacts
<1>5. disk' = [disk EXCEPT ![f] = what]
  BY <1>1, <1>2 DEF what
<1>6. \A t \in Stores \ {s} : Shown(t)' = Shown(t)
  BY <1>1, <1>4, <1>5 DEF Shown
<1>7. Shown(s)' \in {Shown(s), Mark(s, what)}
  BY <1>1, <1>2, <1>4, <1>5 DEF Shown
<1>8. Shown(s) \in Nat /\ Shown(s) <= Now(s)
  BY <1>2, LogFacts
<1>9. Shown(s)' \in Shown(s)..Now(s)
  BY <1>2, <1>3, <1>7, <1>8
<1>10. [t \in Stores |-> Shown(t)]' = [[t \in Stores |-> Shown(t)] EXCEPT ![s] = Shown(s)']
  BY <1>6
<1>11. UNCHANGED <<daemon # "down", [t \in Stores |-> Now(t)], [t \in Stores |-> Part(t, promised)]>>
  BY <1>1 DEF Now
<1> QED BY <1>2, <1>9, <1>10, <1>11 DEF Log!Store

(* A call is answered as saved only of what its stores show.                *)
LEMMA AnswerIsKept ==
  ASSUME IInv, NEW c \in Calls, Answer(c), ~Disposable
  PROVE  Log!Answer
<1> DEFINE made == call[c].made
           more == [number |-> Max({promised.number, made.number}),
                    commands |-> Max({promised.commands, made.commands})]
<1>1. /\ UNCHANGED <<daemon, recorder, commands, disk>>
      /\ call[c].pc = "saving" /\ ~Waiting(c)
      /\ promised' = IF call[c].failed = {} THEN more ELSE promised
      /\ Types /\ Phases /\ call \in [Calls -> CallRecord] /\ promised \in Evidence
  BY DEF Answer, IInv, Types
<1>2. daemon # "down"
  BY <1>1 DEF Phases, Blank, IdleCall
<1>3. /\ made \in Evidence /\ promised.number \in Nat /\ promised.commands \in Nat
      /\ made.number \in Nat /\ made.commands \in Nat
  BY <1>1 DEF CallRecord, Evidence
<1>4. \A s \in Stores : /\ Part(s, more) \in {Part(s, promised), Part(s, made)}
                        /\ Part(s, more) >= Part(s, promised)
  BY <1>3, MaxOfTwo DEF Part
<1> HIDE DEF more, made
<1>5. ASSUME NEW s \in Stores PROVE Part(s, promised') \in Part(s, promised)..Shown(s)
  <2>1. Part(s, promised) \in Nat /\ Shown(s) \in Nat /\ Part(s, promised) <= Shown(s)
    BY LogFacts
  <2>2. CASE call[c].failed = {}
    <3>1. Shows(s, made)
      BY <1>1, <2>2 DEF IInv, Answers, CallFits, Waiting, made
    <3>2. Part(s, made) <= Shown(s) /\ Part(s, made) \in Nat
      BY <1>3, <3>1, LogFacts DEF Part, Evidence
    <3> QED BY <1>1, <1>4, <2>1, <2>2, <3>2
  <2>3. CASE call[c].failed # {}
    BY <1>1, <2>1, <2>3
  <2> QED BY <2>2, <2>3
<1>6. \A s \in Stores : Part(s, promised)' = Part(s, promised')
  BY DEF Part
<1>7. \A s \in Stores : Part(s, promised') \in Nat
  BY <1>5, LogFacts
<1>8. UNCHANGED <<daemon # "down", [t \in Stores |-> Now(t)], [t \in Stores |-> Shown(t)]>>
  BY <1>1 DEF Now, Shown
<1> QED BY <1>2, <1>5, <1>6, <1>7, <1>8 DEF Log!Answer

LEMMA ForgottenIsLost ==
  ASSUME daemon # "down", Forgotten, UNCHANGED <<disk, promised>>
  PROVE  Log!Lose
<1>1. \A s \in Stores : Now(s)' = 0
  BY EmptyKeeps DEF Forgotten, Now, Reached
<1>2. UNCHANGED <<[t \in Stores |-> Shown(t)], [t \in Stores |-> Part(t, promised)]>>
  BY DEF Shown
<1> QED BY <1>1, <1>2 DEF Forgotten, Log!Lose, Log!Nothing

(* The evidence of a session that keeps its files is a log per store: it    *)
(* only grows, a call is told that it is saved only of what is there, and a *)
(* daemon goes on exactly where the disk ends.                              *)
THEOREM EvidenceIsALog ==
  ASSUME ~Disposable
  PROVE  EvidenceSpec => ImplementsLog
<1>1. EvidenceInit => Log!Init
  BY EmptyKeeps DEF EvidenceInit, Log!Init, Log!Nothing, Now, Reached, Shown, NoFiles, AllFiles,
                    Main, Part, NoEvidence
<1>2. IInv /\ [EvidenceNext]_vars =>
        [Log!Next]_<<daemon # "down", [s \in Stores |-> Now(s)], [s \in Stores |-> Shown(s)],
                     [s \in Stores |-> Part(s, promised)]>>
  <2> DEFINE same == UNCHANGED <<daemon # "down", [s \in Stores |-> Now(s)],
                                 [s \in Stores |-> Shown(s)], [s \in Stores |-> Part(s, promised)]>>
             good == Log!Next \/ same
  <2> SUFFICES ASSUME IInv, [EvidenceNext]_vars PROVE good
    OBVIOUS
  <2> HIDE DEF same
  <2>1. ASSUME UNCHANGED <<recorder, commands, disk, promised>>,
               (daemon # "down") = (daemon' # "down")
        PROVE  good
    BY <2>1, StandsStill DEF same
  <2>2. ASSUME NEW c \in Calls, call[c].pc # "idle" PROVE daemon # "down" /\ daemon # "starting"
    BY <2>2 DEF IInv, Phases, Blank, IdleCall
  <2>3. CASE Start
    BY <2>3, StartOpens DEF Log!Next
  <2>4. CASE Serve
    BY <2>1, <2>4 DEF Serve
  <2>5. CASE Close
    <3>1. /\ daemon # "down" /\ daemon' # "down" /\ UNCHANGED <<disk, promised>>
          /\ recorder' = Recorded(recorder, occurred + 1, "small") /\ "small" \in EventSizes
          /\ commands' \in {commands, commands + 1}
      BY <2>5 DEF Close, EventSizes
    <3> QED BY <3>1, RecordedIsNoted DEF Log!Next
  <2>6. CASE RemoveFiles
    BY <2>1, <2>6 DEF RemoveFiles
  <2>7. CASE Exit \/ Crash
    <3>1. daemon # "down" /\ Forgotten /\ UNCHANGED <<disk, promised>>
      BY <2>7 DEF Exit, Crash
    <3> QED BY <3>1, ForgottenIsLost DEF Log!Next
  <2>8. ASSUME NEW c \in Calls, Begin(c) \/ Reject(c) \/ Save(c) PROVE good
    BY <2>1, <2>8 DEF Begin, Reject, Save
  <2>9. ASSUME NEW c \in Calls, RecordTransition(c) PROVE good
    <3>1. /\ daemon # "down" /\ daemon' # "down" /\ UNCHANGED <<disk, promised>>
          /\ recorder' = Recorded(recorder, occurred + 1, "small") /\ "small" \in EventSizes
          /\ commands' \in {commands, commands + 1}
      BY <2>9 DEF RecordTransition, EventSizes
    <3> QED BY <3>1, RecordedIsNoted DEF Log!Next
  <2>10. ASSUME NEW c \in Calls, NEW size \in Sizes[c], Record(c, size) PROVE good
    <3>1. /\ call[c].pc = "running" /\ daemon' = daemon /\ UNCHANGED <<disk, promised>>
          /\ recorder' = Recorded(recorder, occurred + 1, size)
          /\ commands' \in {commands, commands + 1} /\ size \in EventSizes
      BY <2>10, SizesOfCalls DEF Record
    <3> QED BY <2>2, <3>1, RecordedIsNoted DEF Log!Next
  <2>11. ASSUME NEW c \in Calls, Answer(c) PROVE good
    BY <2>11, AnswerIsKept DEF Log!Next
  <2>12. ASSUME NEW s \in Stores, BeginWrite(s) \/ FailWrite(s) PROVE good
    BY <2>1, <2>12 DEF BeginWrite, FailWrite
  <2>13. ASSUME NEW s \in Stores, NEW f \in Files(s), Rename(s, f) PROVE good
    BY <2>13, RenameStores DEF Log!Next
  <2>14. CASE UNCHANGED vars
    BY <2>1, <2>14 DEF vars, memory
  <2> QED BY <2>3, <2>4, <2>5, <2>6, <2>7, <2>8, <2>9, <2>10, <2>11, <2>12, <2>13, <2>14
          DEF EvidenceNext, CallStep, WriteStep
<1> QED BY <1>1, <1>2, EvidenceInvariance, PTL DEF EvidenceSpec, ImplementsLog, Log!Spec
=============================================================================
