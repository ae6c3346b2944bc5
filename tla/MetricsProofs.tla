----------------------------- MODULE MetricsProofs -----------------------------
(***************************************************************************)
(* What the metrics promise for any commands, ceilings, durations, sizes   *)
(* and numbers of actions, retries, exports and restarts.                  *)
(*                                                                         *)
(* Sums over the commands are folds.  The first part is what is needed of  *)
(* them; it rests on the well-foundedness of the naturals.                 *)
(***************************************************************************)
EXTENDS SessionMetrics, FiniteSetTheorems, WellFoundedInduction, TLAPS

(* A set of numbers with zero and every successor has all of them.          *)
LEMMA NumbersClimb ==
  ASSUME NEW Good \in SUBSET Nat, 0 \in Good, \A n \in Good : n + 1 \in Good
  PROVE  Good = Nat
<1> DEFINE R == {ss \in Nat \X Nat : ss[1] < ss[2]}
           Bad == Nat \ Good
<1> SUFFICES ASSUME Bad # {} PROVE FALSE
  OBVIOUS
<1>1. IsWellFoundedOn(R, Nat)
  BY NatLessThanWellFounded DEF OpToRel
<1>2. PICK k \in Bad : \A j \in Bad : ~(<<j, k>> \in R)
  <2> HIDE DEF R
  <2>1. Bad \subseteq Nat
    OBVIOUS
  <2> HIDE DEF Bad
  <2> QED BY <1>1, <2>1, WFMin
<1>3. k \in Nat /\ k # 0
  OBVIOUS
<1>4. k - 1 \in Nat /\ k - 1 \notin Bad
  <2>1. k - 1 \in Nat /\ k - 1 < k
    BY <1>3
  <2>2. <<k - 1, k>> \in R
    BY <1>3, <2>1
  <2> QED BY <1>2, <2>1, <2>2
<1>5. k - 1 \in Good
  BY <1>4
<1>6. (k - 1) + 1 \in Good
  BY <1>5
<1> QED BY <1>3, <1>6

Pick(s) == CHOOSE c \in s : TRUE

(* So does a set of sets of commands, one picked command after the other.   *)
LEMMA SetsClimb ==
  ASSUME NEW Good \in SUBSET (SUBSET Commands), {} \in Good,
         \A s \in SUBSET Commands : s # {} /\ s \ {Pick(s)} \in Good => s \in Good
  PROVE  Good = SUBSET Commands
<1> DEFINE Reached == {n \in Nat : \A s \in SUBSET Commands : Cardinality(s) <= n => s \in Good}
<1>1. \A s \in SUBSET Commands : IsFiniteSet(s) /\ Cardinality(s) \in Nat
  BY CommandsAreFinite, FS_Subset, FS_CardinalityType
<1>2. 0 \in Reached
  <2>1. \A s \in SUBSET Commands : Cardinality(s) <= 0 => s = {}
    BY <1>1, FS_EmptySet
  <2> QED BY <2>1
<1>3. ASSUME NEW n \in Reached PROVE n + 1 \in Reached
  <2>1. ASSUME NEW s \in SUBSET Commands, Cardinality(s) <= n + 1 PROVE s \in Good
    <3>1. CASE s = {}
      BY <3>1
    <3>2. CASE s # {}
      <4>1. Pick(s) \in s
        BY <3>2 DEF Pick
      <4>2. Cardinality(s \ {Pick(s)}) = Cardinality(s) - 1
        BY <1>1, <4>1, FS_RemoveElement
      <4>3. s \ {Pick(s)} \in SUBSET Commands /\ Cardinality(s \ {Pick(s)}) <= n
        BY <1>1, <2>1, <4>2
      <4> QED BY <3>2, <4>3
    <3> QED BY <3>1, <3>2
  <2> QED BY <2>1
<1>4. Reached = Nat
  <2>1. Reached \in SUBSET Nat
    OBVIOUS
  <2> HIDE DEF Reached
  <2> QED BY <1>2, <1>3, <2>1, NumbersClimb
<1>5. ASSUME NEW s \in SUBSET Commands PROVE s \in Good
  <2>1. Cardinality(s) \in Reached /\ Cardinality(s) <= Cardinality(s)
    BY <1>1, <1>4
  <2> QED BY <2>1
<1> QED BY <1>5

-----------------------------------------------------------------------------
(* Sums over the commands.                                                  *)
Columns == [Commands -> Nat]
Sums(f, g) ==
  g = [s \in SUBSET Commands |-> IF s = {} THEN 0 ELSE f[Pick(s)] + g[s \ {Pick(s)}]]
SumsOf(f) == CHOOSE g : Sums(f, g)

LEMMA SumIsPartial ==
  ASSUME NEW f \in Columns
  PROVE  SumFunction(f) = SumsOf(f)[Commands]
BY DEF Columns, SumFunction, SumFunctionOnSet, FoldFunctionOnSet, MapThenFoldSet, SumsOf, Sums, Pick

(* The partial sums exist: those of up to n + 1 commands follow from those  *)
(* of up to n.                                                              *)
LEMMA SumsExist ==
  ASSUME NEW f \in Columns
  PROVE  \E g : Sums(f, g)
<1> DEFINE UpTo(n) == {s \in SUBSET Commands : Cardinality(s) <= n}
           Next1(g, s) == IF s = {} THEN 0 ELSE f[Pick(s)] + g[s \ {Pick(s)}]
           Reached == {n \in Nat : \E g : \A s \in UpTo(n) : g[s] = Next1(g, s)}
<1>1. \A s \in SUBSET Commands : IsFiniteSet(s) /\ Cardinality(s) \in Nat
  BY CommandsAreFinite, FS_Subset, FS_CardinalityType
<1>2. ASSUME NEW s \in SUBSET Commands, s # {}
      PROVE  s \ {Pick(s)} \in SUBSET Commands /\ Cardinality(s \ {Pick(s)}) = Cardinality(s) - 1
  <2>1. Pick(s) \in s
    BY <1>2 DEF Pick
  <2> QED BY <1>1, <2>1, FS_RemoveElement
<1>3. 0 \in Reached
  <2>1. \A s \in UpTo(0) : s = {}
    BY <1>1, FS_EmptySet
  <2>2. \A s \in UpTo(0) : [t \in UpTo(0) |-> 0][s] = Next1([t \in UpTo(0) |-> 0], s)
    BY <2>1
  <2> QED BY <2>2
<1>4. ASSUME NEW n \in Reached PROVE n + 1 \in Reached
  <2>1. PICK g : \A s \in UpTo(n) : g[s] = Next1(g, s)
    OBVIOUS
  <2> DEFINE h == [s \in UpTo(n + 1) |-> Next1(g, s)]
  <2>2. n \in Nat /\ n + 1 \in Nat
    OBVIOUS
  <2>3. ASSUME NEW s \in UpTo(n + 1) PROVE h[s] = Next1(h, s)
    <3>1. h[s] = Next1(g, s)
      OBVIOUS
    <3>2. CASE s = {}
      BY <3>1, <3>2
    <3>3. CASE s # {}
      <4>1. s \ {Pick(s)} \in UpTo(n) /\ s \ {Pick(s)} \in UpTo(n + 1)
        BY <1>1, <1>2, <2>2, <3>3
      <4>2. h[s \ {Pick(s)}] = g[s \ {Pick(s)}]
        BY <2>1, <4>1
      <4> QED BY <3>1, <3>3, <4>2
    <3> QED BY <3>2, <3>3
  <2> HIDE DEF h, UpTo, Next1
  <2> QED BY <2>2, <2>3
<1>5. Reached = Nat
  <2>1. Reached \in SUBSET Nat
    OBVIOUS
  <2> HIDE DEF Reached
  <2> QED BY <1>3, <1>4, <2>1, NumbersClimb
<1>6. Cardinality(Commands) \in Nat /\ \A s \in SUBSET Commands : Cardinality(s) <= Cardinality(Commands)
  BY CommandsAreFinite, FS_Subset, FS_CardinalityType
<1>7. PICK g : \A s \in UpTo(Cardinality(Commands)) : g[s] = Next1(g, s)
  BY <1>5, <1>6
<1> DEFINE total == [s \in SUBSET Commands |-> g[s]]
<1>8. ASSUME NEW s \in SUBSET Commands PROVE total[s] = Next1(total, s)
  <2>1. g[s] = Next1(g, s)
    BY <1>6, <1>7
  <2>2. s # {} => total[s \ {Pick(s)}] = g[s \ {Pick(s)}]
    BY <1>2
  <2> QED BY <2>1, <2>2
<1>9. total = [s \in SUBSET Commands |-> Next1(total, s)]
  <2>1. total = [s \in SUBSET Commands |-> total[s]]
    OBVIOUS
  <2> HIDE DEF total, Next1
  <2> QED BY <1>8, <2>1
<1> QED BY <1>9 DEF Sums

LEMMA SumsStep ==
  ASSUME NEW f \in Columns
  PROVE  /\ SumsOf(f)[{}] = 0
         /\ \A s \in SUBSET Commands : s # {} =>
              SumsOf(f)[s] = f[Pick(s)] + SumsOf(f)[s \ {Pick(s)}]
<1>1. Sums(f, SumsOf(f))
  BY SumsExist DEF SumsOf
<1> QED BY <1>1 DEF Sums

LEMMA SumIsNatural ==
  ASSUME NEW f \in Columns
  PROVE  SumFunction(f) \in Nat
<1> DEFINE Good == {s \in SUBSET Commands : SumsOf(f)[s] \in Nat}
<1>1. {} \in Good
  BY SumsStep
<1>2. ASSUME NEW s \in SUBSET Commands, s # {}, s \ {Pick(s)} \in Good PROVE s \in Good
  <2>1. Pick(s) \in s
    BY <1>2 DEF Pick
  <2>2. f[Pick(s)] \in Nat /\ SumsOf(f)[s \ {Pick(s)}] \in Nat
    BY <1>2, <2>1 DEF Columns
  <2>3. SumsOf(f)[s] = f[Pick(s)] + SumsOf(f)[s \ {Pick(s)}]
    BY <1>2, SumsStep
  <2> QED BY <2>2, <2>3
<1>3. Good = SUBSET Commands
  <2>1. Good \in SUBSET (SUBSET Commands)
    OBVIOUS
  <2> HIDE DEF Good
  <2> QED BY <1>1, <1>2, <2>1, SetsClimb
<1> QED BY <1>3, SumIsPartial

LEMMA SumOfNothing ==
  ASSUME NEW f \in Columns, \A c \in Commands : f[c] = 0
  PROVE  SumFunction(f) = 0
<1> DEFINE Good == {s \in SUBSET Commands : SumsOf(f)[s] = 0}
<1>1. {} \in Good
  BY SumsStep
<1>2. ASSUME NEW s \in SUBSET Commands, s # {}, s \ {Pick(s)} \in Good PROVE s \in Good
  <2>1. Pick(s) \in s
    BY <1>2 DEF Pick
  <2>2. f[Pick(s)] = 0
    BY <2>1
  <2>3. SumsOf(f)[s] = f[Pick(s)] + SumsOf(f)[s \ {Pick(s)}]
    BY <1>2, SumsStep
  <2> QED BY <1>2, <2>2, <2>3
<1>3. Good = SUBSET Commands
  <2>1. Good \in SUBSET (SUBSET Commands)
    OBVIOUS
  <2> HIDE DEF Good
  <2> QED BY <1>1, <1>2, <2>1, SetsClimb
<1> QED BY <1>3, SumIsPartial

(* What is added in one place is added to the sum.                          *)
LEMMA SumMoves ==
  ASSUME NEW f \in Columns, NEW c \in Commands, NEW d \in Nat,
         NEW g \in Columns, g[c] = f[c] + d, \A b \in Commands \ {c} : g[b] = f[b]
  PROVE  SumFunction(g) = SumFunction(f) + d
<1> DEFINE Good == {s \in SUBSET Commands :
                      /\ SumsOf(f)[s] \in Nat
                      /\ SumsOf(g)[s] = SumsOf(f)[s] + IF c \in s THEN d ELSE 0}
<1>1. {} \in Good
  BY SumsStep
<1>2. ASSUME NEW s \in SUBSET Commands, s # {}, s \ {Pick(s)} \in Good PROVE s \in Good
  <2>1. Pick(s) \in s /\ Pick(s) \in Commands
    BY <1>2 DEF Pick
  <2>2. f[Pick(s)] \in Nat /\ SumsOf(f)[s \ {Pick(s)}] \in Nat
    BY <1>2, <2>1 DEF Columns
  <2>3. /\ SumsOf(f)[s] = f[Pick(s)] + SumsOf(f)[s \ {Pick(s)}]
        /\ SumsOf(g)[s] = g[Pick(s)] + SumsOf(g)[s \ {Pick(s)}]
    BY <1>2, SumsStep
  <2>4. SumsOf(g)[s \ {Pick(s)}] = SumsOf(f)[s \ {Pick(s)}] + IF c \in s \ {Pick(s)} THEN d ELSE 0
    BY <1>2
  <2>5. CASE Pick(s) = c
    <3>1. g[Pick(s)] = f[Pick(s)] + d /\ c \in s /\ c \notin s \ {Pick(s)}
      BY <2>1, <2>5 DEF Columns
    <3> QED BY <2>2, <2>3, <2>4, <3>1
  <2>6. CASE Pick(s) # c
    <3>1. g[Pick(s)] = f[Pick(s)] /\ (c \in s \ {Pick(s)} <=> c \in s)
      BY <2>1, <2>6 DEF Columns
    <3> QED BY <2>2, <2>3, <2>4, <3>1
  <2> QED BY <2>5, <2>6
<1>3. Good = SUBSET Commands
  <2>1. Good \in SUBSET (SUBSET Commands)
    OBVIOUS
  <2> HIDE DEF Good
  <2> QED BY <1>1, <1>2, <2>1, SetsClimb
<1>4. Commands \in Good
  BY <1>3
<1> QED BY <1>4, SumIsPartial

LEMMA SumCovers ==
  ASSUME NEW f \in Columns, NEW c \in Commands
  PROVE  f[c] <= SumFunction(f)
<1> DEFINE rest == [b \in Commands |-> IF b = c THEN 0 ELSE f[b]]
<1>1. rest \in Columns /\ f[c] \in Nat /\ rest[c] = 0
  BY DEF Columns
<1>2. f[c] = rest[c] + f[c] /\ \A b \in Commands \ {c} : f[b] = rest[b]
  BY <1>1
<1> HIDE DEF rest
<1>3. SumFunction(rest) \in Nat
  BY <1>1, SumIsNatural
<1>4. SumFunction(f) = SumFunction(rest) + f[c]
  BY <1>1, <1>2, SumMoves
<1> QED BY <1>1, <1>3, <1>4

-----------------------------------------------------------------------------
(* The invariant, of an aggregate and what really happened: of the recorder *)
(* and, since a process resumes it, of what is stored.                      *)
Within(t) == \A k \in Counters : t.counts[k] <= MaxCounter

(* Below the ceiling the totals are exact, save durations that were bounded.*)
Faithful(a, t) ==
  /\ \A k \in Counters \ {"duration"} : a.all.counts[k] = t.counts[k]
  /\ a.all.counts["duration"] <= t.counts["duration"]

(* The buckets and the unlisted calls divide the totals.                    *)
Divided(a) ==
  /\ \A k \in Counters : Listed(a, k) <= a.all.counts[k]
  /\ Listed(a, "total") + a.unlistedActions = a.all.counts["total"]
  /\ Listed(a, "retries") + a.unlistedRetries = a.all.counts["retries"]
  /\ Listed(a, "snapshots") = a.all.counts["snapshots"]
  /\ a.unlistedActions = 0 =>
       \A k \in Counters \ {"retries"} : Listed(a, k) = a.all.counts[k]
  /\ a.all.counts["requested"] <= Listed(a, "requested") + a.unlistedActions

(* The range of all durations covers those of the buckets, and is one of    *)
(* them at either end unless an unlisted action may have widened it.        *)
Covered(a) ==
  /\ \A c \in Commands : a.buckets[c].range.min # None =>
       /\ a.all.range.min # None /\ a.all.range.max # None
       /\ a.all.range.min <= a.buckets[c].range.min
       /\ a.buckets[c].range.max <= a.all.range.max
  /\ a.unlistedActions = 0 /\ a.all.counts["total"] # 0 =>
       /\ \E c \in Commands : a.buckets[c].range.min = a.all.range.min
       /\ \E c \in Commands : a.buckets[c].range.max = a.all.range.max

Sound(a) ==
  /\ Consistent(a.all) /\ PayloadsFit(a.all)
  /\ \A c \in Commands :
       Consistent(a.buckets[c]) /\ (c # Snapshot => a.buckets[c].counts["snapshots"] = 0)
  /\ Divided(a) /\ Covered(a) /\ a.segments # 0

Unclipped(a, t) ==
  ~a.saturated =>
    /\ a.segments = t.segments
    /\ a.all.counts = t.counts
    /\ Listed(a, "total") + a.unlistedActions = t.counts["total"]
    /\ Listed(a, "retries") + a.unlistedRetries = t.counts["retries"]
    /\ \A k \in Counters : Listed(a, k) <= t.counts[k]

Tells(a, t) == Unclipped(a, t) /\ (Within(t) => Faithful(a, t) /\ Sound(a))

IInv ==
  /\ MetricsTypeOK
  /\ Tells(recorder, truth)
  /\ stored # None => Tells(stored, kept)

-----------------------------------------------------------------------------
(* What is added to the counters.                                           *)
LEMMA CeilingHolds ==
  ASSUME NEW n \in 0..MaxCounter, NEW i \in Nat
  PROVE  /\ Add(n, i) \in 0..MaxCounter
         /\ n <= Add(n, i)
         /\ ~Clips(n, i) => Add(n, i) = n + i
         /\ i # 0 => Add(n, i) # 0
BY MetricsBounds DEF Add, Clips

Increments == [Counters -> Nat]

LEMMA CountedIsCapped ==
  ASSUME NEW counts \in Counts, NEW seen \in Increments
  PROVE  /\ Counted(counts, seen) \in Counts
         /\ ~Overflows(counts, seen) => Counted(counts, seen) = CountedOn(counts, seen)
<1>1. \A k \in Counters : counts[k] \in 0..MaxCounter /\ seen[k] \in Nat
  BY DEF Counts, Increments
<1>2. Counted(counts, seen) \in Counts
  BY <1>1, CeilingHolds DEF Counts, Counted
<1>3. ASSUME ~Overflows(counts, seen) PROVE Counted(counts, seen) = CountedOn(counts, seen)
  <2>1. \A k \in Counters : Add(counts[k], seen[k]) = counts[k] + seen[k]
    BY <1>1, <1>3, CeilingHolds DEF Overflows
  <2> QED BY <2>1 DEF Counted, CountedOn
<1> QED BY <1>2, <1>3

LEMMA SumsAreCounts ==
  ASSUME NEW counts \in [Counters -> Nat], NEW seen \in Increments
  PROVE  /\ CountedOn(counts, seen) \in [Counters -> Nat]
         /\ \A k \in Counters : CountedOn(counts, seen)[k] = counts[k] + seen[k]
BY DEF CountedOn, Increments

(* Everything an action can be seen as.                                     *)
Approvals == {"approved", "denied", None}
Fitting(seen, name, d) ==
  /\ seen \in Increments
  /\ seen["total"] = 1 /\ seen["succeeded"] + seen["failed"] = 1
  /\ seen["approved"] + seen["denied"] = seen["requested"] /\ seen["requested"] <= 1
  /\ seen["snapshots"] = If(name = Snapshot) /\ seen["retries"] = 0
  /\ seen["duration"] = d
  /\ seen["snapshotOutput"] <= seen["output"]
  /\ seen["snapshotUnmeasured"] <= seen["unmeasured"]

LEMMA SeenFits ==
  ASSUME NEW name, NEW failed \in BOOLEAN, NEW approval \in Approvals, NEW d \in Nat,
         NEW volume \in Volumes \cup {None}
  PROVE  Fitting(Seen(name, failed, approval, d, volume), name, d)
<1> DEFINE s == Seen(name, failed, approval, d, volume)
<1>1. /\ Output(volume).size \in Nat /\ Output(volume).unmeasured \in {0, 1}
      /\ SnapshotOutput(name, volume).size \in Nat /\ SnapshotOutput(name, volume).unmeasured \in {0, 1}
      /\ SnapshotOutput(name, volume).size <= Output(volume).size
      /\ SnapshotOutput(name, volume).unmeasured <= Output(volume).unmeasured
  BY MeasuresAreNatural DEF Output, SnapshotOutput, NoOutput, If
<1>2. /\ Approval(approval).requested \in {0, 1} /\ Approval(approval).approved \in {0, 1}
      /\ Approval(approval).denied \in {0, 1}
      /\ Approval(approval).approved + Approval(approval).denied = Approval(approval).requested
  BY NoneIsNothing DEF Approval, Approvals, If
<1>3. /\ s["total"] = 1 /\ s["succeeded"] = If(~failed) /\ s["failed"] = If(failed)
      /\ s["snapshots"] = If(name = Snapshot) /\ s["retries"] = 0
      /\ s["requested"] = Approval(approval).requested
      /\ s["approved"] = Approval(approval).approved
      /\ s["denied"] = Approval(approval).denied
      /\ s["duration"] = d
      /\ s["output"] = Output(volume).size /\ s["unmeasured"] = Output(volume).unmeasured
      /\ s["snapshotOutput"] = SnapshotOutput(name, volume).size
      /\ s["snapshotUnmeasured"] = SnapshotOutput(name, volume).unmeasured
  BY DEF Seen
<1>4. s = [k \in Counters |-> s[k]]
  BY DEF Seen, Counters
<1> HIDE DEF s
<1>5. If(~failed) \in {0, 1} /\ If(failed) \in {0, 1} /\ If(name = Snapshot) \in {0, 1}
      /\ If(~failed) + If(failed) = 1
  BY DEF If
<1>6. \A k \in Counters : s[k] \in Nat
  <2>1. \A n \in {0, 1} : n \in Nat
    OBVIOUS
  <2> QED BY <1>1, <1>2, <1>3, <1>5, <2>1 DEF Counters
<1>7. s \in Increments
  BY <1>4, <1>6 DEF Increments
<1> QED BY <1>1, <1>2, <1>3, <1>5, <1>7 DEF Fitting, s

LEMMA RetryFits ==
  /\ Retried \in Increments /\ Retried["retries"] = 1
  /\ \A k \in Counters \ {"retries"} : Retried[k] = 0
BY DEF Retried, Increments, Counters, If

(* recordDuration: the range is that of the durations, this one included.   *)
LEMMA RangeWidens ==
  ASSUME NEW range \in Spread, NEW d \in Measured
  PROVE  LET w == Widened(range, d)
         IN  /\ w \in [min : Measured, max : Measured]
             /\ w.min <= d /\ d <= w.max
             /\ w.min \in {range.min, d} /\ w.max \in {range.max, d}
             /\ range.min # None => w.min <= range.min
             /\ range.max # None => range.max <= w.max
             /\ range.min = None => w.min = d
             /\ range.max = None => w.max = d
<1>1. /\ range.min \in Measured \cup {None} /\ range.max \in Measured \cup {None}
      /\ Measured \subseteq Nat
  BY MetricsBounds DEF Spread, Measured
<1>2. ASSUME NEW x \in Nat, NEW y \in Nat
      PROVE  /\ Min({x, y}) \in {x, y} /\ Min({x, y}) <= x /\ Min({x, y}) <= y
             /\ Max({x, y}) \in {x, y} /\ x <= Max({x, y}) /\ y <= Max({x, y})
  <2>1. \E z \in {x, y} : \A u \in {x, y} : z <= u
    BY DEF Min
  <2>2. \E z \in {x, y} : \A u \in {x, y} : z >= u
    OBVIOUS
  <2>3. Min({x, y}) \in {x, y} /\ \A u \in {x, y} : Min({x, y}) <= u
    BY <2>1 DEF Min
  <2>4. Max({x, y}) \in {x, y} /\ \A u \in {x, y} : Max({x, y}) >= u
    BY <2>2 DEF Max
  <2> QED BY <2>3, <2>4
<1> DEFINE low == IF range.min = None THEN d ELSE Min({range.min, d})
           high == IF range.max = None THEN d ELSE Max({range.max, d})
<1>3. /\ low \in Measured /\ low <= d /\ low \in {range.min, d}
      /\ (range.min # None => low <= range.min) /\ (range.min = None => low = d)
  BY <1>1, <1>2
<1>4. /\ high \in Measured /\ d <= high /\ high \in {range.max, d}
      /\ (range.max # None => range.max <= high) /\ (range.max = None => high = d)
  BY <1>1, <1>2
<1>5. Widened(range, d) = [min |-> low, max |-> high]
  BY DEF Widened
<1> HIDE DEF low, high
<1> QED BY <1>3, <1>4, <1>5

(* What validateSessionMetrics asks of one bucket survives an action        *)
(* nothing clips, and a retry.                                              *)
LEMMA DurationsStillFit ==
  ASSUME NEW b \in Bucket, DurationFits(b), NEW seen \in Increments, NEW d \in Measured,
         seen["total"] = 1, seen["duration"] = d,
         b.counts["duration"] + d <= MaxCounter,
         NEW u, u.counts["total"] = b.counts["total"] + 1,
         u.counts["duration"] = b.counts["duration"] + d,
         u.range = Widened(b.range, d)
  PROVE  DurationFits(u)
<1> DEFINE n == b.counts["total"]
           e == b.counts["duration"]
           w == Widened(b.range, d)
<1>1. n \in Nat /\ e \in Nat /\ d \in Nat /\ d <= MaxDuration /\ MaxDuration \in Nat /\ MaxCounter \in Nat
  BY MetricsBounds DEF Bucket, Counts, Counters, Measured
<1>2. b.range \in Spread /\ b.range.min \in Measured \cup {None} /\ b.range.max \in Measured \cup {None}
  BY DEF Bucket, Spread
<1>3. /\ w.min \in Measured /\ w.max \in Measured /\ w.min <= d /\ d <= w.max
      /\ w.max \in {b.range.max, d} /\ (b.range.max = None => w.max = d)
  BY <1>2, RangeWidens
<1>4. None \notin Nat /\ Measured \subseteq Nat /\ None \notin Measured
  BY NoneIsNothing DEF Measured
<1>5. w.min \in Nat /\ w.max \in Nat /\ w.min <= w.max /\ w.max <= MaxDuration
      /\ w.min # None /\ w.max # None
  BY <1>1, <1>3, <1>4 DEF Measured
<1>6. /\ n = 0 => e = 0 /\ b.range.max = None
      /\ n # 0 => b.range.max # None /\ b.range.max <= e /\ e <= n * MaxDuration
  BY DEF DurationFits
<1> HIDE DEF n, e, w
<1>7. w.max <= e + d
  <2>1. CASE n = 0
    BY <1>1, <1>3, <1>6, <2>1
  <2>2. CASE n # 0
    <3>1. b.range.max \in Nat
      BY <1>2, <1>4, <1>6, <2>2
    <3> QED BY <1>1, <1>3, <1>6, <2>2, <3>1
  <2> QED BY <2>1, <2>2
<1>8. e + d <= (n + 1) * MaxDuration
  <2>1. (n + 1) * MaxDuration = n * MaxDuration + MaxDuration /\ n * MaxDuration \in Nat
    BY <1>1
  <2>2. e <= n * MaxDuration
    <3>1. CASE n = 0
      BY <1>1, <1>6, <3>1, <2>1
    <3> QED BY <1>6, <3>1
  <2> HIDE DEF n
  <2> DEFINE m == n * MaxDuration
  <2>3. m \in Nat /\ e <= m /\ (n + 1) * MaxDuration = m + MaxDuration
    BY <2>1, <2>2
  <2> HIDE DEF m
  <2>4. e + d <= m + MaxDuration
    BY <1>1, <2>3
  <2> QED BY <2>3, <2>4
<1>9. n + 1 # 0 /\ e + d <= MaxCounter
  BY <1>1 DEF e
<1>10. u.counts["total"] = n + 1 /\ u.counts["duration"] = e + d /\ u.range = w
  BY DEF n, e, w
<1> QED BY <1>5, <1>7, <1>8, <1>9, <1>10 DEF DurationFits

LEMMA UpdatedIsBucket ==
  ASSUME NEW b \in Bucket, NEW seen \in Increments, NEW d \in Measured
  PROVE  /\ Updated(b, seen, d) \in Bucket
         /\ Updated(b, seen, d).range = Widened(b.range, d)
         /\ ~Overflows(b.counts, seen) =>
              \A k \in Counters : Updated(b, seen, d).counts[k] = b.counts[k] + seen[k]
<1>1. b.counts \in Counts /\ b.range \in Spread
  BY DEF Bucket
<1>2. Counted(b.counts, seen) \in Counts
  BY <1>1, CountedIsCapped
<1>3. Widened(b.range, d) \in Spread
  BY <1>1, RangeWidens DEF Spread
<1>4. ASSUME ~Overflows(b.counts, seen)
      PROVE  \A k \in Counters : Counted(b.counts, seen)[k] = b.counts[k] + seen[k]
  BY <1>1, <1>4, CountedIsCapped DEF CountedOn
<1> QED BY <1>2, <1>3, <1>4 DEF Updated, Bucket

LEMMA ActionStaysConsistent ==
  ASSUME NEW b \in Bucket, Consistent(b), NEW name, NEW d \in Measured,
         NEW seen, Fitting(seen, name, d), ~Overflows(b.counts, seen)
  PROVE  /\ Consistent(Updated(b, seen, d))
         /\ PayloadsFit(b) => PayloadsFit(Updated(b, seen, d))
<1> DEFINE u == Updated(b, seen, d)
           c == b.counts
<1>1. /\ seen \in Increments /\ u.range = Widened(b.range, d)
      /\ \A k \in Counters : u.counts[k] = c[k] + seen[k]
  BY UpdatedIsBucket DEF Fitting
<1>2. \A k \in Counters : c[k] \in Nat /\ seen[k] \in Nat
  BY <1>1 DEF Bucket, Counts, Increments
<1> HIDE DEF u
<1>3. /\ seen["total"] = 1 /\ seen["succeeded"] + seen["failed"] = 1
      /\ seen["approved"] + seen["denied"] = seen["requested"] /\ seen["requested"] <= 1
      /\ seen["snapshots"] \in {0, 1} /\ seen["duration"] = d
      /\ seen["snapshotOutput"] <= seen["output"]
      /\ seen["snapshotUnmeasured"] <= seen["unmeasured"]
  BY DEF Fitting, If
<1>4. /\ c["succeeded"] + c["failed"] = c["total"]
      /\ c["approved"] + c["denied"] = c["requested"]
      /\ DurationFits(b) /\ c["snapshots"] <= c["total"] /\ c["requested"] <= c["total"]
  BY DEF Consistent
<1>5. DurationFits(u)
  <2>1. ~Clips(c["duration"], seen["duration"])
    BY DEF Overflows, Counters
  <2>2. c["duration"] + d <= MaxCounter
    BY <1>2, <1>3, <2>1, MetricsBounds DEF Clips, Counters
  <2>3. u.counts["total"] = c["total"] + 1 /\ u.counts["duration"] = c["duration"] + d
    BY <1>1, <1>3 DEF Counters
  <2> HIDE DEF c
  <2> QED BY <1>1, <1>3, <1>4, <2>2, <2>3, DurationsStillFit DEF c
<1> HIDE DEF c
<1>6. /\ {"total", "succeeded", "failed", "snapshots", "requested", "approved", "denied"} \subseteq Counters
      /\ {"output", "unmeasured", "snapshotOutput", "snapshotUnmeasured"} \subseteq Counters
  BY DEF Counters
<1>7. /\ u.counts["succeeded"] + u.counts["failed"] = u.counts["total"]
      /\ u.counts["snapshots"] <= u.counts["total"]
  BY <1>1, <1>2, <1>3, <1>4, <1>6
<1>8. /\ u.counts["approved"] + u.counts["denied"] = u.counts["requested"]
      /\ u.counts["requested"] <= u.counts["total"]
  BY <1>1, <1>2, <1>3, <1>4, <1>6
<1>9. ASSUME PayloadsFit(b) PROVE PayloadsFit(u)
  <2>1. c["snapshotOutput"] <= c["output"] /\ c["snapshotUnmeasured"] <= c["unmeasured"]
    BY <1>9 DEF PayloadsFit, c
  <2> QED BY <1>1, <1>2, <1>3, <1>6, <2>1 DEF PayloadsFit
<1> QED BY <1>5, <1>7, <1>8, <1>9 DEF Consistent, u

LEMMA RetriedIsBucket ==
  ASSUME NEW b \in Bucket
  PROVE  /\ RetriedIn(b) \in Bucket /\ RetriedIn(b).range = b.range
         /\ b.counts["retries"] < MaxCounter => RetriedIn(b).counts["retries"] = b.counts["retries"] + 1
         /\ \A k \in Counters \ {"retries"} : RetriedIn(b).counts[k] = b.counts[k]
<1>1. b.counts \in Counts /\ b = [counts |-> b.counts, range |-> b.range] /\ b.range \in Spread
  BY DEF Bucket
<1>2. \A k \in Counters : b.counts[k] \in 0..MaxCounter
  BY <1>1 DEF Counts
<1>3. Counted(b.counts, Retried) \in Counts
  BY <1>1, RetryFits, CountedIsCapped
<1>4. \A k \in Counters : Counted(b.counts, Retried)[k] = Add(b.counts[k], Retried[k])
  BY DEF Counted
<1>5. \A k \in Counters \ {"retries"} : Add(b.counts[k], 0) = b.counts[k]
  BY <1>2, MetricsBounds DEF Add
<1>6. b.counts["retries"] < MaxCounter => Add(b.counts["retries"], 1) = b.counts["retries"] + 1
  BY <1>2, MetricsBounds DEF Add, Counters
<1>7. RetriedIn(b) = [counts |-> Counted(b.counts, Retried), range |-> b.range]
  BY <1>1 DEF RetriedIn
<1>8. \A k \in Counters \ {"retries"} : Counted(b.counts, Retried)[k] = b.counts[k]
  BY <1>4, <1>5, RetryFits
<1>9. b.counts["retries"] < MaxCounter => Counted(b.counts, Retried)["retries"] = b.counts["retries"] + 1
  BY <1>4, <1>6, RetryFits DEF Counters
<1> QED BY <1>1, <1>3, <1>7, <1>8, <1>9 DEF Bucket

LEMMA RetryStaysConsistent ==
  ASSUME NEW b \in Bucket, Consistent(b)
  PROVE  /\ Consistent(RetriedIn(b))
         /\ PayloadsFit(b) => PayloadsFit(RetriedIn(b))
<1>1. RetriedIn(b).range = b.range /\ \A k \in Counters \ {"retries"} : RetriedIn(b).counts[k] = b.counts[k]
  BY RetriedIsBucket
<1> QED BY <1>1 DEF Consistent, PayloadsFit, DurationFits, Counters

-----------------------------------------------------------------------------
(* What an action and a retry leave in the parts of an aggregate.           *)
LEMMA PartsOfAggregate ==
  ASSUME NEW a \in Aggregate
  PROVE  /\ a.all \in Bucket /\ a.segments \in 0..MaxCounter /\ a.saturated \in BOOLEAN
         /\ a.unlistedActions \in 0..MaxCounter /\ a.unlistedRetries \in 0..MaxCounter
         /\ a.buckets \in [Commands -> Bucket]
         /\ a = [all |-> a.all, segments |-> a.segments, saturated |-> a.saturated,
                 unlistedActions |-> a.unlistedActions, unlistedRetries |-> a.unlistedRetries,
                 buckets |-> a.buckets]
BY DEF Aggregate

LEMMA BoundedIsMeasured ==
  ASSUME NEW duration \in Durations \cup {None}
  PROVE  /\ Bounded(duration) \in Measured /\ Bounded(duration) <= Elapsed(duration)
         /\ Elapsed(duration) \in Nat /\ Bounded(duration) \in Nat
         /\ ~OutOfRange(duration) => Bounded(duration) = Elapsed(duration)
<1>1. /\ MaxDuration \in Nat /\ None \notin Nat
      /\ duration \in Nat \/ duration = None
  BY MetricsBounds, MeasuresAreNatural, NoneIsNothing
<1>2. CASE duration = None
  BY <1>1, <1>2 DEF Bounded, Elapsed, OutOfRange, Measured
<1>3. CASE duration # None
  BY <1>1, <1>3 DEF Bounded, Elapsed, OutOfRange, Measured
<1> QED BY <1>2, <1>3

ActionLeaves(a, name, seen, duration, r) ==
  /\ r \in Aggregate
  /\ r.all = Updated(a.all, seen, Bounded(duration)) /\ r.segments = a.segments
  /\ r.unlistedRetries = a.unlistedRetries
  /\ ~r.saturated =>
       /\ ~a.saturated /\ ~OutOfRange(duration) /\ ~Overflows(a.all.counts, seen)
       /\ name \in Commands => ~Overflows(a.buckets[name].counts, seen)
       /\ name \notin Commands => ~Clips(a.unlistedActions, 1)
  /\ name \in Commands =>
       /\ r.unlistedActions = a.unlistedActions
       /\ r.buckets = [a.buckets EXCEPT ![name] = Updated(a.buckets[name], seen, Bounded(duration))]
  /\ name \notin Commands =>
       r.unlistedActions = Add(a.unlistedActions, 1) /\ r.buckets = a.buckets

LEMMA ActionParts ==
  ASSUME NEW a \in Aggregate, NEW name, NEW seen \in Increments,
         NEW duration \in Durations \cup {None},
         NEW r, r = WithAction(a, name, seen, duration)
  PROVE  ActionLeaves(a, name, seen, duration, r)
<1> DEFINE d == Bounded(duration)
           clips == \/ OutOfRange(duration)
                    \/ Overflows(a.all.counts, seen)
                    \/ IF name \in Commands THEN Overflows(a.buckets[name].counts, seen)
                       ELSE Clips(a.unlistedActions, 1)
           bs == IF name \in Commands
                 THEN [a.buckets EXCEPT ![name] = Updated(a.buckets[name], seen, d)] ELSE a.buckets
           ua == IF name \in Commands THEN a.unlistedActions ELSE Add(a.unlistedActions, 1)
           sat == a.saturated \/ clips
<1>0. d \in Measured
  BY BoundedIsMeasured
<1>1. r = [a EXCEPT !.all = Updated(a.all, seen, d), !.saturated = sat,
                    !.unlistedActions = ua, !.buckets = bs]
  BY DEF WithAction
<1>2. Updated(a.all, seen, d) \in Bucket
  BY <1>0, PartsOfAggregate, UpdatedIsBucket
<1>3. ua \in 0..MaxCounter
  BY PartsOfAggregate, CeilingHolds
<1>4. bs \in [Commands -> Bucket]
  <2>1. a.buckets \in [Commands -> Bucket]
    BY PartsOfAggregate
  <2>2. name \in Commands => Updated(a.buckets[name], seen, d) \in Bucket
    BY <1>0, <2>1, UpdatedIsBucket
  <2> QED BY <2>1, <2>2
<1>5. sat \in BOOLEAN /\ (sat <=> a.saturated \/ clips)
  BY PartsOfAggregate
<1>6. /\ name \in Commands => /\ ua = a.unlistedActions
                              /\ bs = [a.buckets EXCEPT ![name] = Updated(a.buckets[name], seen, d)]
      /\ name \notin Commands => ua = Add(a.unlistedActions, 1) /\ bs = a.buckets
  OBVIOUS
<1> HIDE DEF bs, ua, sat, d
<1>7. /\ r.all = Updated(a.all, seen, d) /\ r.saturated = sat /\ r.unlistedActions = ua
      /\ r.buckets = bs /\ r.segments = a.segments /\ r.unlistedRetries = a.unlistedRetries
  BY <1>1 DEF Aggregate
<1>8. r \in Aggregate
  BY <1>1, <1>2, <1>3, <1>4, <1>5 DEF Aggregate
<1>9. ~r.saturated =>
        /\ ~a.saturated /\ ~OutOfRange(duration) /\ ~Overflows(a.all.counts, seen)
        /\ name \in Commands => ~Overflows(a.buckets[name].counts, seen)
        /\ name \notin Commands => ~Clips(a.unlistedActions, 1)
  BY <1>5, <1>7
<1> HIDE DEF clips
<1>10. /\ name \in Commands =>
            /\ r.unlistedActions = a.unlistedActions
            /\ r.buckets = [a.buckets EXCEPT ![name] = Updated(a.buckets[name], seen, d)]
       /\ name \notin Commands =>
            r.unlistedActions = Add(a.unlistedActions, 1) /\ r.buckets = a.buckets
  BY <1>6, <1>7
<1>11. /\ r.all = Updated(a.all, seen, Bounded(duration)) /\ r.segments = a.segments
       /\ r.unlistedRetries = a.unlistedRetries
  BY <1>7 DEF d
<1> QED BY <1>8, <1>9, <1>10, <1>11 DEF d, ActionLeaves

RetryLeaves(a, name, r) ==
  /\ r \in Aggregate
  /\ r.all = RetriedIn(a.all) /\ r.segments = a.segments
  /\ r.unlistedActions = a.unlistedActions
  /\ ~r.saturated => ~a.saturated /\ ~Clips(a.all.counts["retries"], 1)
  /\ name \in Commands =>
       /\ r.unlistedRetries = a.unlistedRetries
       /\ r.buckets = [a.buckets EXCEPT ![name] = RetriedIn(a.buckets[name])]
  /\ name \notin Commands =>
       r.unlistedRetries = Add(a.unlistedRetries, 1) /\ r.buckets = a.buckets

LEMMA RetryParts ==
  ASSUME NEW a \in Aggregate, NEW name,
         NEW r, r = WithRetry(a, name)
  PROVE  RetryLeaves(a, name, r)
<1> DEFINE bs == IF name \in Commands
                 THEN [a.buckets EXCEPT ![name] = RetriedIn(a.buckets[name])] ELSE a.buckets
           ur == IF name \in Commands THEN a.unlistedRetries ELSE Add(a.unlistedRetries, 1)
           sat == a.saturated \/ Clips(a.all.counts["retries"], 1)
<1>1. r = [a EXCEPT !.all = RetriedIn(a.all), !.saturated = sat,
                    !.unlistedRetries = ur, !.buckets = bs]
  BY DEF WithRetry
<1>2. RetriedIn(a.all) \in Bucket
  BY PartsOfAggregate, RetriedIsBucket
<1>3. ur \in 0..MaxCounter
  BY PartsOfAggregate, CeilingHolds
<1>4. bs \in [Commands -> Bucket]
  <2>1. a.buckets \in [Commands -> Bucket]
    BY PartsOfAggregate
  <2>2. name \in Commands => RetriedIn(a.buckets[name]) \in Bucket
    BY <2>1, RetriedIsBucket
  <2> QED BY <2>1, <2>2
<1>5. sat \in BOOLEAN
  BY PartsOfAggregate DEF Clips
<1>6. /\ name \in Commands => /\ ur = a.unlistedRetries
                              /\ bs = [a.buckets EXCEPT ![name] = RetriedIn(a.buckets[name])]
      /\ name \notin Commands => ur = Add(a.unlistedRetries, 1) /\ bs = a.buckets
  OBVIOUS
<1> HIDE DEF bs, ur
<1>7. /\ r.all = RetriedIn(a.all) /\ r.saturated = sat /\ r.unlistedRetries = ur
      /\ r.buckets = bs /\ r.segments = a.segments /\ r.unlistedActions = a.unlistedActions
  BY <1>1 DEF Aggregate
<1>8. r \in Aggregate
  BY <1>1, <1>2, <1>3, <1>4, <1>5 DEF Aggregate
<1>9. ~r.saturated => ~a.saturated /\ ~Clips(a.all.counts["retries"], 1)
  BY <1>5, <1>7
<1> HIDE DEF sat
<1>10. /\ name \in Commands =>
            /\ r.unlistedRetries = a.unlistedRetries
            /\ r.buckets = [a.buckets EXCEPT ![name] = RetriedIn(a.buckets[name])]
       /\ name \notin Commands =>
            r.unlistedRetries = Add(a.unlistedRetries, 1) /\ r.buckets = a.buckets
  BY <1>6, <1>7
<1>11. /\ r.all = RetriedIn(a.all) /\ r.segments = a.segments
       /\ r.unlistedActions = a.unlistedActions
  BY <1>7
<1> QED BY <1>8, <1>9, <1>10, <1>11 DEF RetryLeaves

LEMMA ResumedParts ==
  ASSUME NEW a \in Aggregate,
         NEW r, r = Resumed(a)
  PROVE  /\ r \in Aggregate
         /\ r.all = a.all /\ r.buckets = a.buckets
         /\ r.unlistedActions = a.unlistedActions /\ r.unlistedRetries = a.unlistedRetries
         /\ r.segments = Add(a.segments, 1) /\ r.segments # 0
         /\ ~r.saturated => ~a.saturated /\ ~Clips(a.segments, 1)
<1>1. Add(a.segments, 1) \in 0..MaxCounter /\ Add(a.segments, 1) # 0
  BY PartsOfAggregate, CeilingHolds
<1>2. (a.saturated \/ Clips(a.segments, 1)) \in BOOLEAN
  BY PartsOfAggregate DEF Clips
<1> QED BY <1>1, <1>2 DEF Aggregate, Resumed

LEMMA CountsOfTruth ==
  ASSUME NEW t \in Truth, NEW real \in Increments, NEW u, u = Happened(t, real)
  PROVE  /\ u \in Truth /\ u.segments = t.segments /\ u.counts = CountedOn(t.counts, real)
         /\ \A k \in Counters : /\ t.counts[k] \in Nat /\ real[k] \in Nat
                                /\ u.counts[k] = t.counts[k] + real[k]
<1>1. t.counts \in [Counters -> Nat]
  BY DEF Truth
<1>2. CountedOn(t.counts, real) \in [Counters -> Nat]
  BY <1>1, SumsAreCounts
<1>3. u \in Truth /\ u.segments = t.segments /\ u.counts = CountedOn(t.counts, real)
  BY <1>2 DEF Truth, Happened
<1>4. \A k \in Counters : CountedOn(t.counts, real)[k] = t.counts[k] + real[k]
  BY DEF CountedOn
<1> QED BY <1>1, <1>3, <1>4 DEF Increments

LEMMA EmptyParts ==
  /\ EmptyBucket \in Bucket /\ EmptyAggregate \in Aggregate /\ NothingYet \in Truth
  /\ \A k \in Counters : EmptyBucket.counts[k] = 0
  /\ EmptyBucket.range = [min |-> None, max |-> None]
<1>1. 0 \in 0..MaxCounter /\ 1 \in 0..MaxCounter /\ 1 \in 1..MaxCounter + 1
  BY MetricsBounds
<1>2. EmptyBucket.counts \in Counts /\ EmptyBucket.counts \in [Counters -> Nat]
  BY <1>1 DEF EmptyBucket, Counts
<1>3. EmptyBucket.range \in Spread
  BY DEF EmptyBucket, Spread
<1>4. EmptyBucket = [counts |-> EmptyBucket.counts, range |-> EmptyBucket.range]
  BY DEF EmptyBucket
<1>5. EmptyBucket \in Bucket
  BY <1>2, <1>3, <1>4 DEF Bucket
<1>6. EmptyAggregate \in Aggregate
  BY <1>1, <1>5 DEF EmptyAggregate, Aggregate
<1>7. NothingYet \in Truth
  BY <1>1, <1>2 DEF NothingYet, Truth
<1> QED BY <1>5, <1>6, <1>7 DEF EmptyBucket

(* Every variable keeps its type, whatever is recorded, stored and resumed. *)
LEMMA TypesHold == MetricsInit => MetricsTypeOK
BY EmptyParts DEF MetricsInit, MetricsTypeOK

LEMMA TypesKept ==
  ASSUME MetricsTypeOK, [MetricsNext]_vars
  PROVE  MetricsTypeOK'
<1>1. /\ recorder \in Aggregate /\ stored \in Aggregate \cup {None} /\ truth \in Truth /\ kept \in Truth
  BY DEF MetricsTypeOK
<1>2. ASSUME NEW name \in Names, NEW failed \in BOOLEAN, NEW approval \in Approvals,
             NEW duration \in Durations \cup {None}, NEW volume \in Volumes \cup {None},
             RecordAction(name, failed, approval, duration, volume)
      PROVE  MetricsTypeOK'
  <2> DEFINE seen == Seen(name, failed, approval, Bounded(duration), volume)
             real == Seen(name, failed, approval, Elapsed(duration), volume)
  <2>1. seen \in Increments /\ real \in Increments
    BY BoundedIsMeasured, SeenFits DEF Fitting
  <2>2. recorder' = WithAction(recorder, name, seen, duration)
    BY <1>2 DEF RecordAction
  <2>3. truth' = Happened(truth, real)
    BY <1>2 DEF RecordAction
  <2> HIDE DEF seen, real
  <2>4. recorder' \in Aggregate
    BY <1>1, <2>1, <2>2, ActionParts DEF ActionLeaves
  <2>5. truth' \in Truth
    BY <1>1, <2>1, <2>3, CountsOfTruth
  <2>6. stored' = stored /\ kept' = kept
    BY <1>2 DEF RecordAction
  <2> QED BY <1>1, <2>4, <2>5, <2>6 DEF MetricsTypeOK
<1>3. ASSUME NEW name \in Names, RecordRetry(name) PROVE MetricsTypeOK'
  <2>1. recorder' \in Aggregate
    BY <1>1, <1>3, RetryParts DEF RecordRetry, RetryLeaves
  <2>2. truth' = Happened(truth, Retried)
    BY <1>3 DEF RecordRetry
  <2>3. truth' \in Truth
    BY <1>1, <2>2, RetryFits, CountsOfTruth
  <2>4. stored' = stored /\ kept' = kept
    BY <1>3 DEF RecordRetry
  <2> QED BY <1>1, <2>1, <2>3, <2>4 DEF MetricsTypeOK
<1>4. CASE Store
  BY <1>1, <1>4 DEF Store, MetricsTypeOK
<1>5. CASE Reopen
  <2>1. stored \in Aggregate /\ recorder' = Resumed(stored)
    BY <1>1, <1>5 DEF Reopen
  <2>2. recorder' \in Aggregate
    BY <2>1, ResumedParts
  <2>3. truth' \in Truth
    <3>1. kept.segments \in 1..MaxCounter + 1 /\ MaxCounter \in Nat
      BY <1>1, MetricsBounds DEF Truth
    <3>2. (IF kept.segments > MaxCounter THEN kept.segments ELSE kept.segments + 1) \in 1..MaxCounter + 1
      BY <3>1
    <3> QED BY <1>1, <1>5, <3>2 DEF Reopen, Truth
  <2> QED BY <1>1, <1>5, <2>2, <2>3 DEF Reopen, MetricsTypeOK
<1>6. CASE UNCHANGED vars
  BY <1>1, <1>6 DEF vars, MetricsTypeOK
<1> QED BY <1>2, <1>3, <1>4, <1>5, <1>6 DEF MetricsNext, Approvals

-----------------------------------------------------------------------------
(* Listed, when one bucket moves or none does.                              *)
Column(a, k) == [c \in Commands |-> a.buckets[c].counts[k]]

LEMMA ColumnsAreNatural ==
  ASSUME NEW a \in Aggregate, NEW k \in Counters
  PROVE  /\ Column(a, k) \in Columns /\ Listed(a, k) = SumFunction(Column(a, k))
         /\ Listed(a, k) \in Nat
         /\ \A c \in Commands : a.buckets[c].counts[k] \in Nat /\ a.buckets[c].counts[k] <= Listed(a, k)
<1>1. a.buckets \in [Commands -> Bucket]
  BY PartsOfAggregate
<1>2. ASSUME NEW c \in Commands PROVE a.buckets[c].counts[k] \in Nat
  <2>1. a.buckets[c] \in Bucket
    BY <1>1
  <2>2. a.buckets[c].counts \in Counts
    BY <2>1 DEF Bucket
  <2> QED BY <2>2, MetricsBounds DEF Counts
<1>3. Column(a, k) \in Columns
  BY <1>2 DEF Column, Columns
<1>4. Listed(a, k) = SumFunction(Column(a, k))
  BY DEF Listed, Column
<1>5. \A c \in Commands : Column(a, k)[c] = a.buckets[c].counts[k]
  BY DEF Column
<1> QED BY <1>2, <1>3, <1>4, <1>5, SumIsNatural, SumCovers

LEMMA ListedMoves ==
  ASSUME NEW a \in Aggregate, NEW r \in Aggregate, NEW name \in Commands, NEW k \in Counters,
         NEW b, r.buckets = [a.buckets EXCEPT ![name] = b],
         NEW n \in Nat, b.counts[k] = a.buckets[name].counts[k] + n
  PROVE  Listed(r, k) = Listed(a, k) + n
<1>1. a.buckets \in [Commands -> Bucket]
  BY PartsOfAggregate
<1>2. \A c \in Commands : r.buckets[c] = IF c = name THEN b ELSE a.buckets[c]
  BY <1>1
<1>3. \A c \in Commands : Column(r, k)[c] = IF c = name THEN Column(a, k)[name] + n ELSE Column(a, k)[c]
  BY <1>2 DEF Column
<1>4. Column(a, k) \in Columns /\ Column(r, k) \in Columns
  BY ColumnsAreNatural
<1>5. Column(r, k)[name] = Column(a, k)[name] + n
  BY <1>3
<1>6. SumFunction(Column(r, k)) = SumFunction(Column(a, k)) + n
  <2>1. \A c \in Commands \ {name} : Column(r, k)[c] = Column(a, k)[c]
    BY <1>3
  <2> QED BY <1>4, <1>5, <2>1, SumMoves
<1>7. Listed(r, k) = SumFunction(Column(r, k)) /\ Listed(a, k) = SumFunction(Column(a, k))
  BY DEF Listed, Column
<1> QED BY <1>6, <1>7

LEMMA ListedStays ==
  ASSUME NEW a, NEW r, r.buckets = a.buckets
  PROVE  \A k \in Counters : Listed(r, k) = Listed(a, k)
BY DEF Listed

(* Nothing is clipped as long as what really happened is below the ceiling. *)
LEMMA RoomIsLeft ==
  ASSUME NEW a \in Aggregate, NEW t \in Truth, Faithful(a, t), Divided(a),
         NEW seen \in Increments, NEW real \in Increments,
         \A k \in Counters : seen[k] <= real[k],
         \A k \in Counters : t.counts[k] + real[k] <= MaxCounter
  PROVE  /\ ~Overflows(a.all.counts, seen)
         /\ \A c \in Commands : ~Overflows(a.buckets[c].counts, seen)
<1>1. a.all.counts \in Counts /\ MaxCounter \in Nat
  BY PartsOfAggregate, MetricsBounds DEF Bucket
<1>2. ASSUME NEW k \in Counters PROVE a.all.counts[k] + seen[k] <= MaxCounter
  <2>1. a.all.counts[k] <= t.counts[k]
    <3>1. a.all.counts[k] \in Nat
      BY <1>1 DEF Counts
    <3> QED BY <3>1 DEF Faithful
  <2>2. a.all.counts[k] \in Nat /\ seen[k] \in Nat /\ real[k] \in Nat /\ t.counts[k] \in Nat
    BY <1>1 DEF Counts, Increments, Truth
  <2> QED BY <1>1, <2>1, <2>2
<1>3. ASSUME NEW c \in Commands, NEW k \in Counters PROVE a.buckets[c].counts[k] + seen[k] <= MaxCounter
  <2>1. a.buckets[c].counts[k] \in Nat /\ a.buckets[c].counts[k] <= Listed(a, k) /\ Listed(a, k) \in Nat
    BY ColumnsAreNatural
  <2>2. Listed(a, k) <= a.all.counts[k]
    BY DEF Divided
  <2>3. a.all.counts[k] \in Nat /\ seen[k] \in Nat
    BY <1>1 DEF Counts, Increments
  <2> QED BY <1>1, <1>2, <2>1, <2>2, <2>3
<1>4. ASSUME NEW k \in Counters PROVE ~Clips(a.all.counts[k], seen[k])
  <2>1. a.all.counts[k] \in Nat /\ seen[k] \in Nat
    BY <1>1 DEF Counts, Increments
  <2> QED BY <1>1, <1>2, <2>1 DEF Clips
<1>5. ASSUME NEW c \in Commands, NEW k \in Counters PROVE ~Clips(a.buckets[c].counts[k], seen[k])
  <2>1. a.buckets[c].counts[k] \in Nat /\ seen[k] \in Nat
    BY ColumnsAreNatural DEF Increments
  <2> QED BY <1>1, <1>3, <2>1 DEF Clips
<1> QED BY <1>4, <1>5 DEF Overflows

(* The parts of an action nothing clips, for a command and for another name.*)
LEMMA DividedKept ==
  ASSUME NEW a \in Aggregate, NEW r \in Aggregate, NEW name, NEW d, NEW seen, Fitting(seen, name, d),
         \A k \in Counters : r.all.counts[k] = a.all.counts[k] + seen[k],
         r.unlistedRetries = a.unlistedRetries,
         \/ /\ name \in Commands /\ r.unlistedActions = a.unlistedActions
            /\ \A k \in Counters : Listed(r, k) = Listed(a, k) + seen[k]
         \/ /\ name \notin Commands /\ r.unlistedActions = a.unlistedActions + 1
            /\ \A k \in Counters : Listed(r, k) = Listed(a, k),
         Divided(a)
  PROVE  Divided(r)
<1>1. \A k \in Counters : Listed(a, k) \in Nat /\ a.all.counts[k] \in Nat /\ seen[k] \in Nat
  BY ColumnsAreNatural, PartsOfAggregate DEF Bucket, Counts, Fitting, Increments
<1>2. a.unlistedActions \in Nat /\ a.unlistedRetries \in Nat
  BY PartsOfAggregate
<1>3. /\ seen["total"] = 1 /\ seen["retries"] = 0 /\ seen["requested"] <= 1
      /\ name \notin Commands => seen["snapshots"] = 0
  BY SnapshotIsPublic DEF Fitting, If
<1>4. {"total", "retries", "snapshots", "requested"} \subseteq Counters
  BY DEF Counters
<1>5. /\ \A k \in Counters : Listed(a, k) <= a.all.counts[k]
      /\ Listed(a, "total") + a.unlistedActions = a.all.counts["total"]
      /\ Listed(a, "retries") + a.unlistedRetries = a.all.counts["retries"]
      /\ Listed(a, "snapshots") = a.all.counts["snapshots"]
      /\ a.unlistedActions = 0 => \A k \in Counters \ {"retries"} : Listed(a, k) = a.all.counts[k]
      /\ a.all.counts["requested"] <= Listed(a, "requested") + a.unlistedActions
  BY DEF Divided
<1>6. CASE name \in Commands
  <2>1. r.unlistedActions = a.unlistedActions /\ \A k \in Counters : Listed(r, k) = Listed(a, k) + seen[k]
    BY <1>6
  <2>2. \A k \in Counters : Listed(r, k) <= r.all.counts[k]
    BY <1>1, <1>5, <2>1
  <2>3. /\ Listed(r, "total") + r.unlistedActions = r.all.counts["total"]
        /\ Listed(r, "retries") + r.unlistedRetries = r.all.counts["retries"]
    BY <1>1, <1>2, <1>4, <1>5, <2>1
  <2>4. /\ Listed(r, "snapshots") = r.all.counts["snapshots"]
        /\ r.all.counts["requested"] <= Listed(r, "requested") + r.unlistedActions
    BY <1>1, <1>2, <1>4, <1>5, <2>1
  <2>5. r.unlistedActions = 0 => \A k \in Counters \ {"retries"} : Listed(r, k) = r.all.counts[k]
    BY <1>5, <2>1
  <2> QED BY <2>2, <2>3, <2>4, <2>5 DEF Divided
<1>7. CASE name \notin Commands
  <2>1. r.unlistedActions = a.unlistedActions + 1 /\ \A k \in Counters : Listed(r, k) = Listed(a, k)
    BY <1>7
  <2>2. \A k \in Counters : Listed(r, k) <= r.all.counts[k]
    BY <1>1, <1>5, <2>1
  <2>3. /\ Listed(r, "total") + r.unlistedActions = r.all.counts["total"]
        /\ Listed(r, "retries") + r.unlistedRetries = r.all.counts["retries"]
    BY <1>1, <1>2, <1>3, <1>4, <1>5, <2>1
  <2>4. /\ Listed(r, "snapshots") = r.all.counts["snapshots"]
        /\ r.all.counts["requested"] <= Listed(r, "requested") + r.unlistedActions
    BY <1>1, <1>2, <1>3, <1>4, <1>5, <1>7, <2>1
  <2>5. r.unlistedActions # 0
    BY <1>2, <2>1
  <2> QED BY <2>2, <2>3, <2>4, <2>5 DEF Divided
<1> QED BY <1>6, <1>7

(* The ranges: that of all durations goes on covering those of the buckets. *)
Empty(range) == range.min = None
Covers(p, q) ==
  ~Empty(q) => p.min # None /\ p.max # None /\ p.min <= q.min /\ q.max <= p.max

LEMMA RangesAreWhole ==
  ASSUME NEW b \in Bucket, Consistent(b)
  PROVE  /\ b.range \in Spread /\ (b.range.min = None <=> b.range.max = None)
         /\ b.range.min = None <=> b.counts["total"] = 0
         /\ b.range.min # None => b.range.min \in Nat /\ b.range.max \in Nat
<1>1. b.range \in Spread /\ b.range.min \in Measured \cup {None} /\ b.range.max \in Measured \cup {None}
  BY DEF Bucket, Spread
<1>2. Measured \subseteq Nat
  BY DEF Measured
<1> QED BY <1>1, <1>2 DEF Consistent, DurationFits

LEMMA WidenedCovers ==
  ASSUME NEW p \in Spread, NEW q \in Spread, NEW d \in Measured,
         q.min = None <=> q.max = None, Covers(p, q)
  PROVE  Covers(Widened(p, d), q) /\ Covers(Widened(p, d), Widened(q, d))
<1> DEFINE v == Widened(p, d)
           w == Widened(q, d)
<1>1. /\ p.min \in Measured \cup {None} /\ p.max \in Measured \cup {None}
      /\ q.min \in Measured \cup {None} /\ q.max \in Measured \cup {None}
      /\ Measured \subseteq Nat /\ None \notin Measured
  BY NoneIsNothing DEF Spread, Measured
<1>2. /\ v.min \in Measured /\ v.max \in Measured /\ v.min <= d /\ d <= v.max
      /\ p.min # None => v.min <= p.min
      /\ p.max # None => p.max <= v.max
  BY RangeWidens
<1>3. /\ w.min \in Measured /\ w.max \in Measured
      /\ w.min \in {q.min, d} /\ w.max \in {q.max, d}
  BY RangeWidens
<1> HIDE DEF v, w
<1>4. ASSUME q.min # None PROVE v.min <= q.min /\ q.max <= v.max
  <2>1. /\ p.min # None /\ p.max # None /\ q.max # None
        /\ p.min <= q.min /\ q.max <= p.max
    BY <1>4 DEF Covers, Empty
  <2>2. p.min \in Nat /\ p.max \in Nat /\ q.min \in Nat /\ q.max \in Nat /\ v.min \in Nat /\ v.max \in Nat
    BY <1>1, <1>2, <1>4, <2>1
  <2> QED BY <1>2, <2>1, <2>2
<1>5. v.min # None /\ v.max # None
  BY <1>1, <1>2
<1>6. v.min <= w.min
  <2>1. CASE w.min = d
    BY <1>2, <2>1
  <2>2. CASE w.min = q.min
    BY <1>1, <1>3, <1>4, <2>2
  <2> QED BY <1>3, <2>1, <2>2
<1>7. w.max <= v.max
  <2>1. CASE w.max = d
    BY <1>2, <2>1
  <2>2. CASE w.max = q.max
    BY <1>1, <1>3, <1>4, <2>2
  <2> QED BY <1>3, <2>1, <2>2
<1> QED BY <1>4, <1>5, <1>6, <1>7 DEF Covers, Empty, v, w

LEMMA CoveredIsCovering ==
  ASSUME NEW a
  PROVE  Covered(a) <=>
           /\ \A c \in Commands : Covers(a.all.range, a.buckets[c].range)
           /\ a.unlistedActions = 0 /\ a.all.counts["total"] # 0 =>
                /\ \E c \in Commands : a.buckets[c].range.min = a.all.range.min
                /\ \E c \in Commands : a.buckets[c].range.max = a.all.range.max
BY DEF Covered, Covers, Empty

LEMMA CoveredKept ==
  ASSUME NEW a \in Aggregate, NEW r \in Aggregate, NEW name, NEW d \in Measured,
         Consistent(a.all), \A c \in Commands : Consistent(a.buckets[c]),
         Divided(a), Covered(a),
         r.all.range = Widened(a.all.range, d),
         \/ /\ name \in Commands /\ r.unlistedActions = a.unlistedActions
            /\ r.buckets[name].range = Widened(a.buckets[name].range, d)
            /\ \A c \in Commands \ {name} : r.buckets[c] = a.buckets[c]
         \/ r.unlistedActions = a.unlistedActions + 1 /\ r.buckets = a.buckets
  PROVE  Covered(r)
<1>1. a.all \in Bucket /\ \A c \in Commands : a.buckets[c] \in Bucket
  BY PartsOfAggregate
<1>2. a.all.range \in Spread
  BY <1>1, RangesAreWhole
<1>3. ASSUME NEW c \in Commands
      PROVE  /\ a.buckets[c].range \in Spread
             /\ Covers(Widened(a.all.range, d), a.buckets[c].range)
             /\ Covers(Widened(a.all.range, d), Widened(a.buckets[c].range, d))
  <2>1. /\ a.buckets[c].range \in Spread
        /\ a.buckets[c].range.min = None <=> a.buckets[c].range.max = None
    BY <1>1, RangesAreWhole
  <2>2. Covers(a.all.range, a.buckets[c].range)
    BY CoveredIsCovering
  <2> QED BY <1>2, <2>1, <2>2, WidenedCovers
<1>4. \A c \in Commands : Covers(r.all.range, r.buckets[c].range)
  BY <1>3
<1>5. ASSUME r.unlistedActions = 0
      PROVE  /\ \E c \in Commands : r.buckets[c].range.min = r.all.range.min
             /\ \E c \in Commands : r.buckets[c].range.max = r.all.range.max
  <2>1. /\ name \in Commands /\ a.unlistedActions = 0
        /\ r.buckets[name].range = Widened(a.buckets[name].range, d)
        /\ \A c \in Commands \ {name} : r.buckets[c] = a.buckets[c]
    <3>1. a.unlistedActions \in Nat
      BY PartsOfAggregate
    <3> QED BY <1>5, <3>1
  <2> DEFINE v == Widened(a.all.range, d)
             w == Widened(a.buckets[name].range, d)
  <2>2. /\ v.min \in Nat /\ v.max \in Nat /\ w.min \in Nat /\ w.max \in Nat /\ d \in Nat
        /\ v.min \in {a.all.range.min, d} /\ v.max \in {a.all.range.max, d}
        /\ w.min <= d /\ d <= w.max
    <3>1. Measured \subseteq Nat
      BY DEF Measured
    <3>2. a.buckets[name].range \in Spread
      BY <1>3, <2>1
    <3>3. /\ v.min \in Measured /\ v.max \in Measured
          /\ v.min \in {a.all.range.min, d} /\ v.max \in {a.all.range.max, d}
      BY <1>2, RangeWidens
    <3>4. w.min \in Measured /\ w.max \in Measured /\ w.min <= d /\ d <= w.max
      BY <3>2, RangeWidens
    <3> QED BY <3>1, <3>3, <3>4
  <2>3. w.min # None /\ w.max # None
    BY <2>2, NoneIsNothing
  <2>4. v.min <= w.min /\ w.max <= v.max
    BY <1>3, <2>1, <2>3 DEF Covers, Empty
  <2>5. CASE a.all.counts["total"] = 0
    <3>1. a.buckets[name].counts["total"] = 0
      <4>1. "total" \in Counters
        BY DEF Counters
      <4>2. Listed(a, "total") <= a.all.counts["total"]
        BY <4>1 DEF Divided
      <4>3. a.buckets[name].counts["total"] \in Nat /\ Listed(a, "total") \in Nat
            /\ a.buckets[name].counts["total"] <= Listed(a, "total")
        BY <2>1, <4>1, ColumnsAreNatural
      <4> QED BY <2>5, <4>2, <4>3
    <3>2. a.all.range.min = None /\ a.all.range.max = None
      BY <1>1, <2>5, RangesAreWhole
    <3>3. a.buckets[name].range.min = None /\ a.buckets[name].range.max = None
      BY <1>1, <2>1, <3>1, RangesAreWhole
    <3>4. v.min = w.min /\ v.max = w.max
      BY <3>2, <3>3 DEF Widened
    <3> QED BY <2>1, <3>4
  <2>6. CASE a.all.counts["total"] # 0
    <3>1. /\ \E c \in Commands : a.buckets[c].range.min = a.all.range.min
          /\ \E c \in Commands : a.buckets[c].range.max = a.all.range.max
      BY <2>1, <2>6 DEF Covered
    <3>2. \E c \in Commands : r.buckets[c].range.min = v.min
      <4>1. CASE v.min = d
        <5>1. w.min = v.min
          BY <2>2, <2>4, <4>1
        <5> QED BY <2>1, <5>1
      <4>2. CASE v.min = a.all.range.min
        <5>1. PICK c \in Commands : a.buckets[c].range.min = a.all.range.min
          BY <3>1
        <5>2. CASE c = name
          <6>1. w.min = v.min
            BY <5>1, <5>2 DEF Widened
          <6> QED BY <2>1, <6>1
        <5>3. CASE c # name
          <6>1. r.buckets[c].range.min = v.min
            BY <2>1, <4>2, <5>1, <5>3
          <6> QED BY <6>1
        <5> QED BY <5>2, <5>3
      <4> QED BY <2>2, <4>1, <4>2
    <3>3. \E c \in Commands : r.buckets[c].range.max = v.max
      <4>1. CASE v.max = d
        <5>1. w.max = v.max
          BY <2>2, <2>4, <4>1
        <5> QED BY <2>1, <5>1
      <4>2. CASE v.max = a.all.range.max
        <5>1. PICK c \in Commands : a.buckets[c].range.max = a.all.range.max
          BY <3>1
        <5>2. CASE c = name
          <6>1. w.max = v.max
            BY <5>1, <5>2 DEF Widened
          <6> QED BY <2>1, <6>1
        <5>3. CASE c # name
          <6>1. r.buckets[c].range.max = v.max
            BY <2>1, <4>2, <5>1, <5>3
          <6> QED BY <6>1
        <5> QED BY <5>2, <5>3
      <4> QED BY <2>2, <4>1, <4>2
    <3> QED BY <3>2, <3>3
  <2> QED BY <2>5, <2>6
<1> QED BY <1>4, <1>5, CoveredIsCovering

-----------------------------------------------------------------------------
(* An action leaves an aggregate that tells what happened.                  *)
Bounding(seen, real, duration) ==
  /\ seen \in Increments /\ real \in Increments
  /\ \A k \in Counters \ {"duration"} : seen[k] = real[k]
  /\ seen["duration"] = Bounded(duration) /\ real["duration"] = Elapsed(duration)

LEMMA SeenIsBounded ==
  ASSUME NEW name, NEW failed \in BOOLEAN, NEW approval \in Approvals,
         NEW duration \in Durations \cup {None}, NEW volume \in Volumes \cup {None},
         NEW seen, seen = Seen(name, failed, approval, Bounded(duration), volume),
         NEW real, real = Seen(name, failed, approval, Elapsed(duration), volume)
  PROVE  /\ Fitting(seen, name, Bounded(duration)) /\ Fitting(real, name, Elapsed(duration))
         /\ Bounding(seen, real, duration)
         /\ ~OutOfRange(duration) => seen = real
<1>1. Elapsed(duration) \in Nat /\ Bounded(duration) \in Nat
  BY BoundedIsMeasured
<1>2. Fitting(seen, name, Bounded(duration)) /\ Fitting(real, name, Elapsed(duration))
  BY <1>1, SeenFits
<1>3. \A k \in Counters \ {"duration"} : seen[k] = real[k]
  BY DEF Seen, Counters
<1>4. seen["duration"] = Bounded(duration) /\ real["duration"] = Elapsed(duration)
  BY DEF Seen
<1>5. ~OutOfRange(duration) => seen = real
  BY BoundedIsMeasured
<1> QED BY <1>2, <1>3, <1>4, <1>5 DEF Bounding, Fitting

LEMMA BoundingBounds ==
  ASSUME NEW seen, NEW real, NEW duration \in Durations \cup {None}, Bounding(seen, real, duration)
  PROVE  /\ \A k \in Counters : seen[k] \in Nat /\ real[k] \in Nat /\ seen[k] <= real[k]
<1>1. \A k \in Counters : seen[k] \in Nat /\ real[k] \in Nat
  BY DEF Bounding, Increments
<1> QED BY <1>1, BoundedIsMeasured DEF Bounding

(* The buckets after an action, if nothing is clipped.                      *)
LEMMA ActionLists ==
  ASSUME NEW a \in Aggregate, NEW name, NEW seen \in Increments,
         NEW duration \in Durations \cup {None}, NEW r, r = WithAction(a, name, seen, duration),
         name \in Commands => ~Overflows(a.buckets[name].counts, seen)
  PROVE  /\ r \in Aggregate
         /\ name \in Commands => \A k \in Counters : Listed(r, k) = Listed(a, k) + seen[k]
         /\ name \notin Commands => \A k \in Counters : Listed(r, k) = Listed(a, k)
<1>1. /\ r \in Aggregate
      /\ name \in Commands =>
           r.buckets = [a.buckets EXCEPT ![name] = Updated(a.buckets[name], seen, Bounded(duration))]
      /\ name \notin Commands => r.buckets = a.buckets
  BY ActionParts DEF ActionLeaves
<1>2. ASSUME name \in Commands, NEW k \in Counters PROVE Listed(r, k) = Listed(a, k) + seen[k]
  <2> DEFINE b == Updated(a.buckets[name], seen, Bounded(duration))
  <2>1. r.buckets = [a.buckets EXCEPT ![name] = b]
    BY <1>1, <1>2
  <2>2. a.buckets[name] \in Bucket
    BY <1>2, PartsOfAggregate
  <2>3. b.counts[k] = a.buckets[name].counts[k] + seen[k] /\ seen[k] \in Nat
    BY <1>2, <2>2, BoundedIsMeasured, UpdatedIsBucket DEF Increments
  <2> HIDE DEF b
  <2> QED BY <1>1, <1>2, <2>1, <2>3, ListedMoves
<1>3. ASSUME name \notin Commands, NEW k \in Counters PROVE Listed(r, k) = Listed(a, k)
  <2>1. r.buckets = a.buckets
    BY <1>1, <1>3
  <2> QED BY <2>1, ListedStays
<1> QED BY <1>1, <1>2, <1>3

LEMMA ActionUnclipped ==
  ASSUME NEW a \in Aggregate, NEW t \in Truth, Unclipped(a, t), NEW name \in Names,
         NEW duration \in Durations \cup {None}, NEW seen, NEW real, Bounding(seen, real, duration),
         Fitting(seen, name, Bounded(duration)), ~OutOfRange(duration) => seen = real,
         NEW r, r = WithAction(a, name, seen, duration), NEW u, u = Happened(t, real)
  PROVE  Unclipped(r, u)
<1> SUFFICES ASSUME ~r.saturated
             PROVE  /\ r.segments = u.segments
                    /\ r.all.counts = u.counts
                    /\ Listed(r, "total") + r.unlistedActions = u.counts["total"]
                    /\ Listed(r, "retries") + r.unlistedRetries = u.counts["retries"]
                    /\ \A k \in Counters : Listed(r, k) <= u.counts[k]
  BY DEF Unclipped
<1>1. real["total"] = 1 /\ real["retries"] = 0 /\ real \in Increments /\ seen \in Increments
  BY DEF Fitting, Bounding, Counters
<1>2. ActionLeaves(a, name, seen, duration, r)
  BY <1>1, ActionParts
<1>3. /\ ~a.saturated /\ ~OutOfRange(duration) /\ ~Overflows(a.all.counts, seen)
      /\ name \in Commands => ~Overflows(a.buckets[name].counts, seen)
      /\ name \notin Commands => ~Clips(a.unlistedActions, 1)
      /\ r.all = Updated(a.all, seen, Bounded(duration)) /\ r.segments = a.segments
      /\ r.unlistedRetries = a.unlistedRetries
      /\ name \in Commands => r.unlistedActions = a.unlistedActions
      /\ name \notin Commands => r.unlistedActions = Add(a.unlistedActions, 1)
  BY <1>2 DEF ActionLeaves
<1>4. seen = real
  BY <1>3
<1>5. /\ a.segments = t.segments /\ a.all.counts = t.counts
      /\ Listed(a, "total") + a.unlistedActions = t.counts["total"]
      /\ Listed(a, "retries") + a.unlistedRetries = t.counts["retries"]
      /\ \A k \in Counters : Listed(a, k) <= t.counts[k]
  BY <1>3 DEF Unclipped
<1>6. /\ u.segments = t.segments /\ u.counts = CountedOn(t.counts, real)
      /\ \A k \in Counters : t.counts[k] \in Nat /\ real[k] \in Nat /\ u.counts[k] = t.counts[k] + real[k]
  BY <1>1, CountsOfTruth
<1>7. r.all.counts = u.counts
  <2>1. a.all.counts \in Counts
    BY PartsOfAggregate DEF Bucket
  <2>2. Counted(a.all.counts, seen) = CountedOn(a.all.counts, seen)
    BY <1>1, <1>3, <2>1, CountedIsCapped
  <2>3. r.all.counts = Counted(a.all.counts, seen)
    BY <1>3 DEF Updated
  <2> QED BY <1>4, <1>5, <1>6, <2>2, <2>3
<1>8. /\ name \in Commands => \A k \in Counters : Listed(r, k) = Listed(a, k) + real[k]
      /\ name \notin Commands => \A k \in Counters : Listed(r, k) = Listed(a, k)
  BY <1>1, <1>3, <1>4, ActionLists
<1>9. /\ \A k \in Counters : Listed(a, k) \in Nat
      /\ a.unlistedActions \in 0..MaxCounter /\ a.unlistedRetries \in Nat /\ MaxCounter \in Nat
  BY ColumnsAreNatural, PartsOfAggregate, MetricsBounds
<1>10. "total" \in Counters /\ "retries" \in Counters
  BY DEF Counters
<1>11. name \notin Commands => r.unlistedActions = a.unlistedActions + 1
  BY <1>3, <1>9, CeilingHolds
<1>12. Listed(r, "total") + r.unlistedActions = u.counts["total"]
  <2>1. CASE name \in Commands
    BY <1>3, <1>5, <1>6, <1>8, <1>1, <1>9, <1>10, <2>1
  <2>2. CASE name \notin Commands
    <3>1. /\ Listed(r, "total") = Listed(a, "total") /\ Listed(a, "total") \in Nat
          /\ r.unlistedActions = a.unlistedActions + 1 /\ a.unlistedActions \in Nat
      BY <1>8, <1>9, <1>10, <1>11, <2>2
    <3>2. u.counts["total"] = t.counts["total"] + 1 /\ t.counts["total"] \in Nat
      BY <1>1, <1>6, <1>10
    <3> QED BY <1>5, <3>1, <3>2
  <2> QED BY <2>1, <2>2
<1>13. Listed(r, "retries") + r.unlistedRetries = u.counts["retries"]
  BY <1>3, <1>5, <1>6, <1>1, <1>8, <1>9, <1>10
<1>14. ASSUME NEW k \in Counters PROVE Listed(r, k) <= u.counts[k]
  BY <1>5, <1>6, <1>8, <1>9
<1> QED BY <1>3, <1>5, <1>6, <1>7, <1>12, <1>13, <1>14

LEMMA ActionSound ==
  ASSUME NEW a \in Aggregate, NEW t \in Truth, Faithful(a, t), Sound(a), NEW name \in Names,
         NEW duration \in Durations \cup {None}, NEW seen, NEW real, Bounding(seen, real, duration),
         Fitting(seen, name, Bounded(duration)),
         NEW r, r = WithAction(a, name, seen, duration), NEW u, u = Happened(t, real),
         Within(u)
  PROVE  Faithful(r, u) /\ Sound(r)
<1> DEFINE d == Bounded(duration)
<1>1. /\ Fitting(seen, name, d) /\ real \in Increments /\ seen \in Increments
      /\ d \in Measured
  BY BoundedIsMeasured DEF Bounding
<1>3. \A k \in Counters : seen[k] <= real[k] /\ (k # "duration" => seen[k] = real[k])
  BY BoundingBounds DEF Bounding
<1>4. \A k \in Counters : /\ t.counts[k] \in Nat /\ real[k] \in Nat
                          /\ u.counts[k] = t.counts[k] + real[k] /\ u.counts[k] <= MaxCounter
  BY <1>1, CountsOfTruth DEF Within
<1>5. Divided(a) /\ Covered(a)
  BY DEF Sound
<1>6. /\ ~Overflows(a.all.counts, seen)
      /\ \A c \in Commands : ~Overflows(a.buckets[c].counts, seen)
  BY <1>1, <1>3, <1>4, <1>5, RoomIsLeft
<1>2. ActionLeaves(a, name, seen, duration, r)
  BY <1>1, ActionParts
<1>7. /\ r \in Aggregate /\ r.all = Updated(a.all, seen, d) /\ r.segments = a.segments
      /\ r.unlistedRetries = a.unlistedRetries
      /\ name \in Commands =>
           /\ r.unlistedActions = a.unlistedActions
           /\ r.buckets = [a.buckets EXCEPT ![name] = Updated(a.buckets[name], seen, d)]
      /\ name \notin Commands =>
           r.unlistedActions = Add(a.unlistedActions, 1) /\ r.buckets = a.buckets
  BY <1>2 DEF ActionLeaves
<1> HIDE DEF d
<1>8. /\ a.all \in Bucket /\ a.buckets \in [Commands -> Bucket]
      /\ a.unlistedActions \in 0..MaxCounter /\ MaxCounter \in Nat
  BY PartsOfAggregate, MetricsBounds
<1>9. \A k \in Counters : a.all.counts[k] \in Nat /\ r.all.counts[k] = a.all.counts[k] + seen[k]
  <2>1. \A k \in Counters : r.all.counts[k] = a.all.counts[k] + seen[k]
    BY <1>1, <1>6, <1>7, <1>8, UpdatedIsBucket
  <2> QED BY <1>8, <2>1 DEF Bucket, Counts
<1>10. name \notin Commands => r.unlistedActions = a.unlistedActions + 1
  <2>1. a.unlistedActions + 1 <= MaxCounter
    <3>1. "total" \in Counters /\ Listed(a, "total") \in Nat
          /\ Listed(a, "total") + a.unlistedActions = a.all.counts["total"]
      BY <1>5, ColumnsAreNatural DEF Divided, Counters
    <3>2. a.all.counts["total"] = t.counts["total"] /\ real["total"] = 1
      <4>1. seen["total"] = 1 /\ real["total"] = seen["total"]
        BY <1>1, <1>3 DEF Fitting, Counters
      <4> QED BY <4>1 DEF Faithful, Counters
    <3>3. t.counts["total"] + 1 <= MaxCounter
      BY <1>4, <3>1, <3>2
    <3>4. a.unlistedActions \in Nat /\ MaxCounter \in Nat /\ t.counts["total"] \in Nat
      BY <1>4, <1>8, <3>1
    <3> HIDE DEF d
    <3> QED BY <3>1, <3>2, <3>3, <3>4
  <2> QED BY <1>7, <1>8, <2>1, CeilingHolds DEF Clips
<1>11. /\ name \in Commands => \A k \in Counters : Listed(r, k) = Listed(a, k) + seen[k]
       /\ name \notin Commands => \A k \in Counters : Listed(r, k) = Listed(a, k)
  <2>1. name \in Commands => ~Overflows(a.buckets[name].counts, seen)
    BY <1>6
  <2>2. seen \in Increments
    BY <1>1
  <2> QED BY <2>1, <2>2, ActionLists
<1>12. Divided(r)
  BY <1>1, <1>5, <1>7, <1>9, <1>10, <1>11, DividedKept
<1>13. Covered(r)
  <2>1. Consistent(a.all) /\ \A c \in Commands : Consistent(a.buckets[c])
    BY DEF Sound
  <2>2. r.all.range = Widened(a.all.range, d)
    BY <1>7 DEF Updated
  <2>3. CASE name \in Commands
    <3>1. r.buckets[name] = Updated(a.buckets[name], seen, d)
      BY <1>7, <1>8, <2>3
    <3>2. r.buckets[name].range = Widened(a.buckets[name].range, d)
      BY <3>1 DEF Updated
    <3>3. \A c \in Commands \ {name} : r.buckets[c] = a.buckets[c]
      BY <1>7, <1>8, <2>3
    <3>4. r.unlistedActions = a.unlistedActions
      BY <1>7, <2>3
    <3> QED BY <1>1, <1>5, <1>7, <2>1, <2>2, <2>3, <3>2, <3>3, <3>4, CoveredKept
  <2>4. CASE name \notin Commands
    <3>1. r.unlistedActions = a.unlistedActions + 1 /\ r.buckets = a.buckets
      BY <1>7, <1>10, <2>4
    <3> QED BY <1>1, <1>5, <1>7, <2>1, <2>2, <3>1, CoveredKept
  <2> QED BY <2>3, <2>4
<1>14. Consistent(r.all) /\ PayloadsFit(r.all)
  BY <1>1, <1>6, <1>7, <1>8, ActionStaysConsistent DEF Sound
<1>15. ASSUME NEW c \in Commands
       PROVE  Consistent(r.buckets[c]) /\ (c # Snapshot => r.buckets[c].counts["snapshots"] = 0)
  <2>1. Consistent(a.buckets[c]) /\ (c # Snapshot => a.buckets[c].counts["snapshots"] = 0)
    BY DEF Sound
  <2>2. CASE c = name
    <3>1. r.buckets[c] = Updated(a.buckets[c], seen, d) /\ a.buckets[c] \in Bucket
      BY <1>7, <1>8, <2>2
    <3>2. Consistent(r.buckets[c])
      BY <1>1, <1>6, <2>1, <3>1, ActionStaysConsistent
    <3>3. r.buckets[c].counts["snapshots"] = a.buckets[c].counts["snapshots"] + seen["snapshots"]
      <4>1. \A k \in Counters : r.buckets[c].counts[k] = a.buckets[c].counts[k] + seen[k]
        BY <1>1, <1>6, <3>1, UpdatedIsBucket
      <4> QED BY <4>1 DEF Counters
    <3>4. c # Snapshot => seen["snapshots"] = 0
      BY <1>1, <2>2 DEF Fitting, If
    <3> QED BY <2>1, <3>2, <3>3, <3>4
  <2>3. CASE c # name
    <3>1. r.buckets[c] = a.buckets[c]
      BY <1>7, <1>8, <2>3
    <3> QED BY <2>1, <3>1
  <2> QED BY <2>2, <2>3
<1>16. Faithful(r, u)
  <2>1. ASSUME NEW k \in Counters \ {"duration"} PROVE r.all.counts[k] = u.counts[k]
    BY <1>3, <1>4, <1>9 DEF Faithful
  <2>2. r.all.counts["duration"] <= u.counts["duration"]
    <3>1. "duration" \in Counters /\ a.all.counts["duration"] <= t.counts["duration"]
      BY DEF Faithful, Counters
    <3>2. seen["duration"] \in Nat
      BY <1>1, <3>1 DEF Increments
    <3> QED BY <1>3, <1>4, <1>9, <3>1, <3>2
  <2> QED BY <2>1, <2>2 DEF Faithful
<1>17. r.segments # 0
  BY <1>7 DEF Sound
<1> QED BY <1>12, <1>13, <1>14, <1>15, <1>16, <1>17 DEF Sound

(* So does a retry.                                                         *)
LEMMA RetryLists ==
  ASSUME NEW a \in Aggregate, NEW name, NEW r, r = WithRetry(a, name),
         name \in Commands => a.buckets[name].counts["retries"] < MaxCounter
  PROVE  /\ r \in Aggregate
         /\ name \in Commands => \A k \in Counters : Listed(r, k) = Listed(a, k) + Retried[k]
         /\ name \notin Commands => \A k \in Counters : Listed(r, k) = Listed(a, k)
<1>0. RetryLeaves(a, name, r)
  BY RetryParts
<1>1. /\ r \in Aggregate
      /\ name \in Commands => r.buckets = [a.buckets EXCEPT ![name] = RetriedIn(a.buckets[name])]
      /\ name \notin Commands => r.buckets = a.buckets
  BY <1>0 DEF RetryLeaves
<1>2. ASSUME name \in Commands, NEW k \in Counters PROVE Listed(r, k) = Listed(a, k) + Retried[k]
  <2> DEFINE b == RetriedIn(a.buckets[name])
  <2>1. r.buckets = [a.buckets EXCEPT ![name] = b]
    BY <1>1, <1>2
  <2>2. a.buckets[name] \in Bucket
    BY <1>2, PartsOfAggregate
  <2>3. b.counts[k] = a.buckets[name].counts[k] + Retried[k]
    <3>1. a.buckets[name].counts[k] \in Nat
      BY <1>2, ColumnsAreNatural
    <3>2. CASE k = "retries"
      BY <1>2, <2>2, <3>2, RetriedIsBucket, RetryFits
    <3>3. CASE k # "retries"
      BY <2>2, <3>1, <3>3, RetriedIsBucket, RetryFits
    <3> QED BY <3>2, <3>3
  <2>4. Retried[k] \in Nat
    BY RetryFits DEF Increments
  <2> HIDE DEF b
  <2> QED BY <1>1, <1>2, <2>1, <2>3, <2>4, ListedMoves
<1>3. ASSUME name \notin Commands, NEW k \in Counters PROVE Listed(r, k) = Listed(a, k)
  BY <1>1, <1>3, ListedStays
<1> QED BY <1>1, <1>2, <1>3

LEMMA RetryTotals ==
  ASSUME NEW a \in Aggregate, a.all.counts["retries"] + 1 <= MaxCounter,
         NEW name, NEW r, r = WithRetry(a, name)
  PROVE  /\ r.all.counts = CountedOn(a.all.counts, Retried)
         /\ r.all.range = a.all.range
         /\ \A k \in Counters : /\ a.all.counts[k] \in Nat /\ Retried[k] \in Nat
                                /\ r.all.counts[k] = a.all.counts[k] + Retried[k]
<1>1. a.all \in Bucket /\ a.all.counts \in Counts /\ MaxCounter \in Nat
  BY PartsOfAggregate, MetricsBounds DEF Bucket
<1>2. \A k \in Counters : a.all.counts[k] \in Nat /\ a.all.counts[k] <= MaxCounter
  BY <1>1 DEF Counts
<1>3. ~Overflows(a.all.counts, Retried)
  <2>1. ASSUME NEW k \in Counters PROVE ~Clips(a.all.counts[k], Retried[k])
    <3>1. CASE k = "retries"
      BY <1>1, <1>2, <3>1, RetryFits DEF Clips
    <3>2. CASE k # "retries"
      BY <1>1, <1>2, <3>2, RetryFits DEF Clips
    <3> QED BY <3>1, <3>2
  <2> QED BY <2>1 DEF Overflows
<1>4. r.all = RetriedIn(a.all)
  <2>1. RetryLeaves(a, name, r)
    BY RetryParts
  <2> QED BY <2>1 DEF RetryLeaves
<1>5. Counted(a.all.counts, Retried) = CountedOn(a.all.counts, Retried)
  BY <1>1, <1>3, RetryFits, CountedIsCapped
<1>6. RetriedIn(a.all).counts = Counted(a.all.counts, Retried) /\ RetriedIn(a.all).range = a.all.range
  BY <1>1 DEF RetriedIn, Bucket
<1>7. \A k \in Counters : CountedOn(a.all.counts, Retried)[k] = a.all.counts[k] + Retried[k]
  BY DEF CountedOn
<1>8. \A k \in Counters : Retried[k] \in Nat
  BY RetryFits DEF Increments
<1> QED BY <1>2, <1>4, <1>5, <1>6, <1>7, <1>8

(* The unlisted retries have room as long as the retries do.                *)
LEMMA RetryRoom ==
  ASSUME NEW a \in Aggregate, NEW n \in Nat, n + 1 <= MaxCounter,
         Listed(a, "retries") + a.unlistedRetries = n,
         NEW name, NEW r, r = WithRetry(a, name)
  PROVE  /\ name \in Commands =>
              /\ r.unlistedRetries = a.unlistedRetries
              /\ \A k \in Counters : Listed(r, k) = Listed(a, k) + Retried[k]
         /\ name \notin Commands =>
              /\ r.unlistedRetries = a.unlistedRetries + 1
              /\ \A k \in Counters : Listed(r, k) = Listed(a, k)
<1>1. /\ a.unlistedRetries \in Nat /\ a.unlistedRetries \in 0..MaxCounter /\ MaxCounter \in Nat
      /\ "retries" \in Counters /\ Listed(a, "retries") \in Nat
      /\ \A c \in Commands : /\ a.buckets[c].counts["retries"] \in Nat
                             /\ a.buckets[c].counts["retries"] <= Listed(a, "retries")
  <2>1. "retries" \in Counters
    BY DEF Counters
  <2> QED BY <2>1, ColumnsAreNatural, PartsOfAggregate, MetricsBounds
<1>2. a.unlistedRetries + 1 <= MaxCounter
  BY <1>1
<1>3. \A c \in Commands : a.buckets[c].counts["retries"] < MaxCounter
  BY <1>1
<1>4. RetryLeaves(a, name, r)
  BY RetryParts
<1>5. Add(a.unlistedRetries, 1) = a.unlistedRetries + 1
  BY <1>1, <1>2 DEF Add
<1>6. /\ name \in Commands => r.unlistedRetries = a.unlistedRetries
      /\ name \notin Commands => r.unlistedRetries = a.unlistedRetries + 1
  BY <1>4, <1>5 DEF RetryLeaves
<1>7. /\ name \in Commands => \A k \in Counters : Listed(r, k) = Listed(a, k) + Retried[k]
      /\ name \notin Commands => \A k \in Counters : Listed(r, k) = Listed(a, k)
  <2>1. name \in Commands => a.buckets[name].counts["retries"] < MaxCounter
    BY <1>3
  <2> QED BY <2>1, RetryLists
<1> QED BY <1>6, <1>7

LEMMA RetryUnclipped ==
  ASSUME NEW a \in Aggregate, NEW t \in Truth, Unclipped(a, t), NEW name,
         NEW r, r = WithRetry(a, name), NEW u, u = Happened(t, Retried)
  PROVE  Unclipped(r, u)
<1> SUFFICES ASSUME ~r.saturated
             PROVE  /\ r.segments = u.segments
                    /\ r.all.counts = u.counts
                    /\ Listed(r, "total") + r.unlistedActions = u.counts["total"]
                    /\ Listed(r, "retries") + r.unlistedRetries = u.counts["retries"]
                    /\ \A k \in Counters : Listed(r, k) <= u.counts[k]
  BY DEF Unclipped
<1>1. RetryLeaves(a, name, r)
  BY RetryParts
<1>2. /\ ~a.saturated /\ ~Clips(a.all.counts["retries"], 1)
      /\ r.segments = a.segments /\ r.unlistedActions = a.unlistedActions
  BY <1>1 DEF RetryLeaves
<1>3. /\ a.segments = t.segments /\ a.all.counts = t.counts
      /\ Listed(a, "total") + a.unlistedActions = t.counts["total"]
      /\ Listed(a, "retries") + a.unlistedRetries = t.counts["retries"]
      /\ \A k \in Counters : Listed(a, k) <= t.counts[k]
  BY <1>2 DEF Unclipped
<1>4. /\ u.segments = t.segments /\ u.counts = CountedOn(t.counts, Retried)
      /\ \A k \in Counters : t.counts[k] \in Nat /\ Retried[k] \in Nat /\ u.counts[k] = t.counts[k] + Retried[k]
  BY RetryFits, CountsOfTruth
<1>5. "total" \in Counters /\ "retries" \in Counters /\ Retried["total"] = 0 /\ Retried["retries"] = 1
  BY RetryFits DEF Counters
<1>6. t.counts["retries"] \in Nat /\ t.counts["retries"] + 1 <= MaxCounter
  BY <1>2, <1>3, <1>4, <1>5, MetricsBounds DEF Clips
<1>7. r.all.counts = u.counts
  BY <1>3, <1>4, <1>6, RetryTotals
<1>8. /\ name \in Commands =>
           /\ r.unlistedRetries = a.unlistedRetries
           /\ \A k \in Counters : Listed(r, k) = Listed(a, k) + Retried[k]
      /\ name \notin Commands =>
           /\ r.unlistedRetries = a.unlistedRetries + 1
           /\ \A k \in Counters : Listed(r, k) = Listed(a, k)
  BY <1>3, <1>6, RetryRoom
<1>9. /\ \A k \in Counters : Listed(a, k) \in Nat
      /\ a.unlistedActions \in Nat /\ a.unlistedRetries \in Nat
  BY ColumnsAreNatural, PartsOfAggregate
<1>10. Listed(r, "total") + r.unlistedActions = u.counts["total"]
  BY <1>2, <1>3, <1>4, <1>5, <1>8, <1>9
<1>11. Listed(r, "retries") + r.unlistedRetries = u.counts["retries"]
  <2>1. CASE name \in Commands
    BY <1>3, <1>4, <1>5, <1>8, <1>9, <2>1
  <2>2. CASE name \notin Commands
    BY <1>3, <1>4, <1>5, <1>8, <1>9, <2>2
  <2> QED BY <2>1, <2>2
<1>12. ASSUME NEW k \in Counters PROVE Listed(r, k) <= u.counts[k]
  BY <1>3, <1>4, <1>8, <1>9
<1> QED BY <1>2, <1>3, <1>4, <1>7, <1>10, <1>11, <1>12

LEMMA RetrySound ==
  ASSUME NEW a \in Aggregate, NEW t \in Truth, Faithful(a, t), Sound(a), NEW name,
         NEW r, r = WithRetry(a, name), NEW u, u = Happened(t, Retried), Within(u)
  PROVE  Faithful(r, u) /\ Sound(r)
<1>1. /\ \A k \in Counters : t.counts[k] \in Nat /\ u.counts[k] = t.counts[k] + Retried[k]
                             /\ u.counts[k] <= MaxCounter
  BY RetryFits, CountsOfTruth DEF Within
<1>2. /\ {"total", "retries", "duration", "snapshots", "requested"} \subseteq Counters
      /\ Retried["retries"] = 1 /\ \A k \in Counters \ {"retries"} : Retried[k] = 0
  BY RetryFits DEF Counters
<1>3. a.all.counts["retries"] = t.counts["retries"] /\ a.all.counts["duration"] <= t.counts["duration"]
  BY <1>2 DEF Faithful
<1>4. a.all.counts["retries"] \in Nat /\ a.all.counts["retries"] + 1 <= MaxCounter
  BY <1>1, <1>2, <1>3
<1>5. /\ r.all.range = a.all.range
      /\ \A k \in Counters : /\ a.all.counts[k] \in Nat /\ Retried[k] \in Nat
                             /\ r.all.counts[k] = a.all.counts[k] + Retried[k]
  BY <1>4, RetryTotals
<1>6. /\ Divided(a) /\ Covered(a) /\ a.segments # 0 /\ Consistent(a.all) /\ PayloadsFit(a.all)
      /\ \A c \in Commands :
           Consistent(a.buckets[c]) /\ (c # Snapshot => a.buckets[c].counts["snapshots"] = 0)
  BY DEF Sound
<1>7. /\ \A k \in Counters : Listed(a, k) <= a.all.counts[k]
      /\ Listed(a, "total") + a.unlistedActions = a.all.counts["total"]
      /\ Listed(a, "retries") + a.unlistedRetries = a.all.counts["retries"]
      /\ Listed(a, "snapshots") = a.all.counts["snapshots"]
      /\ a.unlistedActions = 0 => \A k \in Counters \ {"retries"} : Listed(a, k) = a.all.counts[k]
      /\ a.all.counts["requested"] <= Listed(a, "requested") + a.unlistedActions
  BY <1>6 DEF Divided
<1>8. /\ name \in Commands =>
           /\ r.unlistedRetries = a.unlistedRetries
           /\ \A k \in Counters : Listed(r, k) = Listed(a, k) + Retried[k]
      /\ name \notin Commands =>
           /\ r.unlistedRetries = a.unlistedRetries + 1
           /\ \A k \in Counters : Listed(r, k) = Listed(a, k)
  BY <1>4, <1>7, RetryRoom
<1>9. RetryLeaves(a, name, r)
  BY RetryParts
<1>10. /\ r \in Aggregate /\ r.all = RetriedIn(a.all) /\ r.segments = a.segments
       /\ r.unlistedActions = a.unlistedActions
       /\ name \in Commands => r.buckets = [a.buckets EXCEPT ![name] = RetriedIn(a.buckets[name])]
       /\ name \notin Commands => r.buckets = a.buckets
  BY <1>9 DEF RetryLeaves
<1>11. /\ \A k \in Counters : Listed(a, k) \in Nat
       /\ a.unlistedActions \in Nat /\ a.unlistedRetries \in Nat
       /\ a.all \in Bucket /\ a.buckets \in [Commands -> Bucket]
  BY ColumnsAreNatural, PartsOfAggregate
<1>12. ASSUME NEW k \in Counters \ {"retries"}
       PROVE  Listed(r, k) = Listed(a, k) /\ r.all.counts[k] = a.all.counts[k]
  BY <1>2, <1>5, <1>8, <1>11
<1>13. Divided(r)
  <2>1. \A k \in Counters : Listed(r, k) <= r.all.counts[k]
    BY <1>5, <1>7, <1>8, <1>11
  <2>2. Listed(r, "total") + r.unlistedActions = r.all.counts["total"]
    BY <1>2, <1>7, <1>10, <1>12
  <2>3. Listed(r, "retries") + r.unlistedRetries = r.all.counts["retries"]
    <3>1. CASE name \in Commands
      BY <1>2, <1>5, <1>7, <1>8, <1>11, <3>1
    <3>2. CASE name \notin Commands
      BY <1>2, <1>5, <1>7, <1>8, <1>11, <3>2
    <3> QED BY <3>1, <3>2
  <2>4. /\ Listed(r, "snapshots") = r.all.counts["snapshots"]
        /\ r.all.counts["requested"] <= Listed(r, "requested") + r.unlistedActions
    BY <1>2, <1>7, <1>10, <1>12
  <2>5. r.unlistedActions = 0 => \A k \in Counters \ {"retries"} : Listed(r, k) = r.all.counts[k]
    BY <1>7, <1>10, <1>12
  <2> QED BY <2>1, <2>2, <2>3, <2>4, <2>5 DEF Divided
<1>14. ASSUME NEW c \in Commands
       PROVE  /\ r.buckets[c].range = a.buckets[c].range /\ Consistent(r.buckets[c])
              /\ r.buckets[c].counts["snapshots"] = a.buckets[c].counts["snapshots"]
  <2>1. r.buckets[c] = a.buckets[c] \/ r.buckets[c] = RetriedIn(a.buckets[c])
    BY <1>10, <1>11
  <2>2. a.buckets[c] \in Bucket /\ Consistent(a.buckets[c])
    BY <1>6, <1>11
  <2>3. RetriedIn(a.buckets[c]).range = a.buckets[c].range /\ Consistent(RetriedIn(a.buckets[c]))
    BY <2>2, RetriedIsBucket, RetryStaysConsistent
  <2>4. RetriedIn(a.buckets[c]).counts["snapshots"] = a.buckets[c].counts["snapshots"]
    <3>1. "snapshots" \in Counters \ {"retries"}
      BY DEF Counters
    <3> QED BY <2>2, <3>1, RetriedIsBucket
  <2> QED BY <2>1, <2>2, <2>3, <2>4
<1>15. Covered(r)
  <2>1. /\ \A c \in Commands : Covers(a.all.range, a.buckets[c].range)
        /\ a.unlistedActions = 0 /\ a.all.counts["total"] # 0 =>
             /\ \E c \in Commands : a.buckets[c].range.min = a.all.range.min
             /\ \E c \in Commands : a.buckets[c].range.max = a.all.range.max
    BY <1>6, CoveredIsCovering
  <2>2. r.all.counts["total"] = a.all.counts["total"]
    BY <1>2, <1>12
  <2>3. \A c \in Commands : Covers(r.all.range, r.buckets[c].range)
    BY <1>5, <1>14, <2>1
  <2>4. r.unlistedActions = 0 /\ r.all.counts["total"] # 0 =>
          /\ \E c \in Commands : r.buckets[c].range.min = r.all.range.min
          /\ \E c \in Commands : r.buckets[c].range.max = r.all.range.max
    BY <1>5, <1>10, <1>14, <2>1, <2>2
  <2> QED BY <2>3, <2>4, CoveredIsCovering
<1>16. Consistent(r.all) /\ PayloadsFit(r.all)
  BY <1>6, <1>10, <1>11, RetryStaysConsistent
<1>17. Faithful(r, u)
  <2>1. ASSUME NEW k \in Counters \ {"duration"} PROVE r.all.counts[k] = u.counts[k]
    BY <1>1, <1>5 DEF Faithful
  <2>2. r.all.counts["duration"] <= u.counts["duration"]
    BY <1>1, <1>2, <1>3, <1>5
  <2> QED BY <2>1, <2>2 DEF Faithful
<1> QED BY <1>6, <1>10, <1>13, <1>14, <1>15, <1>16, <1>17 DEF Sound

-----------------------------------------------------------------------------
(* What is sound is accepted.                                               *)
LEMMA LeastOf ==
  ASSUME NEW S \in SUBSET Nat, S # {}
  PROVE  Min(S) \in S /\ \A x \in S : Min(S) <= x
<1> DEFINE R == {ss \in Nat \X Nat : ss[1] < ss[2]}
<1>1. IsWellFoundedOn(R, Nat)
  BY NatLessThanWellFounded DEF OpToRel
<1>2. PICK m \in S : \A j \in S : ~(<<j, m>> \in R)
  <2> HIDE DEF R
  <2> QED BY <1>1, WFMin
<1>3. ASSUME NEW x \in S PROVE m <= x
  <2>1. m \in Nat /\ x \in Nat
    OBVIOUS
  <2>2. ~(x < m)
    BY <1>2, <2>1
  <2> QED BY <2>1, <2>2
<1> QED BY <1>3 DEF Min

LEMMA GreatestOf ==
  ASSUME NEW m \in Nat, NEW S \in SUBSET (0..m), S # {}
  PROVE  Max(S) \in S /\ \A x \in S : x <= Max(S)
<1> DEFINE T == {m - x : x \in S}
<1>1. T \in SUBSET Nat /\ T # {}
  <2>1. \A x \in S : x \in Nat /\ x <= m
    OBVIOUS
  <2>2. \A x \in S : m - x \in Nat
    BY <2>1
  <2>3. PICK x \in S : TRUE
    OBVIOUS
  <2>4. m - x \in T
    OBVIOUS
  <2> QED BY <2>2, <2>4
<1>2. Min(T) \in T /\ \A y \in T : Min(T) <= y
  <2> HIDE DEF T
  <2> QED BY <1>1, LeastOf
<1> DEFINE least == Min(T)
<1> HIDE DEF least
<1>3. PICK z \in S : least = m - z
  BY <1>2 DEF least
<1>4. ASSUME NEW x \in S PROVE z >= x
  <2>1. m - z <= m - x
    BY <1>2, <1>3 DEF least
  <2>2. x \in Nat /\ z \in Nat
    OBVIOUS
  <2> QED BY <2>1, <2>2
<1>5. \E y \in S : \A x \in S : y >= x
  BY <1>4
<1>6. Max(S) \in S /\ \A x \in S : Max(S) >= x
  BY <1>5 DEF Max
<1> QED BY <1>6

LEMMA RangesFit ==
  ASSUME NEW a \in Aggregate, Sound(a)
  PROVE  RangesMatch(a)
<1> DEFINE mins == {a.buckets[c].range.min : c \in Commands} \ {None}
           maxs == {a.buckets[c].range.max : c \in Commands} \ {None}
           range == a.all.range
<1>1. /\ a.all \in Bucket /\ Consistent(a.all) /\ a.unlistedActions \in Nat
      /\ \A c \in Commands : a.buckets[c] \in Bucket /\ Consistent(a.buckets[c])
      /\ Divided(a) /\ Covered(a)
  BY PartsOfAggregate DEF Sound
<1>2. /\ range \in Spread /\ range = [min |-> range.min, max |-> range.max]
      /\ range.min = None <=> range.max = None
      /\ range.min = None <=> a.all.counts["total"] = 0
      /\ range.min # None => range.min \in Nat /\ range.max \in Nat
  <2>1. range \in Spread
    BY <1>1, RangesAreWhole
  <2>2. range = [min |-> range.min, max |-> range.max]
    BY <2>1 DEF Spread
  <2> QED BY <1>1, <2>1, <2>2, RangesAreWhole
<1>3. ASSUME NEW c \in Commands
      PROVE  /\ a.buckets[c].range.min = None <=> a.buckets[c].range.max = None
             /\ a.buckets[c].range.min = None <=> a.buckets[c].counts["total"] = 0
             /\ a.buckets[c].range.min \in Measured \cup {None}
             /\ a.buckets[c].range.max \in Measured \cup {None}
  <2>1. a.buckets[c].range \in Spread
    BY <1>1, RangesAreWhole
  <2> QED BY <1>1, <2>1, RangesAreWhole DEF Spread
<1>4. "total" \in Counters /\ Listed(a, "total") \in Nat
      /\ Listed(a, "total") + a.unlistedActions = a.all.counts["total"]
  BY <1>1, ColumnsAreNatural DEF Divided, Counters
<1>5. mins \in SUBSET Nat /\ maxs \in SUBSET (0..MaxDuration) /\ MaxDuration \in Nat
  BY <1>3, MetricsBounds DEF Measured
<1>6. CASE mins = {} \/ maxs = {}
  <2>1. ASSUME NEW c \in Commands PROVE a.buckets[c].counts["total"] = 0
    BY <1>3, <1>6
  <2>2. Listed(a, "total") = 0
    <3>1. \A c \in Commands : Column(a, "total")[c] = 0
      BY <2>1 DEF Column
    <3> QED BY <1>4, <3>1, ColumnsAreNatural, SumOfNothing
  <2>3. a.unlistedActions > 0 \/ range = EmptyBucket.range
    <3>1. a.unlistedActions = 0 => range.min = None /\ range.max = None
      BY <1>1, <1>2, <1>4, <2>2
    <3>2. a.unlistedActions = 0 => range = EmptyBucket.range
      BY <1>2, <3>1, EmptyParts
    <3> QED BY <1>1, <3>2
  <2> QED BY <1>6, <2>3 DEF RangesMatch
<1>7. CASE mins # {} /\ maxs # {}
  <2>1. Min(mins) \in mins /\ Max(maxs) \in maxs
        /\ (\A x \in mins : Min(mins) <= x) /\ (\A x \in maxs : x <= Max(maxs))
    <3> HIDE DEF mins, maxs
    <3> QED BY <1>5, <1>7, LeastOf, GreatestOf
  <2>2. ASSUME NEW c \in Commands, a.buckets[c].range.min # None
        PROVE  /\ range.min # None /\ range.min <= a.buckets[c].range.min
               /\ a.buckets[c].range.max <= range.max
    BY <1>1, <2>2 DEF Covered
  <2>3. PICK c \in Commands : a.buckets[c].range.min = Min(mins) /\ a.buckets[c].range.min # None
    BY <2>1
  <2>4. PICK b \in Commands : a.buckets[b].range.max = Max(maxs) /\ a.buckets[b].range.max # None
    BY <2>1
  <2>5. a.buckets[b].range.min # None
    BY <1>3, <2>4
  <2>6. /\ range.min # None /\ range.min <= Min(mins) /\ Max(maxs) <= range.max
        /\ range.min \in Nat /\ range.max \in Nat /\ Min(mins) \in Nat /\ Max(maxs) \in Nat
    <3>1. range.min # None /\ range.min <= Min(mins)
      BY <2>2, <2>3
    <3>2. Max(maxs) <= range.max
      BY <2>2, <2>4, <2>5
    <3>3. Min(mins) \in Nat /\ Max(maxs) \in Nat
      <4>1. \A x \in mins : x \in Nat
        BY <1>5
      <4>2. \A x \in maxs : x \in Nat
        BY <1>5
      <4> HIDE DEF mins, maxs
      <4> QED BY <2>1, <4>1, <4>2
    <3> QED BY <1>2, <3>1, <3>2, <3>3
  <2>7. ASSUME a.unlistedActions = 0 PROVE range.min = Min(mins) /\ range.max = Max(maxs)
    <3>1. a.all.counts["total"] # 0
      BY <1>2, <2>6
    <3>2. /\ \E x \in Commands : a.buckets[x].range.min = range.min
          /\ \E x \in Commands : a.buckets[x].range.max = range.max
      BY <1>1, <2>7, <3>1 DEF Covered
    <3>3. range.max # None
      BY <1>2, <2>6
    <3>4. range.min \in mins /\ range.max \in maxs
      BY <2>6, <3>2, <3>3
    <3>5. Min(mins) <= range.min /\ range.max <= Max(maxs)
      BY <2>1, <3>4
    <3> HIDE DEF mins, maxs
    <3> QED BY <2>6, <3>5
  <2>8. IF a.unlistedActions = 0 THEN range = [min |-> Min(mins), max |-> Max(maxs)]
        ELSE range.min <= Min(mins) /\ range.max >= Max(maxs)
    <3>1. range.max >= Max(maxs)
      <4> HIDE DEF mins, maxs
      <4> QED BY <2>6
    <3>2. a.unlistedActions = 0 => range = [min |-> Min(mins), max |-> Max(maxs)]
      BY <1>2, <2>7
    <3> QED BY <2>6, <3>1, <3>2
  <2> QED BY <1>7, <2>8 DEF RangesMatch
<1> QED BY <1>6, <1>7

LEMMA SoundIsAccepted ==
  ASSUME NEW a \in Aggregate, Sound(a)
  PROVE  Accepted(a)
<1>1. /\ Consistent(a.all) /\ PayloadsFit(a.all) /\ Divided(a) /\ a.segments # 0
      /\ \A c \in Commands :
           Consistent(a.buckets[c]) /\ (c # Snapshot => a.buckets[c].counts["snapshots"] = 0)
  BY DEF Sound
<1>2. ASSUME NEW k \in Counters
      PROVE  /\ Listed(a, k) \in Nat /\ a.all.counts[k] \in Nat /\ a.all.counts[k] <= MaxCounter
             /\ Listed(a, k) <= a.all.counts[k] /\ Listed(a, k) <= MaxCounter
  <2>1. Listed(a, k) \in Nat /\ MaxCounter \in Nat
    BY ColumnsAreNatural, MetricsBounds
  <2>2. a.all.counts[k] \in 0..MaxCounter
    BY PartsOfAggregate DEF Bucket, Counts
  <2>3. Listed(a, k) <= a.all.counts[k]
    BY <1>1 DEF Divided
  <2> QED BY <2>1, <2>2, <2>3
<1>3. /\ Listed(a, "total") + a.unlistedActions = a.all.counts["total"]
      /\ Listed(a, "retries") + a.unlistedRetries = a.all.counts["retries"]
      /\ Listed(a, "snapshots") = a.all.counts["snapshots"]
      /\ a.unlistedActions = 0 => \A k \in Counters \ {"retries"} : Listed(a, k) = a.all.counts[k]
      /\ a.all.counts["requested"] <= Listed(a, "requested") + a.unlistedActions
  BY <1>1 DEF Divided
<1>4. ASSUME NEW k \in Counters \ {"retries"} PROVE Matches(a, k)
  BY <1>2, <1>3 DEF Matches
<1>5. ApprovalsMatch(a)
  <2>1. a.unlistedActions \in Nat /\ "requested" \in Counters
    BY PartsOfAggregate DEF Counters
  <2> QED BY <1>2, <1>3, <2>1 DEF ApprovalsMatch
<1>6. a.unlistedActions <= a.all.counts["total"]
  <2>1. a.unlistedActions \in Nat /\ "total" \in Counters
    BY PartsOfAggregate DEF Counters
  <2> QED BY <1>2, <1>3, <2>1
<1>7. PayloadsMatch(a) /\ \A k \in {"succeeded", "failed", "approved", "denied", "duration"} : Matches(a, k)
  BY <1>4 DEF PayloadsMatch, Payloads, Counters
<1>8. ClassifiedMatches(a)
  BY <1>1, <1>3, <1>5, <1>6, <1>7, RangesFit DEF ClassifiedMatches
<1> QED BY <1>1, <1>2, <1>8 DEF Accepted

-----------------------------------------------------------------------------
LEMMA NothingTells == Tells(EmptyAggregate, NothingYet)
<1> DEFINE a == EmptyAggregate
<1>1. /\ a \in Aggregate /\ a.all = EmptyBucket /\ a.segments = 1 /\ ~a.saturated
      /\ a.unlistedActions = 0 /\ a.unlistedRetries = 0
      /\ \A c \in Commands : a.buckets[c] = EmptyBucket
      /\ NothingYet.segments = 1 /\ NothingYet.counts = EmptyBucket.counts
  BY EmptyParts DEF EmptyAggregate, NothingYet
<1> HIDE DEF a
<1>2. /\ \A k \in Counters : EmptyBucket.counts[k] = 0
      /\ EmptyBucket.range.min = None /\ EmptyBucket.range.max = None
      /\ {"total", "succeeded", "failed", "snapshots", "retries", "requested", "approved",
          "denied", "duration", "output", "unmeasured", "snapshotOutput",
          "snapshotUnmeasured"} \subseteq Counters
  BY EmptyParts DEF Counters
<1>3. ASSUME NEW k \in Counters PROVE Listed(a, k) = 0
  <2>1. \A c \in Commands : Column(a, k)[c] = 0
    BY <1>1, <1>2 DEF Column
  <2> QED BY <1>1, <2>1, ColumnsAreNatural, SumOfNothing
<1>4. Consistent(EmptyBucket) /\ PayloadsFit(EmptyBucket)
  BY <1>2 DEF Consistent, PayloadsFit, DurationFits
<1>5. Divided(a)
  BY <1>1, <1>2, <1>3 DEF Divided
<1>6. Covered(a)
  BY <1>1, <1>2 DEF Covered
<1>7. Sound(a)
  BY <1>1, <1>2, <1>4, <1>5, <1>6 DEF Sound
<1>8. Faithful(a, NothingYet)
  BY <1>1, <1>2 DEF Faithful
<1>9. Unclipped(a, NothingYet)
  BY <1>1, <1>2, <1>3 DEF Unclipped
<1> QED BY <1>7, <1>8, <1>9 DEF Tells, a

(* initialMetrics: the next process goes on with an aggregate that tells.   *)
LEMMA ResumedTells ==
  ASSUME NEW a \in Aggregate, NEW t \in Truth, Tells(a, t), NEW r, r = Resumed(a),
         NEW u, u.counts = t.counts,
         u.segments = IF t.segments > MaxCounter THEN t.segments ELSE t.segments + 1
  PROVE  Tells(r, u)
<1>1. /\ r \in Aggregate /\ r.all = a.all /\ r.buckets = a.buckets
      /\ r.unlistedActions = a.unlistedActions /\ r.unlistedRetries = a.unlistedRetries
      /\ r.segments = Add(a.segments, 1) /\ r.segments # 0
      /\ ~r.saturated => ~a.saturated /\ ~Clips(a.segments, 1)
  BY ResumedParts
<1>2. \A k \in Counters : Listed(r, k) = Listed(a, k)
  BY <1>1, ListedStays
<1>3. "total" \in Counters /\ "retries" \in Counters /\ "snapshots" \in Counters /\ "requested" \in Counters
  BY DEF Counters
<1>4. Unclipped(r, u)
  <2> SUFFICES ASSUME ~r.saturated
               PROVE  /\ r.segments = u.segments
                      /\ r.all.counts = u.counts
                      /\ Listed(r, "total") + r.unlistedActions = u.counts["total"]
                      /\ Listed(r, "retries") + r.unlistedRetries = u.counts["retries"]
                      /\ \A k \in Counters : Listed(r, k) <= u.counts[k]
    BY DEF Unclipped
  <2>1. /\ a.segments = t.segments /\ a.all.counts = t.counts
        /\ Listed(a, "total") + a.unlistedActions = t.counts["total"]
        /\ Listed(a, "retries") + a.unlistedRetries = t.counts["retries"]
        /\ \A k \in Counters : Listed(a, k) <= t.counts[k]
    BY <1>1 DEF Tells, Unclipped
  <2>2. r.segments = u.segments
    <3>1. a.segments \in Nat /\ MaxCounter \in Nat
      BY PartsOfAggregate, MetricsBounds
    <3>2. a.segments + 1 <= MaxCounter
      BY <1>1, <3>1 DEF Clips
    <3> QED BY <1>1, <2>1, <3>1, <3>2 DEF Add
  <2> QED BY <1>1, <1>2, <1>3, <2>1, <2>2
<1>5. ASSUME Within(u) PROVE Faithful(r, u) /\ Sound(r)
  <2>1. Faithful(a, t) /\ Sound(a)
    BY <1>5 DEF Tells, Within
  <2>2. Faithful(r, u)
    BY <1>1, <2>1 DEF Faithful
  <2>3. Divided(r)
    BY <1>1, <1>2, <1>3, <2>1 DEF Divided, Sound
  <2>4. Covered(r)
    BY <1>1, <2>1 DEF Covered, Sound
  <2> QED BY <1>1, <2>1, <2>2, <2>3, <2>4 DEF Sound
<1> QED BY <1>4, <1>5 DEF Tells

-----------------------------------------------------------------------------
LEMMA InitTells == MetricsInit => IInv
<1> SUFFICES ASSUME MetricsInit PROVE IInv
  OBVIOUS
<1>1. recorder = EmptyAggregate /\ stored = None /\ truth = NothingYet
  BY DEF MetricsInit
<1> QED BY <1>1, TypesHold, NothingTells DEF IInv

LEMMA IInvKept ==
  ASSUME IInv, [MetricsNext]_vars
  PROVE  IInv'
<1>1. /\ MetricsTypeOK /\ MetricsTypeOK' /\ recorder \in Aggregate /\ truth \in Truth
      /\ stored \in Aggregate \cup {None} /\ kept \in Truth
      /\ Tells(recorder, truth) /\ (stored # None => Tells(stored, kept))
  BY TypesKept DEF IInv, MetricsTypeOK
<1>2. Unclipped(recorder, truth) /\ (Within(truth) => Faithful(recorder, truth) /\ Sound(recorder))
  BY <1>1 DEF Tells
<1>3. ASSUME NEW name \in Names, NEW failed \in BOOLEAN, NEW approval \in Approvals,
             NEW duration \in Durations \cup {None}, NEW volume \in Volumes \cup {None},
             RecordAction(name, failed, approval, duration, volume)
      PROVE  Tells(recorder', truth') /\ stored' = stored /\ kept' = kept
  <2> DEFINE seen == Seen(name, failed, approval, Bounded(duration), volume)
             real == Seen(name, failed, approval, Elapsed(duration), volume)
             r == WithAction(recorder, name, seen, duration)
             u == Happened(truth, real)
  <2>1. /\ Fitting(seen, name, Bounded(duration)) /\ Fitting(real, name, Elapsed(duration))
        /\ Bounding(seen, real, duration)
        /\ ~OutOfRange(duration) => seen = real
    BY SeenIsBounded
  <2>2. recorder' = r /\ truth' = u /\ stored' = stored /\ kept' = kept
    BY <1>3 DEF RecordAction
  <2> HIDE DEF seen, real
  <2>3. Unclipped(r, u)
    BY <1>1, <1>2, <2>1, ActionUnclipped
  <2>4. ASSUME Within(u) PROVE Faithful(r, u) /\ Sound(r)
    <3>1. Within(truth)
      <4>1. \A k \in Counters : /\ truth.counts[k] \in Nat /\ real[k] \in Nat
                                /\ u.counts[k] = truth.counts[k] + real[k]
        BY <1>1, <2>1, CountsOfTruth DEF Bounding
      <4>2. \A k \in Counters : u.counts[k] <= MaxCounter
        BY <2>4 DEF Within
      <4> QED BY <4>1, <4>2, MetricsBounds DEF Within
    <3> QED BY <1>1, <1>2, <2>1, <2>4, <3>1, ActionSound
  <2>5. Tells(r, u)
    BY <2>3, <2>4 DEF Tells
  <2> QED BY <2>2, <2>5
<1>4. ASSUME NEW name \in Names, RecordRetry(name)
      PROVE  Tells(recorder', truth') /\ stored' = stored /\ kept' = kept
  <2> DEFINE r == WithRetry(recorder, name)
             u == Happened(truth, Retried)
  <2>1. recorder' = r /\ truth' = u /\ stored' = stored /\ kept' = kept
    BY <1>4 DEF RecordRetry
  <2>2. Unclipped(r, u)
    BY <1>1, <1>2, RetryUnclipped
  <2>3. ASSUME Within(u) PROVE Faithful(r, u) /\ Sound(r)
    <3>1. Within(truth)
      <4>1. \A k \in Counters : /\ truth.counts[k] \in Nat /\ Retried[k] \in Nat
                                /\ u.counts[k] = truth.counts[k] + Retried[k]
        BY <1>1, RetryFits, CountsOfTruth
      <4>2. \A k \in Counters : u.counts[k] <= MaxCounter
        BY <2>3 DEF Within
      <4> QED BY <4>1, <4>2, MetricsBounds DEF Within
    <3> QED BY <1>1, <1>2, <2>3, <3>1, RetrySound
  <2>4. Tells(r, u)
    BY <2>2, <2>3 DEF Tells
  <2> QED BY <2>1, <2>4
<1>5. CASE Store
  <2>1. stored' = recorder /\ kept' = truth /\ recorder' = recorder /\ truth' = truth
    BY <1>5 DEF Store
  <2> QED BY <1>1, <2>1 DEF IInv
<1>6. CASE Reopen
  <2> DEFINE r == Resumed(stored)
             u == [kept EXCEPT !.segments = IF kept.segments > MaxCounter
                                            THEN kept.segments ELSE kept.segments + 1]
  <2>1. /\ stored # None /\ stored \in Aggregate
        /\ recorder' = r /\ truth' = u /\ stored' = stored /\ kept' = kept
    BY <1>1, <1>6 DEF Reopen
  <2>2. u.counts = kept.counts /\ u.segments = IF kept.segments > MaxCounter
                                               THEN kept.segments ELSE kept.segments + 1
    BY <1>1 DEF Truth
  <2>3. Tells(stored, kept)
    BY <1>1, <2>1
  <2> HIDE DEF u
  <2>4. Tells(r, u)
    BY <1>1, <2>1, <2>2, <2>3, ResumedTells
  <2> QED BY <1>1, <2>1, <2>3, <2>4 DEF IInv
<1>7. CASE UNCHANGED vars
  BY <1>1, <1>7 DEF IInv, vars
<1>8. CASE \E name \in Names, failed \in BOOLEAN, approval \in {"approved", "denied", None},
            duration \in Durations \cup {None}, volume \in Volumes \cup {None} :
            RecordAction(name, failed, approval, duration, volume)
  <2>1. Tells(recorder', truth') /\ stored' = stored /\ kept' = kept
    BY <1>3, <1>8 DEF Approvals
  <2> QED BY <1>1, <2>1 DEF IInv
<1>9. CASE \E name \in Names : RecordRetry(name)
  <2>1. Tells(recorder', truth') /\ stored' = stored /\ kept' = kept
    BY <1>4, <1>9
  <2> QED BY <1>1, <2>1 DEF IInv
<1> QED BY <1>5, <1>6, <1>7, <1>8, <1>9 DEF MetricsNext

LEMMA MetricsInvariance == MetricsSpec => []IInv
BY InitTells, IInvKept, PTL DEF MetricsSpec

(* The recorder, the stored export and the history keep their types: no     *)
(* counter passes MAX_COUNTER, whatever is recorded.                        *)
THEOREM MetricsTypes == MetricsSpec => []MetricsTypeOK
<1>1. IInv => MetricsTypeOK
  BY DEF IInv
<1> QED BY <1>1, MetricsInvariance, PTL

(* Without the flag the totals are what was recorded, over all processes.   *)
THEOREM Unflagged == MetricsSpec => []UnflaggedIsExact
<1>1. IInv => UnflaggedIsExact
  BY DEF IInv, Tells, Unclipped, UnflaggedIsExact
<1> QED BY <1>1, MetricsInvariance, PTL

(* What is exported below the ceilings, at any moment, is accepted by the   *)
(* next process.                                                            *)
THEOREM Accepting == MetricsSpec => []ExportsAreAccepted
<1>1. IInv => ExportsAreAccepted
  <2> SUFFICES ASSUME IInv, stored # None, \A k \in Counters : kept.counts[k] <= MaxCounter
               PROVE  Accepted(stored)
    BY DEF ExportsAreAccepted
  <2>1. stored \in Aggregate
    BY DEF IInv, MetricsTypeOK
  <2>2. Sound(stored)
    BY DEF IInv, Tells, Within
  <2> QED BY <2>1, <2>2, SoundIsAccepted
<1> QED BY <1>1, MetricsInvariance, PTL
=============================================================================
