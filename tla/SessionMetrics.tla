---------------------------- MODULE SessionMetrics ----------------------------
(***************************************************************************)
(* The metrics recorder of src/session-metrics.ts: counters that stop at a *)
(* ceiling, kept in total and per public command, exported while calls are *)
(* under way, and resumed by a later process if validateSessionMetrics     *)
(* accepts the stored export.                                              *)
(*                                                                         *)
(* Of the payloads the text a command answers with, and its snapshot       *)
(* subset, stand for all, and of their two sizes one; the observed active  *)
(* time is left out, and clear, which nothing in the repository calls.     *)
(***************************************************************************)
EXTENDS Naturals, FiniteSets, FiniteSetsExt

CONSTANTS Commands,     \* the public registry of browser tools
          Snapshot,     \* browser_snapshot
          Unlisted,     \* a name that is not in the registry
          MaxCounter,   \* MAX_COUNTER
          MaxDuration,  \* MAX_ACTION_DURATION_MS
          Durations,    \* the durations actions are given
          Volumes,      \* the sizes of their outputs
          None,
          MaxActions,   \* bound: actions recorded over all processes
          MaxRetries    \* bound: retries recorded over all processes

ASSUME SnapshotIsPublic == Snapshot \in Commands /\ Unlisted \notin Commands
ASSUME MetricsBounds == {MaxCounter, MaxActions, MaxRetries} \subseteq Nat \ {0} /\ MaxDuration \in 0..MaxCounter
ASSUME MeasuresAreNatural == Durations \subseteq Nat /\ Volumes \subseteq Nat
ASSUME CommandsAreFinite == IsFiniteSet(Commands)

VARIABLES recorder,  \* the aggregate in memory
          stored,    \* the export on disk, or None
          truth,     \* history: the sums without any ceiling
          kept       \* history: truth when the export was stored

vars == <<recorder, stored, truth, kept>>

Counters == {"total", "succeeded", "failed", "snapshots", "retries", "requested",
             "approved", "denied", "duration", "output", "unmeasured",
             "snapshotOutput", "snapshotUnmeasured"}
Counts == [Counters -> 0..MaxCounter]
Measured == 0..MaxDuration
Spread == [min : Measured \cup {None}, max : Measured \cup {None}]
Bucket == [counts : Counts, range : Spread]
Aggregate == [all : Bucket, segments : 0..MaxCounter, saturated : BOOLEAN,
              unlistedActions : 0..MaxCounter, unlistedRetries : 0..MaxCounter,
              buckets : [Commands -> Bucket]]
ASSUME NoneIsNothing == None \notin Nat \cup {"approved", "denied"} \cup Aggregate

Truth == [counts : [Counters -> Nat], segments : 1..(MaxCounter + 1)]

MetricsTypeOK ==
  /\ recorder \in Aggregate
  /\ stored \in Aggregate \cup {None}
  /\ truth \in Truth /\ kept \in Truth

(* A bucket that does not exist yet counts nothing.                         *)
EmptyBucket == [counts |-> [k \in Counters |-> 0], range |-> [min |-> None, max |-> None]]
EmptyAggregate ==
  [all |-> EmptyBucket, segments |-> 1, saturated |-> FALSE,
   unlistedActions |-> 0, unlistedRetries |-> 0,
   buckets |-> [c \in Commands |-> EmptyBucket]]
NothingYet == [counts |-> EmptyBucket.counts, segments |-> 1]

MetricsInit ==
  /\ recorder = EmptyAggregate
  /\ stored = None
  /\ truth = NothingYet /\ kept = NothingYet

-----------------------------------------------------------------------------
(* add: a sum stops at the ceiling, and saturated tells so.                 *)
Add(n, increment) == IF n + increment > MaxCounter THEN MaxCounter ELSE n + increment
Clips(n, increment) == n + increment > MaxCounter

(* Counters without a ceiling: what really happened.                        *)
CountedOn(counts, seen) == [k \in Counters |-> counts[k] + seen[k]]
Happened(t, seen) == [t EXCEPT !.counts = CountedOn(@, seen)]

Counted(counts, seen) == [k \in Counters |-> Add(counts[k], seen[k])]
Overflows(counts, seen) == \E k \in Counters : Clips(counts[k], seen[k])

(* recordDuration                                                           *)
Widened(range, d) ==
  [min |-> IF range.min = None THEN d ELSE Min({range.min, d}),
   max |-> IF range.max = None THEN d ELSE Max({range.max, d})]

Updated(bucket, seen, d) ==
  [counts |-> Counted(bucket.counts, seen), range |-> Widened(bucket.range, d)]

If(condition) == IF condition THEN 1 ELSE 0

(* recordApproval: what became of a request for approval, if there was one. *)
Approval(status) ==
  [requested |-> If(status # None), approved |-> If(status = "approved"),
   denied |-> If(status = "denied")]

(* recordVolume: an output that is no text has no size and is counted.      *)
Output(volume) ==
  [size |-> IF volume = None THEN 0 ELSE volume, unmeasured |-> If(volume = None)]
NoOutput == [size |-> 0, unmeasured |-> 0]
SnapshotOutput(name, volume) == IF name = Snapshot THEN Output(volume) ELSE NoOutput

(* An action as it is measured: the name, the outcome, the approval, the    *)
(* bounded duration and the volume of the output.                           *)
Seen(name, failed, approval, d, volume) ==
  [total |-> 1, succeeded |-> If(~failed), failed |-> If(failed),
   snapshots |-> If(name = Snapshot), retries |-> 0,
   requested |-> Approval(approval).requested, approved |-> Approval(approval).approved,
   denied |-> Approval(approval).denied, duration |-> d,
   output |-> Output(volume).size, unmeasured |-> Output(volume).unmeasured,
   snapshotOutput |-> SnapshotOutput(name, volume).size,
   snapshotUnmeasured |-> SnapshotOutput(name, volume).unmeasured]

(* A retry adds to one counter.                                             *)
Retried == [k \in Counters |-> If(k = "retries")]

(* boundedActionDuration: what is no span of time (it ends before it began, *)
(* or is no number), here None, counts as none at all; neither that nor one *)
(* that is too long passes without the flag.                                *)
OutOfRange(duration) == duration = None \/ duration > MaxDuration
Elapsed(duration) == IF duration = None THEN 0 ELSE duration
Bounded(duration) == IF duration # None /\ duration > MaxDuration THEN MaxDuration ELSE Elapsed(duration)

(* The totals and the bucket of the command, or the count of those that     *)
(* have none.                                                               *)
WithAction(a, name, seen, duration) ==
  LET d == Bounded(duration)
      clips == \/ OutOfRange(duration)
               \/ Overflows(a.all.counts, seen)
               \/ IF name \in Commands THEN Overflows(a.buckets[name].counts, seen)
                  ELSE Clips(a.unlistedActions, 1)
  IN  [a EXCEPT
         !.all = Updated(@, seen, d),
         !.saturated = @ \/ clips,
         !.unlistedActions = IF name \in Commands THEN @ ELSE Add(@, 1),
         !.buckets = IF name \in Commands
                     THEN [@ EXCEPT ![name] = Updated(a.buckets[name], seen, d)] ELSE @]

RecordAction(name, failed, approval, duration, volume) ==
  /\ truth.counts["total"] < MaxActions
  /\ recorder' = WithAction(recorder, name,
                            Seen(name, failed, approval, Bounded(duration), volume), duration)
  /\ truth' = Happened(truth, Seen(name, failed, approval, Elapsed(duration), volume))
  /\ UNCHANGED <<stored, kept>>

RetriedIn(bucket) == [bucket EXCEPT !.counts = Counted(@, Retried)]

(* Faulty: a retry is counted in the bucket of a command only once the      *)
(* command has completed an action.                                         *)
WithRetryOfKnown(a, name) ==
  [a EXCEPT
     !.all = RetriedIn(@),
     !.saturated = @ \/ Clips(a.all.counts["retries"], 1),
     !.unlistedRetries = IF name \in Commands THEN @ ELSE Add(@, 1),
     !.buckets = IF name \in Commands /\ a.buckets[name] # EmptyBucket
                 THEN [@ EXCEPT ![name] = RetriedIn(a.buckets[name])] ELSE @]

(* A retry is counted while its action is still under way.                  *)
WithRetry(a, name) ==
  [a EXCEPT
     !.all = RetriedIn(@),
     !.saturated = @ \/ Clips(a.all.counts["retries"], 1),
     !.unlistedRetries = IF name \in Commands THEN @ ELSE Add(@, 1),
     !.buckets = IF name \in Commands THEN [@ EXCEPT ![name] = RetriedIn(a.buckets[name])] ELSE @]

RecordRetry(name) ==
  /\ truth.counts["retries"] < MaxRetries
  /\ recorder' = WithRetry(recorder, name)
  /\ truth' = Happened(truth, Retried)
  /\ UNCHANGED <<stored, kept>>

(* snapshot, written by SessionEvidence.                                    *)
Store ==
  /\ stored' = recorder
  /\ kept' = truth
  /\ UNCHANGED <<recorder, truth>>

-----------------------------------------------------------------------------
(* validateSessionMetrics                                                   *)
DurationFits(b) ==
  LET n == b.counts["total"]
      d == b.counts["duration"]
  IN  IF n = 0 THEN d = 0 /\ b.range.min = None /\ b.range.max = None
      ELSE /\ b.range.min # None /\ b.range.max # None
           /\ b.range.min <= b.range.max /\ b.range.max <= d
           /\ b.range.max <= MaxDuration
           /\ d <= MaxCounter /\ d <= n * MaxDuration

(* validateSessionMetrics: the snapshots are among the outputs.             *)
PayloadsFit(b) ==
  /\ b.counts["snapshotOutput"] <= b.counts["output"]
  /\ b.counts["snapshotUnmeasured"] <= b.counts["unmeasured"]

Consistent(b) ==
  /\ b.counts["succeeded"] + b.counts["failed"] = b.counts["total"]
  /\ b.counts["approved"] + b.counts["denied"] = b.counts["requested"]
  /\ DurationFits(b)
  /\ b.counts["snapshots"] <= b.counts["total"]
  /\ b.counts["requested"] <= b.counts["total"]

Listed(a, k) == SumFunction([c \in Commands |-> a.buckets[c].counts[k]])

(* The totals may exceed the buckets only by what the unlisted actions can  *)
(* have contributed.                                                        *)
Matches(a, k) ==
  IF a.unlistedActions = 0 THEN Listed(a, k) = a.all.counts[k]
  ELSE Listed(a, k) <= a.all.counts[k]

ApprovalsMatch(a) ==
  /\ Listed(a, "requested") <= a.all.counts["requested"]
  /\ a.all.counts["requested"] - Listed(a, "requested") <= a.unlistedActions

RangesMatch(a) ==
  LET mins == {a.buckets[c].range.min : c \in Commands} \ {None}
      maxs == {a.buckets[c].range.max : c \in Commands} \ {None}
      range == a.all.range
  IN  IF mins = {} \/ maxs = {} THEN a.unlistedActions > 0 \/ range = EmptyBucket.range
      ELSE IF a.unlistedActions = 0 THEN range = [min |-> Min(mins), max |-> Max(maxs)]
      ELSE range.min <= Min(mins) /\ range.max >= Max(maxs)

Payloads == {"output", "unmeasured", "snapshotOutput", "snapshotUnmeasured"}
PayloadsMatch(a) == \A k \in Payloads : Matches(a, k)

(* The buckets against the totals.                                          *)
ClassifiedMatches(a) ==
  /\ Listed(a, "total") + a.unlistedActions = a.all.counts["total"]
  /\ Listed(a, "retries") + a.unlistedRetries = a.all.counts["retries"]
  /\ Listed(a, "snapshots") = a.all.counts["snapshots"]
  /\ a.unlistedActions <= a.all.counts["total"]
  /\ \A k \in {"succeeded", "failed", "approved", "denied", "duration"} : Matches(a, k)
  /\ ApprovalsMatch(a) /\ RangesMatch(a) /\ PayloadsMatch(a)
  /\ a.segments = 0 => a.all.counts["total"] = 0

Accepted(a) ==
  /\ Consistent(a.all) /\ PayloadsFit(a.all)
  /\ \A c \in Commands :
       /\ Consistent(a.buckets[c])
       /\ c # Snapshot => a.buckets[c].counts["snapshots"] = 0
  /\ \A k \in Counters : Listed(a, k) <= MaxCounter
  /\ ClassifiedMatches(a)

(* Faulty: the next process starts with a clean flag.                       *)
ResumedUnflagged(a) ==
  [a EXCEPT !.segments = Add(@, 1), !.saturated = Clips(a.segments, 1)]

(* initialMetrics: a new segment of the same aggregate.                     *)
Resumed(a) ==
  [a EXCEPT !.segments = Add(@, 1), !.saturated = @ \/ Clips(a.segments, 1)]

(* The process ends, in order or not, and another one resumes what is       *)
(* stored; what was recorded since is lost.                                 *)
Reopen ==
  /\ stored # None /\ Accepted(stored)
  /\ recorder' = Resumed(stored)
  /\ truth' = [kept EXCEPT !.segments = IF @ > MaxCounter THEN @ ELSE @ + 1]
  /\ UNCHANGED <<stored, kept>>

Names == Commands \cup {Unlisted}

MetricsNext ==
  \/ \E name \in Names, failed \in BOOLEAN, approval \in {"approved", "denied", None},
        duration \in Durations \cup {None}, volume \in Volumes \cup {None} :
       RecordAction(name, failed, approval, duration, volume)
  \/ \E name \in Names : RecordRetry(name)
  \/ Store \/ Reopen

MetricsSpec == MetricsInit /\ [][MetricsNext]_vars

-----------------------------------------------------------------------------
(* docs/session-metrics.md on reopening: an aggregate whose sums are within *)
(* their ceilings, exported at any moment, also between a retry and the end *)
(* of its action, is one the next process accepts.                          *)
ExportsAreAccepted ==
  stored # None /\ (\A k \in Counters : kept.counts[k] <= MaxCounter) => Accepted(stored)

(* docs/session-metrics.md on saturated: unless the flag says that a field  *)
(* was clipped, by this process or by an earlier one, the totals are what   *)
(* was recorded over all processes (up to what was stored when one ended),  *)
(* and the buckets with the unlisted actions and retries divide them.       *)
UnflaggedIsExact ==
  ~recorder.saturated =>
    /\ recorder.segments = truth.segments
    /\ recorder.all.counts = truth.counts
    /\ Listed(recorder, "total") + recorder.unlistedActions = truth.counts["total"]
    /\ Listed(recorder, "retries") + recorder.unlistedRetries = truth.counts["retries"]
    /\ \A k \in Counters : Listed(recorder, k) <= truth.counts[k]
=============================================================================
