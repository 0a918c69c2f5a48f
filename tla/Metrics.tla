------------------------------- MODULE Metrics -------------------------------
(***************************************************************************)
(* Statistics and the thread that writes them down.  Threads sample a      *)
(* Distribution, whose fields are atomic each but not together, and a      *)
(* PercentileHistogram of NumBuckets buckets; snapshots of the count are   *)
(* queued for the StreamingReporter, whose output thread writes them to a  *)
(* file while a controller starts and stops it.  The wait of the output    *)
(* thread has a timeout, so it may end at any time.                        *)
(***************************************************************************)
EXTENDS Integers, Sequences, SequencesExt, FiniteSets

CONSTANTS
  Samplers,    \* threads that sample
  Values,      \* values they sample
  NumBuckets,  \* NUM_BUCKETS
  MaxSamples,  \* bound: samples
  MaxSnaps,    \* bound: snapshots
  MaxStarts    \* bound: calls of start

VARIABLES
  dist,     \* count_, min_, max_, sum_ of the Distribution
  buckets,  \* buckets_ of the histogram: bucket -> count
  local,    \* sampler -> what sample() has in hand: its step, value, old sum
  taken,    \* history: the values sampled since the last reset
  total,    \* history: how many were sampled at all
  torn,     \* history: two samples or a reset overlapped since the last reset
  reporter, \* running_, whether ofs_ is open, starts; the step of stop()
  thread,   \* output_thread_: none, check, wait, done
  pending,  \* pending_queue_
  file,     \* what the file holds
  snaps,    \* history: how many snapshots were enqueued
  gone,     \* history: snapshots lost when the file was truncated
  flushed   \* history: how many snapshots there were when stop() flushed

metricVars == <<dist, buckets, local, taken, total, torn, reporter, thread, pending, file, snaps, gone, flushed>>
statVars == <<dist, buckets, local, taken, total, torn>>
reportVars == <<reporter, thread, pending, file, snaps, gone, flushed>>

Unset == 1000
NoSamples == [count |-> 0, min |-> Unset, max |-> 0, sum |-> 0]
Idle == [step |-> "idle", value |-> 0, old |-> 0]

MetricInit ==
  /\ dist = NoSamples
  /\ buckets = [i \in 0..(NumBuckets - 1) |-> 0]
  /\ local = [s \in Samplers |-> Idle]
  /\ taken = << >> /\ total = 0 /\ torn = FALSE
  /\ reporter = [running |-> FALSE, open |-> FALSE, starts |-> 0, stop |-> "no"]
  /\ thread = "none"
  /\ pending = << >> /\ file = << >> /\ snaps = 0 /\ gone = 0 /\ flushed = 0

-----------------------------------------------------------------------------
LowerBound(i) == 2 ^ i
(* The highest bit of the value; the last bucket has all that is larger.   *)
ValueToBucket(v) ==
  LET fits == {i \in 0..(NumBuckets - 1) : LowerBound(i) <= v}
  IN  CHOOSE i \in fits : \A j \in fits : j <= i

(* Distribution::sample up to its loops, and PercentileHistogram::record.  *)
Sample(s, v) ==
  /\ local[s].step = "idle" /\ total < MaxSamples
  /\ local' = [local EXCEPT ![s] = [step |-> "counted", value |-> v, old |-> 0]]
  /\ dist' = [dist EXCEPT !.count = @ + 1, !.min = IF v < @ THEN v ELSE @, !.max = IF v > @ THEN v ELSE @]
  /\ buckets' = IF v <= 0 THEN buckets ELSE [buckets EXCEPT ![ValueToBucket(v)] = @ + 1]
  /\ taken' = Append(taken, v) /\ total' = total + 1
  /\ torn' = (torn \/ \E t \in Samplers : local[t].step # "idle")
  /\ UNCHANGED reportVars

LoadSum(s) ==
  /\ local[s].step = "counted"
  /\ local' = [local EXCEPT ![s].step = "loaded", ![s].old = dist.sum]
  /\ UNCHANGED <<dist, buckets, taken, total, torn>> /\ UNCHANGED reportVars

StoreSum(s) ==
  /\ local[s].step = "loaded"
  /\ dist' = [dist EXCEPT !.sum = local[s].old + local[s].value]
  /\ local' = [local EXCEPT ![s] = Idle]
  /\ UNCHANGED <<buckets, taken, total, torn>> /\ UNCHANGED reportVars

(* StatsManager::reset_all                                                 *)
ResetAll ==
  /\ dist.count > 0
  /\ dist' = NoSamples
  /\ buckets' = [i \in DOMAIN buckets |-> 0]
  /\ taken' = << >>
  /\ torn' = (\E t \in Samplers : local[t].step # "idle")
  /\ UNCHANGED <<local, total>> /\ UNCHANGED reportVars

(* percentile: the first bucket the cumulated counts reach the target in.  *)
(* Its place in the bucket is left out.                                    *)
Total == FoldFunction(+, 0, buckets)
Cumulated(i) == FoldFunctionOnSet(+, 0, buckets, 0..i)
PercentileBucket(p) ==
  LET reached == {i \in DOMAIN buckets : 100 * Cumulated(i) >= p * Total}
  IN  CHOOSE i \in reached : \A j \in reached : i <= j

-----------------------------------------------------------------------------
EnqueueSnapshot ==
  /\ snaps < MaxSnaps
  /\ snaps' = snaps + 1
  /\ pending' = Append(pending, snaps')
  /\ UNCHANGED <<reporter, thread, file, gone, flushed>> /\ UNCHANGED statVars

(* The file is truncated; the thread starts unless it cannot be opened.    *)
Start(opens) ==
  /\ ~reporter.running /\ reporter.stop = "no" /\ reporter.starts < MaxStarts
  /\ reporter' = [reporter EXCEPT !.running = opens, !.open = opens, !.starts = @ + 1]
  /\ thread' = IF opens THEN "check" ELSE thread
  /\ file' = IF opens THEN << >> ELSE file
  /\ gone' = IF opens THEN gone + Len(file) ELSE gone
  /\ UNCHANGED <<pending, snaps, flushed>> /\ UNCHANGED statVars

Stop ==
  /\ reporter.running /\ reporter.stop = "no"
  /\ reporter' = [reporter EXCEPT !.running = FALSE, !.stop = "join"]
  /\ UNCHANGED <<thread, pending, file, snaps, gone, flushed>> /\ UNCHANGED statVars

(* stop() after the join: flush_all, and the file is closed.               *)
Joined ==
  /\ reporter.stop = "join" /\ thread = "done"
  /\ reporter' = [reporter EXCEPT !.stop = "no", !.open = FALSE]
  /\ thread' = "none"
  /\ file' = file \o pending /\ pending' = << >>
  /\ flushed' = snaps
  /\ UNCHANGED <<snaps, gone>> /\ UNCHANGED statVars

LoopCheck ==
  /\ thread = "check"
  /\ thread' = IF reporter.running THEN "wait" ELSE "done"
  /\ UNCHANGED <<reporter, pending, file, snaps, gone, flushed>> /\ UNCHANGED statVars

LoopWrite ==
  /\ thread = "wait"
  /\ thread' = "check"
  /\ file' = file \o pending /\ pending' = << >>
  /\ UNCHANGED <<reporter, snaps, gone, flushed>> /\ UNCHANGED statVars

MetricNext ==
  \/ \E s \in Samplers : LoadSum(s) \/ StoreSum(s) \/ \E v \in Values : Sample(s, v)
  \/ ResetAll \/ EnqueueSnapshot \/ Stop \/ Joined \/ LoopCheck \/ LoopWrite
  \/ \E opens \in BOOLEAN : Start(opens)

MetricSpec == MetricInit /\ [][MetricNext]_metricVars
-----------------------------------------------------------------------------
(* Snapshots are written once and in order: those of files that were       *)
(* truncated, those in the file, those pending.  What was there when       *)
(* stop() flushed has been written.                                        *)
SnapshotsWritten ==
  /\ file \o pending = [i \in 1..(snaps - gone) |-> gone + i]
  /\ ~reporter.running /\ reporter.stop = "no" => \A i \in ToSet(pending) : i > flushed

(* Samples that do not overlap leave the sum of the values.                *)
SumsAgree ==
  ~torn /\ (\A s \in Samplers : local[s].step = "idle") =>
    /\ dist.sum = FoldSeq(+, 0, taken)
    /\ dist.count = Len(taken)

(* The bucket of the median has a value at least half of the values are    *)
(* not above, and half of them not below.                                  *)
PercentilesBound ==
  LET recorded == {i \in DOMAIN taken : taken[i] > 0}
      half(is) == 2 * Cardinality(is) >= Cardinality(recorded)
  IN  recorded # {} =>
        LET b == PercentileBucket(50)
        IN  /\ half({i \in recorded : ValueToBucket(taken[i]) <= b})
            /\ half({i \in recorded : ValueToBucket(taken[i]) >= b})

MetricsSound == SnapshotsWritten /\ SumsAgree /\ PercentilesBound
=============================================================================
