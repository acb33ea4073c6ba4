------------------------------- MODULE Regime -------------------------------
(***************************************************************************)
(* The market-regime stage: three readings of the benchmark, the           *)
(* volatility index and the breadth of the universe, resolved into one of  *)
(* nine buckets or the momentum-crash bucket, and what the bucket allows.  *)
(* A reading is a record of classes, "none" where there is too little      *)
(* history to compute the quantity.                                        *)
(***************************************************************************)
EXTENDS Integers, FiniteSets

CONSTANTS MultiplierRows,   \* buckets with a row in the multiplier table
          NoEntryBuckets,   \* stage2_regime.no_new_entry_buckets
          MinDisagreeing    \* components that must differ to call a transition

CrashBucket == <<"uptrend", "highvol", "rebound">>
-----------------------------------------------------------------------------
\* Slope and level must agree, and both must be computable, to leave the range.
TrendRead(m) ==
  CASE m.slope = "rising" /\ m.slow = "above"  -> "uptrend"
    [] m.slope = "falling" /\ m.slow = "below" -> "downtrend"
    [] OTHER -> "rangebound"

VolRead(m) ==
  CASE m.vix = "none"  -> "midvol"
    [] m.vix = "short" -> "midvol"
    [] m.vix = "low"   -> "lowvol"
    [] m.vix = "mid"   -> "midvol"
    [] m.vix \in {"high", "extreme"} -> "highvol"

BreadthRead(m) ==
  CASE m.breadth = "none"   -> "neutral"
    [] m.breadth = "narrow" -> "weak"
    [] m.breadth = "middle" -> "neutral"
    [] m.breadth = "wide"   -> "strong"

\* Daniel and Moskowitz: a decline before the rebound window, a rebound in it.
CrashSignature(m) == m.decline = "deep" /\ m.rebound = "sharp"

\* The bucket is a pair of readings.
BucketName(trend, vol) == <<trend, vol>>

ResolveBucket(m, crashEnabled) ==
  IF crashEnabled /\ VolRead(m) = "highvol" /\ CrashBucket \in MultiplierRows /\ CrashSignature(m)
  THEN CrashBucket
  ELSE BucketName(TrendRead(m), VolRead(m))

\* Components whose state differs from the one read before the lookback. A
\* calendar that does not reach that far back calls no transition.
DetectTransition(now, before) ==
  /\ before.known
  /\ MinDisagreeing <= Cardinality({c \in {"trend", "volatility", "breadth"} :
       \/ c = "trend" /\ TrendRead(now) # TrendRead(before)
       \/ c = "volatility" /\ VolRead(now) # VolRead(before)
       \/ c = "breadth" /\ BreadthRead(now) # BreadthRead(before)})

\* The stage raises without benchmark history and without a row for the bucket.
RegimeFails(m, crashEnabled) ==
  \/ ~m.benchmark
  \/ ResolveBucket(m, crashEnabled) \notin MultiplierRows

RegimeState(now, before, crashEnabled) ==
  LET bucket == ResolveBucket(now, crashEnabled)
  IN  [bucket |-> bucket,
       trend |-> TrendRead(now),
       extremeVol |-> now.vix = "extreme",
       transition |-> DetectTransition(now, before),
       allow |-> bucket \notin NoEntryBuckets]
=============================================================================
