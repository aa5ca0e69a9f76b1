------------------------------ MODULE Throttle ------------------------------
(***************************************************************************)
(* internal/throttle: the decision loop of the adaptive throttle (AIMD).   *)
(* One goroutine owns every variable below but delay and batch, which the  *)
(* workers read; its select picks, in any order, a metric a worker sent, a *)
(* decay tick or a decision tick.                                          *)
(*                                                                         *)
(* Sending a metric never blocks and drops it when the buffer is full, so  *)
(* a worker's RecordRequest is a metric that arrives later or never: any   *)
(* sequence of metrics.  Durations are integers in one unit, fractions are *)
(* truncated as int64(float64) does.  Elapsed time is counted in decision  *)
(* ticks.  Counters that are only compared with a threshold stop there.    *)
(***************************************************************************)
EXTENDS Integers

CONSTANTS
  \* throttle.Config, but for what the user sets
  MinDelay, MaxDelay, MinBatchSize,
  AlphaTenths,        \* 10 * Alpha
  IncreaseStep, CooldownTicks, WarmupSkip, CalibrationN,
  Recalibrate,        \* RecalibrationInterval > 0
  \* literals of the loop
  StableCycles,       \* 5: stable ticks before a recovery
  MinSuccesses,       \* 10: consecutive successes a stable tick needs
  HighPercent,        \* 10: the error rate that backs off
  LowPercent,         \* 5: the error rate that ends a cooldown
  ErrorUnit,          \* 1000: what one request adds to a decayed counter
  \* environment
  Settings,           \* the user's: cfg.RequestDelay and cfg.BatchSize, given to New
  Latencies,          \* latencies a request can have
  HealthyLatency,     \* ... when the API is well
  MaxRequests         \* bound on the decayed request counter

ASSUME ConfigAssumption ==
  /\ {MinDelay, MaxDelay, MinBatchSize, IncreaseStep, CooldownTicks, WarmupSkip, CalibrationN,
      StableCycles, MinSuccesses, HighPercent, LowPercent, ErrorUnit, HealthyLatency,
      MaxRequests} \subseteq Nat
  /\ AlphaTenths \in 0..10
  /\ Recalibrate \in BOOLEAN
  /\ StableCycles # 0
  /\ Latencies \subseteq Nat \ {0}

\* 50 ms and 5 s in DefaultConfig.
ASSUME DefaultsAssumption == MinDelay <= MaxDelay

\* All that Validate asks of the two: no relation to the throttle's own bounds.
ASSUME SettingsAssumption == Settings \subseteq [delay : Nat, batch : Nat \ {0}]

\* There is a largest latency.
ASSUME LatenciesAssumption == \E l \in Latencies : \A k \in Latencies : k <= l

VARIABLES
  requestDelay, maxBatchSize,   \* the settings of this run
  delay, batch,         \* Params.Delay and Params.BatchSize
  state,
  ewma, reqs, errs,     \* ewmaLatencyNs, decayReqsX1k, decayErrsX1k
  consec, reqCount,     \* consecSuccess and reqCount, up to their thresholds
  baseline, calibMin, stable,
  cooldown,             \* decision ticks until cooldownUntil
  api,                  \* environment: "sick", then "healthy" for good
  calm,                 \* history: decision ticks since the last back-off, if any
  firstBaseline         \* history: the baseline calibration found

settings == <<requestDelay, maxBatchSize>>
params == <<delay, batch>>
estimates == <<ewma, reqs, errs, consec, reqCount>>
history == <<calm, firstBaseline>>
vars == <<requestDelay, maxBatchSize, delay, batch, state, ewma, reqs, errs, consec, reqCount, baseline,
          calibMin, stable, cooldown, api, calm, firstBaseline>>

Larger(a, b) == IF a > b THEN a ELSE b
Smaller(a, b) == IF a < b THEN a ELSE b

\* math.MaxInt64, the value no measured latency reaches.
Unmeasured == 1 + CHOOSE l \in Latencies : \A k \in Latencies : k <= l

CalmCap == CooldownTicks + StableCycles

-----------------------------------------------------------------------------
\* errorRate > 0.10, < 0.05, == 0, with the rate 0 when nothing was counted.
ErrorRateHigh == reqs > 0 /\ 100 * errs > HighPercent * reqs
ErrorRateLow == reqs = 0 \/ 100 * errs < LowPercent * reqs
ErrorRateZero == reqs = 0 \/ errs = 0

EffectiveMaxDelay(b) == Larger(MaxDelay, 3 * b)

\* Mutant: the ceiling is applied before the multiplication.
BackoffUncapped(d, factor, b) == Smaller(d, EffectiveMaxDelay(b)) * factor

BackoffDelay(d, factor, b) == Smaller(d * factor, EffectiveMaxDelay(b))

BackoffBatch(n) ==
  Larger(IF n < 10 THEN n - 1 ELSE (n * 7) \div 10, MinBatchSize)

\* Mutant: the batch grows when it should shrink.
ApplyBackoffWrongWay(factor, reduceBatch, b) ==
  /\ delay' = BackoffDelay(delay, factor, b)
  /\ batch' = IF reduceBatch THEN BackoffBatch(batch) ELSE Smaller(batch + 1, maxBatchSize)
  /\ cooldown' = CooldownTicks
  /\ calm' = 0
  /\ state' = "cooldown"

\* applyBackoff, and the state its callers set.
ApplyBackoff(factor, reduceBatch, b) ==
  /\ delay' = BackoffDelay(delay, factor, b)
  /\ batch' = IF reduceBatch THEN BackoffBatch(batch) ELSE batch
  /\ cooldown' = CooldownTicks
  /\ calm' = 0
  /\ state' = "cooldown"

KeepParams == UNCHANGED <<delay, batch, cooldown, calm>>

Init ==
  /\ \E s \in Settings : requestDelay = s.delay /\ maxBatchSize = s.batch
  /\ delay = requestDelay /\ batch = maxBatchSize
  /\ state = "warmup"
  /\ ewma = 0 /\ reqs = 0 /\ errs = 0 /\ consec = 0 /\ reqCount = 0
  /\ baseline = 0 /\ calibMin = Unmeasured /\ stable = 0 /\ cooldown = 0
  /\ api = "sick" /\ calm = CalmCap /\ firstBaseline = 0

-----------------------------------------------------------------------------
(* case m := <-c.metricsCh *)

Codes == {"2xx", "429", "5xx", "none"}   \* "none": statusCode 0, and 3xx and 4xx

Average(l) == IF ewma = 0 THEN l ELSE (AlphaTenths * l + (10 - AlphaTenths) * ewma) \div 10

CountRequest(l, code) ==
  /\ reqs' = reqs + ErrorUnit
  /\ errs' = IF code = "2xx" THEN errs ELSE errs + ErrorUnit
  /\ consec' = IF code = "2xx" THEN Smaller(consec + 1, MinSuccesses) ELSE 0

\* The tail of the case: 429 and 5xx back off at once when the loop is active.
\* An active loop is one that was, or that this metric has just made so.
BackoffOnStatus(code, active, b) ==
  IF active /\ code = "429" THEN ApplyBackoff(3, FALSE, b)
  ELSE IF active /\ code = "5xx" THEN ApplyBackoff(2, FALSE, b)
  ELSE KeepParams /\ state' = IF active /\ state = "calibrating" THEN "normal" ELSE state

\* Warmup: the metric that completes it restarts the average and the count.
WarmupMetric(l, code) ==
  /\ state = "warmup"
  /\ CountRequest(l, code)
  /\ IF reqCount + 1 >= WarmupSkip
     THEN ewma' = l /\ reqCount' = 0 /\ state' = "calibrating"
     ELSE ewma' = Average(l) /\ reqCount' = reqCount + 1 /\ UNCHANGED state
  /\ KeepParams
  /\ UNCHANGED <<baseline, calibMin, stable, api, firstBaseline>>

\* Calibration: the lowest average becomes the baseline, plus ten percent.
CalibrationMetric(l, code) ==
  /\ state = "calibrating"
  /\ CountRequest(l, code)
  /\ ewma' = Average(l)
  /\ calibMin' = Smaller(ewma', calibMin)
  /\ LET complete == reqCount + 1 >= CalibrationN
     IN  /\ reqCount' = IF complete THEN 0 ELSE reqCount + 1
         /\ baseline' = IF complete THEN (calibMin' * 11) \div 10 ELSE baseline
         /\ firstBaseline' = baseline'
         /\ BackoffOnStatus(code, complete, baseline')
  /\ UNCHANGED <<stable, api>>

ActiveMetric(l, code) ==
  /\ state \in {"normal", "cooldown"}
  /\ CountRequest(l, code)
  /\ ewma' = Average(l)
  /\ BackoffOnStatus(code, TRUE, baseline)
  /\ UNCHANGED <<reqCount, baseline, calibMin, stable, api, firstBaseline>>

Metric ==
  /\ reqs + ErrorUnit <= MaxRequests
  /\ \E l \in Latencies, code \in Codes :
       /\ api = "healthy" => l = HealthyLatency /\ code = "2xx"
       /\ WarmupMetric(l, code) \/ CalibrationMetric(l, code) \/ ActiveMetric(l, code)

-----------------------------------------------------------------------------
(* case <-decayTicker.C *)

\* Mutant: the error counter does not decay.
DecayRequestsOnly ==
  /\ reqs' = (reqs * 8) \div 10
  /\ UNCHANGED <<params, state, ewma, errs, consec, reqCount, baseline, calibMin, stable,
                 cooldown, api, history>>

Decay ==
  /\ reqs' = (reqs * 8) \div 10
  /\ errs' = (errs * 8) \div 10
  /\ UNCHANGED <<params, state, ewma, consec, reqCount, baseline, calibMin, stable,
                 cooldown, api, history>>

-----------------------------------------------------------------------------
(* case <-ticker.C *)

Elapse == calm' = Smaller(calm + 1, CalmCap)

\* Warmup and calibration: the tick does nothing.
IdleTick ==
  /\ state \in {"warmup", "calibrating"}
  /\ Elapse
  /\ UNCHANGED <<params, state, estimates, baseline, calibMin, stable, cooldown, api,
                 firstBaseline>>

\* Mutant: the stable cycles of before the back-off are still counted.
LeaveCooldownKeepingCycles == state' = "normal" /\ cooldown' = 0 /\ UNCHANGED stable

LeaveCooldown == state' = "normal" /\ cooldown' = 0 /\ stable' = 0

\* Both conditions of the recovery validation.
Recovered == ewma < (baseline * 15) \div 10 /\ ErrorRateLow

\* The tick nearest to the end of the cooldown may come just before or after it.
\* A cooldown whose end meets a bad average or error rate starts again.
CooldownTick ==
  /\ state = "cooldown"
  /\ Elapse
  /\ \/ cooldown > 0 /\ cooldown' = cooldown - 1 /\ UNCHANGED <<state, stable>>
     \/ cooldown <= 1 /\ Recovered /\ LeaveCooldown
     \/ cooldown <= 1 /\ ~Recovered /\ cooldown' = CooldownTicks /\ UNCHANGED <<state, stable>>
  /\ UNCHANGED <<params, estimates, baseline, calibMin, api, firstBaseline>>

\* A latency spike, or an error rate above ten percent.
BackoffTick ==
  /\ state = "normal"
  /\ \/ ewma > 2 * baseline /\ ApplyBackoff(2, FALSE, baseline)
     \/ ewma <= 2 * baseline /\ ErrorRateHigh /\ ApplyBackoff(2, TRUE, baseline)
  /\ stable' = 0
  /\ UNCHANGED <<estimates, baseline, calibMin, api, firstBaseline>>

StableNow == ewma < (baseline * 12) \div 10 /\ ErrorRateZero /\ consec >= MinSuccesses

RecoveryDue == StableNow /\ stable + 1 >= StableCycles

\* Mutant: only the delay recovers.
RecoverDelayOnly ==
  /\ delay' = Larger(delay - Larger(IncreaseStep, baseline \div 10), MinDelay)
  /\ UNCHANGED batch

Recover ==
  /\ delay' = Larger(delay - Larger(IncreaseStep, baseline \div 10), MinDelay)
  /\ batch' = Smaller(batch + 1, maxBatchSize)

\* 0.9 * baseline + 0.1 * (ewma * 1.1), only ever lower.
Recalibrated == Smaller((90 * baseline + 11 * ewma) \div 100, baseline)

NormalTick ==
  /\ state = "normal"
  /\ ewma <= 2 * baseline /\ ~ErrorRateHigh
  /\ Elapse
  /\ stable' = IF StableNow /\ ~RecoveryDue THEN stable + 1 ELSE 0
  /\ IF RecoveryDue THEN Recover ELSE UNCHANGED params
  /\ \/ UNCHANGED baseline
     \/ Recalibrate /\ ErrorRateLow /\ ewma > 0 /\ baseline' = Recalibrated
  /\ UNCHANGED <<state, estimates, calibMin, cooldown, api, firstBaseline>>

Tick == IdleTick \/ CooldownTick \/ BackoffTick \/ NormalTick

-----------------------------------------------------------------------------
\* The API gets well and stays well.
Heal ==
  /\ api = "sick"
  /\ api' = "healthy"
  /\ UNCHANGED <<params, state, estimates, baseline, calibMin, stable, cooldown, history>>

Next == (Metric \/ Decay \/ Tick \/ Heal) /\ UNCHANGED settings

Spec == Init /\ [][Next]_vars

\* The two tickers keep firing, and workers keep requesting as long as there is
\* work, so metrics keep coming (a full buffer drops some, never all).
FairSpec ==
  /\ Spec
  /\ WF_vars(Metric /\ UNCHANGED settings)
  /\ WF_vars(Decay /\ UNCHANGED settings)
  /\ WF_vars(Tick /\ UNCHANGED settings)

-----------------------------------------------------------------------------
(* Properties *)

\* The decayed counters are fed and decayed by different cases of the select,
\* and there are never more errors than requests: errorRate is a rate.
TypeOK ==
  /\ requestDelay \in Nat /\ maxBatchSize \in Nat \ {0}
  /\ delay \in Nat /\ batch \in Int
  /\ state \in {"warmup", "calibrating", "normal", "cooldown"}
  /\ ewma \in Nat /\ reqs \in 0..MaxRequests /\ errs \in 0..reqs
  /\ consec \in 0..MinSuccesses
  /\ reqCount \in Nat
  /\ baseline \in Nat /\ firstBaseline \in Nat /\ calibMin \in Nat
  /\ stable \in Nat /\ cooldown \in 0..CooldownTicks /\ calm \in 0..CalmCap
  /\ api \in {"sick", "healthy"}

\* throttle/config.go:22-25, loop.go:306: whatever happens, the delay stays between
\* its floor and the ceiling of the calibrated baseline (recalibration only lowers
\* the ceiling), and the batch between the "smallest batch allowed" and the
\* "original cfg.BatchSize".  Two settings are outside from the start, and nothing
\* checks them: a delay below the floor or above every ceiling, beyond which it
\* never gets then, and a batch size below the smallest allowed, where the batch
\* has one size or the other and none between or beyond.
ParamsInRange ==
  /\ delay >= Smaller(MinDelay, requestDelay)
  /\ delay <= Larger(EffectiveMaxDelay(firstBaseline), requestDelay)
  /\ batch \in (MinBatchSize..maxBatchSize) \cup {MinBatchSize, maxBatchSize}

\* After a back-off, whatever interleaving of metrics and ticks caused it, the
\* client is sped up again only when a whole cooldown and a whole series of
\* stable ticks have passed: no tick from before the back-off is credited.
SlowToSpeedUp ==
  [][calm' # 0 /\ (delay' < delay \/ batch' > batch) => calm' = CalmCap]_vars

\* loop.go:273, "multiplicative increase": a back-off (only it resets calm) never
\* makes the client faster, whatever the settings, with two exceptions.  The
\* ceiling it respects is that of the current baseline: a delay that is above it,
\* because a recalibration lowered it or because it was set so, falls back to it.
\* And a batch below the smallest allowed is raised to that (loop.go:289).
BackoffSlowsDown ==
  [][calm' = 0 =>
       /\ batch' <= batch \/ (batch < MinBatchSize /\ batch' = MinBatchSize)
       /\ IF delay <= EffectiveMaxDelay(baseline') THEN delay' >= delay
          ELSE delay' = EffectiveMaxDelay(baseline')]_vars

\* Once the API is well, the throttle finds its way back to full speed, whatever
\* the settings were.
FullSpeedAgain == api = "healthy" ~> (delay = MinDelay /\ batch = maxBatchSize)

=============================================================================
