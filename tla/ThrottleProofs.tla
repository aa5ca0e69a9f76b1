--------------------------- MODULE ThrottleProofs ---------------------------
(***************************************************************************)
(* Proofs about Throttle, for every configuration, all settings that       *)
(* Validate accepts and every latency: the types, the range of the two     *)
(* parameters, and which steps may make the client slower or faster.       *)
(***************************************************************************)
EXTENDS Throttle, TLAPS

USE ConfigAssumption

-----------------------------------------------------------------------------
(* The helpers. *)

\* The moving average of natural numbers is one.
LEMMA AverageType ==
  ASSUME NEW l \in Nat, ewma \in Nat
  PROVE  Average(l) \in Nat
<1>1. AlphaTenths * l \in Nat
  OBVIOUS
<1>2. (10 - AlphaTenths) * ewma \in Nat
  <2>1. 10 - AlphaTenths \in Nat
    OBVIOUS
  <2> QED BY <2>1
<1>3. \A x \in Nat : x \div 10 \in Nat
  OBVIOUS
<1> QED BY <1>1, <1>2, <1>3 DEF Average

\* There is a largest latency.
LEMMA UnmeasuredType == Unmeasured \in Nat
<1> DEFINE Largest(l) == l \in Latencies /\ \A k \in Latencies : k <= l
<1>1. \E l : Largest(l)
  BY LatenciesAssumption, Zenon
<1>2. Largest(CHOOSE l : Largest(l))
  BY <1>1, Zenon
<1>3. (CHOOSE l : Largest(l)) = CHOOSE l \in Latencies : \A k \in Latencies : k <= l
  BY Zenon
<1> DEFINE longest == CHOOSE l \in Latencies : \A k \in Latencies : k <= l
<1>4. longest \in Latencies
  BY <1>2, <1>3, Zenon
<1>5. Unmeasured = 1 + longest
  BY Zenon DEF Unmeasured
<1> HIDE DEF longest
<1>6. Latencies \subseteq Nat
  OBVIOUS
<1>7. longest \in Nat
  BY <1>4, <1>6, Zenon
<1> QED BY <1>5, <1>7, SMT

\* Multiplying by two or three and respecting the ceiling never lowers a delay
\* that respects the ceiling, and always ends at or below it.
LEMMA BackoffDelayRange ==
  ASSUME NEW d \in Nat, NEW factor \in {2, 3}, NEW b \in Nat
  PROVE  /\ BackoffDelay(d, factor, b) \in Nat
         /\ EffectiveMaxDelay(b) \in Nat
         /\ BackoffDelay(d, factor, b) <= EffectiveMaxDelay(b)
         /\ IF d <= EffectiveMaxDelay(b) THEN BackoffDelay(d, factor, b) >= d
            ELSE BackoffDelay(d, factor, b) = EffectiveMaxDelay(b)
BY DEF BackoffDelay, EffectiveMaxDelay, Smaller, Larger

\* Shrinking a batch never enlarges it and stops at the floor; one below the floor
\* is raised to it.
LEMMA BackoffBatchRange ==
  ASSUME NEW n \in Nat
  PROVE  IF n < MinBatchSize THEN BackoffBatch(n) = MinBatchSize
         ELSE BackoffBatch(n) \in MinBatchSize..n
BY DEF BackoffBatch, Larger

\* A run has the settings it began with.
LEMMA SettingsStay == [Next]_vars => requestDelay' = requestDelay /\ maxBatchSize' = maxBatchSize
BY DEF Next, settings, vars

-----------------------------------------------------------------------------
(* Types. *)

\* Every step keeps the types.
LEMMA TypeOKStep ==
  ASSUME TypeOK, [Next]_vars
  PROVE  TypeOK'
<1> USE DEF TypeOK
<1> USE SettingsStay
<1>0. CalmCap \in Nat /\ CalmCap # 0
  BY DEF CalmCap
<1>1. ASSUME NEW l \in Latencies, NEW code \in Codes, reqs + ErrorUnit <= MaxRequests,
             CountRequest(l, code)
      PROVE  /\ reqs' \in 0..MaxRequests /\ errs' \in 0..reqs'
             /\ consec' \in 0..MinSuccesses /\ Average(l) \in Nat /\ l \in Nat
  <2>1. l \in Nat /\ Average(l) \in Nat
    BY AverageType
  <2>2. reqs' \in 0..MaxRequests /\ errs' \in 0..reqs'
    BY <1>1 DEF CountRequest
  <2>3. consec' \in 0..MinSuccesses
    BY <1>1 DEF CountRequest, Smaller
  <2> QED BY <2>1, <2>2, <2>3
<1>2. ASSUME NEW code \in Codes, NEW active \in BOOLEAN, baseline' \in Nat,
             BackoffOnStatus(code, active, baseline')
      PROVE  /\ delay' \in Nat /\ batch' \in Int
             /\ state' \in {state, "normal", "cooldown"}
             /\ cooldown' \in 0..CooldownTicks /\ calm' \in 0..CalmCap
  <2>1. ASSUME NEW factor \in {2, 3}, ApplyBackoff(factor, FALSE, baseline')
        PROVE  /\ delay' \in Nat /\ batch' = batch /\ state' = "cooldown"
               /\ cooldown' \in 0..CooldownTicks /\ calm' \in 0..CalmCap
    <3>1. delay' \in Nat
      BY <2>1, <1>2, BackoffDelayRange DEF ApplyBackoff
    <3> QED BY <2>1, <3>1, <1>0 DEF ApplyBackoff
  <2>2. CASE ApplyBackoff(3, FALSE, baseline')
    BY <2>1, <2>2
  <2>3. CASE ApplyBackoff(2, FALSE, baseline')
    BY <2>1, <2>3
  <2>4. CASE KeepParams /\ state' \in {state, "normal"}
    BY <2>4 DEF KeepParams
  <2> QED BY <1>2, <2>2, <2>3, <2>4 DEF BackoffOnStatus
<1>3. CASE Metric
  <2>1. PICK l \in Latencies, code \in Codes :
          /\ reqs + ErrorUnit <= MaxRequests
          /\ WarmupMetric(l, code) \/ CalibrationMetric(l, code) \/ ActiveMetric(l, code)
    BY <1>3 DEF Metric
  <2>2. CASE WarmupMetric(l, code)
    <3>1. ewma' \in Nat /\ reqCount' \in Nat /\ state' \in {"warmup", "calibrating"}
      <4>1. Average(l) \in Nat /\ l \in Nat
        BY <2>1, <2>2, <1>1 DEF WarmupMetric
      <4>2. CASE reqCount + 1 >= WarmupSkip
        BY <2>2, <4>1, <4>2 DEF WarmupMetric
      <4>3. CASE ~(reqCount + 1 >= WarmupSkip)
        BY <2>2, <4>1, <4>3 DEF WarmupMetric
      <4> QED BY <4>2, <4>3
    <3>2. CountRequest(l, code)
          /\ UNCHANGED <<delay, batch, cooldown, calm, baseline, calibMin, stable, api, firstBaseline>>
      BY <2>2 DEF WarmupMetric, KeepParams
    <3> QED BY <2>1, <3>1, <3>2, <1>1
  <2>3. CASE CalibrationMetric(l, code)
    <3>1. calibMin' \in Nat /\ ewma' \in Nat
      BY <2>1, <2>3, <1>1 DEF CalibrationMetric, Smaller
    <3>2. baseline' \in Nat /\ reqCount' \in Nat
      BY <2>3, <3>1 DEF CalibrationMetric
    <3>3. \E active \in BOOLEAN : BackoffOnStatus(code, active, baseline')
      <4>1. BackoffOnStatus(code, reqCount + 1 >= CalibrationN, baseline')
        BY <2>3 DEF CalibrationMetric
      <4>2. (reqCount + 1 >= CalibrationN) \in BOOLEAN
        OBVIOUS
      <4> QED BY <4>1, <4>2, Zenon
    <3> QED BY <2>1, <2>3, <3>1, <3>2, <3>3, <1>1, <1>2 DEF CalibrationMetric
  <2>4. CASE ActiveMetric(l, code)
    <3>1. BackoffOnStatus(code, TRUE, baseline') /\ baseline' = baseline
      BY <2>4 DEF ActiveMetric
    <3> QED BY <2>1, <2>4, <3>1, <1>1, <1>2 DEF ActiveMetric
  <2> QED BY <2>1, <2>2, <2>3, <2>4
<1>4. CASE Decay
  BY <1>4 DEF Decay, params, history
<1>5. CASE IdleTick \/ CooldownTick
  BY <1>0, <1>5 DEF IdleTick, CooldownTick, LeaveCooldown, Elapse, Smaller, params, estimates
<1>6. CASE BackoffTick
  <2>1. PICK reduce \in BOOLEAN : ApplyBackoff(2, reduce, baseline)
    BY <1>6 DEF BackoffTick
  <2>2. delay' \in Nat
    BY <2>1, BackoffDelayRange DEF ApplyBackoff
  <2>3. batch' \in Int
    BY <2>1 DEF ApplyBackoff, BackoffBatch, Larger
  <2> QED BY <1>0, <1>6, <2>1, <2>2, <2>3 DEF BackoffTick, ApplyBackoff, estimates
<1>7. CASE NormalTick
  <2>1. delay' \in Nat /\ batch' \in Int
    BY <1>7 DEF NormalTick, Recover, params, Smaller, Larger
  <2>2. baseline' \in Nat
    BY <1>7 DEF NormalTick, Recalibrated, Smaller
  <2> QED BY <1>0, <1>7, <2>1, <2>2 DEF NormalTick, Elapse, Smaller, estimates
<1>8. CASE Heal
  BY <1>8 DEF Heal, params, estimates, history
<1>9. CASE UNCHANGED vars
  BY <1>9 DEF vars
<1> QED BY <1>3, <1>4, <1>5, <1>6, <1>7, <1>8, <1>9 DEF Next, Tick

LEMMA TypeOKInit == Init => TypeOK
BY UnmeasuredType, SettingsAssumption DEF Init, TypeOK, CalmCap

\* The counters of requests and errors keep being a rate, the estimates and the
\* parameters keep being numbers: throttle/loop.go:60-260.
THEOREM TypesAlways == Spec => []TypeOK
<1> QED BY TypeOKInit, TypeOKStep, PTL DEF Spec

-----------------------------------------------------------------------------
(* What a step can do to the parameters. *)

\* The first calibration settles the highest ceiling there will ever be, and
\* before it there is no baseline at all.
Calibrated ==
  /\ baseline <= firstBaseline
  /\ state \in {"warmup", "calibrating"} => firstBaseline = 0

\* The ticks since the last back-off vouch for the cooldown that has passed and
\* for the stable ticks that are credited.
Calm ==
  /\ stable < StableCycles
  /\ state \in {"warmup", "calibrating"} => stable = 0 /\ calm = CalmCap
  /\ state = "normal" => calm >= 1 /\ calm >= CooldownTicks + stable
  /\ state = "cooldown" => /\ calm + cooldown >= CooldownTicks
                           /\ delay <= EffectiveMaxDelay(baseline)

TInv == TypeOK /\ Calibrated /\ Calm

\* A back-off changes the parameters as applyBackoff says; any other step
\* leaves them alone or is a recovery.
LEMMA StepShape ==
  ASSUME TInv, [Next]_vars
  PROVE  \/ /\ \E factor \in {2, 3}, reduce \in BOOLEAN :
                 ApplyBackoff(factor, reduce, baseline')
            /\ state \in {"normal", "cooldown"} \/ baseline' = firstBaseline'
         \/ state = "normal" /\ NormalTick /\ RecoveryDue /\ Recover
         \/ UNCHANGED <<delay, batch>> /\ (calm' = calm \/ Elapse)
<1> USE DEF TInv
<1>1. ASSUME NEW code \in Codes, NEW active \in BOOLEAN,
             BackoffOnStatus(code, active, baseline')
      PROVE  \/ \E factor \in {2, 3}, reduce \in BOOLEAN :
                  ApplyBackoff(factor, reduce, baseline')
             \/ KeepParams
  BY <1>1, Zenon DEF BackoffOnStatus
<1>2. CASE Metric
  <2>1. PICK l \in Latencies, code \in Codes :
          WarmupMetric(l, code) \/ CalibrationMetric(l, code) \/ ActiveMetric(l, code)
    BY <1>2 DEF Metric
  <2>2. CASE WarmupMetric(l, code)
    BY <2>2 DEF WarmupMetric, KeepParams
  <2>3. CASE CalibrationMetric(l, code)
    <3>1. BackoffOnStatus(code, reqCount + 1 >= CalibrationN, baseline')
          /\ baseline' = firstBaseline'
      BY <2>3 DEF CalibrationMetric
    <3>2. (reqCount + 1 >= CalibrationN) \in BOOLEAN
      BY DEF TypeOK
    <3> QED BY <3>1, <3>2, <1>1, Zenon DEF KeepParams
  <2>4. CASE ActiveMetric(l, code)
    <3>1. BackoffOnStatus(code, TRUE, baseline') /\ state \in {"normal", "cooldown"}
      BY <2>4 DEF ActiveMetric
    <3> QED BY <3>1, <1>1, Zenon DEF KeepParams
  <2> QED BY <2>1, <2>2, <2>3, <2>4
<1>3. CASE Decay \/ Heal \/ UNCHANGED vars
  BY <1>3 DEF Decay, Heal, vars, params, history
<1>4. CASE IdleTick \/ CooldownTick
  BY <1>4 DEF IdleTick, CooldownTick, params
<1>5. CASE BackoffTick
  <2>1. (ApplyBackoff(2, FALSE, baseline') \/ ApplyBackoff(2, TRUE, baseline'))
        /\ state = "normal"
    BY <1>5 DEF BackoffTick
  <2> QED BY <2>1, Zenon
<1>6. CASE NormalTick
  BY <1>6 DEF NormalTick, params
<1> QED BY <1>2, <1>3, <1>4, <1>5, <1>6 DEF Next, Tick

LEMMA TInvInit == Init => TInv
BY TypeOKInit DEF Init, TInv, TypeOK, Calibrated, Calm, CalmCap

\* Only calibration raises a baseline, and it raises both.
LEMMA CalibratedStep ==
  ASSUME TInv, [Next]_vars
  PROVE  Calibrated'
<1> USE DEF TInv, TypeOK, Calibrated
<1>1. CASE Metric
  <2>1. PICK l \in Latencies, code \in Codes :
          WarmupMetric(l, code) \/ CalibrationMetric(l, code) \/ ActiveMetric(l, code)
    BY <1>1 DEF Metric
  <2>2. CASE WarmupMetric(l, code)
    BY <2>2 DEF WarmupMetric
  <2>3. CASE CalibrationMetric(l, code)
    <3>1. CASE reqCount + 1 >= CalibrationN
      <4>1. BackoffOnStatus(code, TRUE, baseline') /\ baseline' = firstBaseline'
            /\ state = "calibrating"
        BY <2>3, <3>1 DEF CalibrationMetric
      <4>2. state' \in {"normal", "cooldown"}
        BY <4>1 DEF BackoffOnStatus, ApplyBackoff
      <4>3. baseline' \in Nat
        BY TypeOKStep
      <4> QED BY <4>1, <4>2, <4>3
    <3>2. CASE ~(reqCount + 1 >= CalibrationN)
      BY <2>3, <3>2 DEF CalibrationMetric
    <3> QED BY <3>1, <3>2
  <2>4. CASE ActiveMetric(l, code)
    <3>1. BackoffOnStatus(code, TRUE, baseline') /\ state \in {"normal", "cooldown"}
          /\ UNCHANGED <<baseline, firstBaseline>>
      BY <2>4 DEF ActiveMetric
    <3>2. state' \in {"normal", "cooldown"}
      BY <3>1 DEF BackoffOnStatus, ApplyBackoff
    <3> QED BY <3>1, <3>2
  <2> QED BY <2>1, <2>2, <2>3, <2>4
<1>2. CASE Decay \/ Heal \/ UNCHANGED vars
  BY <1>2 DEF Decay, Heal, vars, history
<1>3. CASE IdleTick \/ CooldownTick \/ BackoffTick
  BY <1>3 DEF IdleTick, CooldownTick, BackoffTick, LeaveCooldown, ApplyBackoff
<1>4. CASE NormalTick
  BY <1>4 DEF NormalTick, Recalibrated, Smaller
<1> QED BY <1>1, <1>2, <1>3, <1>4 DEF Next, Tick

\* A back-off starts the count of calm ticks again, whatever came before it.
LEMMA BackedOffIsCalm ==
  ASSUME TInv, [Next]_vars, NEW factor \in {2, 3}, NEW reduce \in BOOLEAN,
         ApplyBackoff(factor, reduce, baseline'), stable' < StableCycles
  PROVE  Calm'
<1>1. delay \in Nat /\ baseline' \in Nat
  BY TypeOKStep DEF TInv, TypeOK
<1>2. delay' <= EffectiveMaxDelay(baseline')
  BY <1>1, BackoffDelayRange DEF ApplyBackoff
<1>3. EffectiveMaxDelay(baseline)' = EffectiveMaxDelay(baseline')
  BY DEF EffectiveMaxDelay, Larger
<1> QED BY <1>2, <1>3 DEF ApplyBackoff, Calm

LEMMA CalmStep ==
  ASSUME TInv, [Next]_vars
  PROVE  Calm'
<1> USE DEF TInv, TypeOK, CalmCap
<1>1. EffectiveMaxDelay(baseline)' = EffectiveMaxDelay(baseline')
  BY DEF EffectiveMaxDelay, Larger
<1>2. ASSUME UNCHANGED <<delay, baseline, stable, cooldown, calm>>,
             \/ state' = state
             \/ state \in {"warmup", "calibrating"} /\ state' \in {"calibrating", "normal"}
      PROVE  Calm'
  BY <1>1, <1>2 DEF Calm
<1>3. CASE Metric
  <2>1. PICK l \in Latencies, code \in Codes :
          WarmupMetric(l, code) \/ CalibrationMetric(l, code) \/ ActiveMetric(l, code)
    BY <1>3 DEF Metric
  <2>2. CASE WarmupMetric(l, code)
    BY <2>2, <1>2 DEF WarmupMetric, KeepParams
  <2>3. ASSUME NEW active \in BOOLEAN, BackoffOnStatus(code, active, baseline'),
               stable' = stable, state # "warmup",
               UNCHANGED baseline \/ state = "calibrating"
        PROVE  Calm'
    <3>1. CASE \E factor \in {2, 3} : ApplyBackoff(factor, FALSE, baseline')
      BY <2>3, <3>1, BackedOffIsCalm DEF Calm
    <3>2. CASE KeepParams /\ (state' = state \/ (state = "calibrating" /\ state' = "normal"))
      BY <2>3, <3>2, <1>1 DEF KeepParams, Calm
    <3> QED BY <2>3, <3>1, <3>2 DEF BackoffOnStatus
  <2>4. CASE CalibrationMetric(l, code)
    <3>1. BackoffOnStatus(code, reqCount + 1 >= CalibrationN, baseline')
          /\ stable' = stable /\ state = "calibrating"
      BY <2>4 DEF CalibrationMetric
    <3>2. (reqCount + 1 >= CalibrationN) \in BOOLEAN
      OBVIOUS
    <3> QED BY <3>1, <3>2, <2>3, Zenon
  <2>5. CASE ActiveMetric(l, code)
    <3>1. BackoffOnStatus(code, TRUE, baseline') /\ UNCHANGED <<stable, baseline>>
          /\ state # "warmup"
      BY <2>5 DEF ActiveMetric
    <3> QED BY <3>1, <2>3, Zenon
  <2> QED BY <2>1, <2>2, <2>4, <2>5
<1>4. CASE Decay \/ Heal \/ UNCHANGED vars
  BY <1>2, <1>4 DEF Decay, Heal, vars, params, history
<1>5. CASE IdleTick
  BY <1>1, <1>5 DEF IdleTick, params, Elapse, Smaller, Calm
<1>6. CASE CooldownTick
  <2>1. UNCHANGED <<delay, baseline>> /\ state = "cooldown" /\ Elapse
    BY <1>6 DEF CooldownTick, params
  <2>2. CASE cooldown > 0 /\ cooldown' = cooldown - 1 /\ UNCHANGED <<state, stable>>
    BY <2>1, <2>2, <1>1 DEF Elapse, Smaller, Calm
  <2>3. CASE cooldown <= 1 /\ LeaveCooldown
    BY <2>1, <2>3 DEF LeaveCooldown, Elapse, Smaller, Calm
  <2>4. CASE cooldown' = CooldownTicks /\ UNCHANGED <<state, stable>>
    BY <2>1, <2>4, <1>1 DEF Elapse, Smaller, Calm
  <2> QED BY <1>6, <2>2, <2>3, <2>4 DEF CooldownTick
<1>7. CASE BackoffTick
  <2>1. PICK reduce \in BOOLEAN : ApplyBackoff(2, reduce, baseline') /\ stable' = 0
    BY <1>7 DEF BackoffTick
  <2> QED BY <2>1, BackedOffIsCalm
<1>8. CASE NormalTick
  <2>1. state = "normal" /\ state' = "normal" /\ Elapse
    BY <1>8 DEF NormalTick
  <2>2. \/ stable' = 0
        \/ stable' = stable + 1 /\ stable + 1 < StableCycles
    BY <1>8 DEF NormalTick, RecoveryDue
  <2> QED BY <2>1, <2>2 DEF Elapse, Smaller, Calm
<1> QED BY <1>3, <1>4, <1>5, <1>6, <1>7, <1>8 DEF Next, Tick

LEMMA TInvAlways == Spec => []TInv
<1>1. ASSUME TInv, [Next]_vars PROVE TInv'
  BY <1>1, TypeOKStep, CalibratedStep, CalmStep DEF TInv
<1> QED BY TInvInit, <1>1, PTL DEF Spec

-----------------------------------------------------------------------------
(* The range of the parameters.                                               *)

InRange ==
  /\ Smaller(MinDelay, requestDelay) <= delay
  /\ delay <= Larger(EffectiveMaxDelay(firstBaseline), requestDelay)
  /\ batch \in Nat
  /\ batch \in (MinBatchSize..maxBatchSize) \cup {MinBatchSize, maxBatchSize}

\* A larger baseline has a larger ceiling.
LEMMA CeilingGrows ==
  ASSUME NEW a \in Nat, NEW b \in Nat, a <= b
  PROVE  /\ EffectiveMaxDelay(a) \in Nat /\ EffectiveMaxDelay(b) \in Nat
         /\ MaxDelay <= EffectiveMaxDelay(a)
         /\ EffectiveMaxDelay(a) <= EffectiveMaxDelay(b)
BY DEF EffectiveMaxDelay, Larger

LEMMA InRangeStep ==
  ASSUME TInv, InRange, [Next]_vars
  PROVE  InRange'
<1>1. /\ delay \in Nat /\ baseline' \in Nat /\ firstBaseline' \in Nat /\ batch \in Nat
      /\ firstBaseline \in Nat /\ requestDelay \in Nat /\ maxBatchSize \in Nat
      /\ requestDelay' = requestDelay /\ maxBatchSize' = maxBatchSize
      /\ baseline' <= firstBaseline'
  BY SettingsStay, TypeOKStep, CalibratedStep DEF TInv, TypeOK, InRange, Calibrated
<1>2. firstBaseline <= firstBaseline'
  <2>1. CASE Metric
    <3>1. PICK l \in Latencies, code \in Codes :
            WarmupMetric(l, code) \/ CalibrationMetric(l, code) \/ ActiveMetric(l, code)
      BY <2>1 DEF Metric
    <3>2. CASE WarmupMetric(l, code) \/ ActiveMetric(l, code)
      <4>1. firstBaseline' = firstBaseline
        BY <3>2 DEF WarmupMetric, ActiveMetric
      <4> QED BY <4>1, <1>1
    <3>3. CASE CalibrationMetric(l, code)
      BY <1>1, <3>3 DEF CalibrationMetric, TInv, Calibrated
    <3> QED BY <3>1, <3>2, <3>3
  <2>2. CASE Decay \/ Heal \/ Tick \/ UNCHANGED vars
    <3>1. firstBaseline' = firstBaseline
      BY <2>2 DEF Decay, Heal, Tick, IdleTick, CooldownTick, BackoffTick, NormalTick, vars,
                  history
    <3> QED BY <3>1, <1>1
  <2> QED BY <2>1, <2>2 DEF Next
<1>3. /\ EffectiveMaxDelay(firstBaseline)' = EffectiveMaxDelay(firstBaseline')
      /\ EffectiveMaxDelay(firstBaseline) <= EffectiveMaxDelay(firstBaseline')
      /\ EffectiveMaxDelay(baseline') <= EffectiveMaxDelay(firstBaseline')
      /\ MaxDelay <= EffectiveMaxDelay(baseline')
      /\ {EffectiveMaxDelay(firstBaseline), EffectiveMaxDelay(firstBaseline'),
          EffectiveMaxDelay(baseline')} \subseteq Nat
  <2>1. EffectiveMaxDelay(firstBaseline)' = EffectiveMaxDelay(firstBaseline')
    BY DEF EffectiveMaxDelay, Larger
  <2> QED BY <2>1, <1>1, <1>2, CeilingGrows
<1>4. ASSUME Smaller(MinDelay, requestDelay) <= delay',
             delay' <= Larger(EffectiveMaxDelay(firstBaseline'), requestDelay),
             batch' \in Nat,
             batch' \in (MinBatchSize..maxBatchSize) \cup {MinBatchSize, maxBatchSize}
      PROVE  InRange'
  <2>1. /\ Smaller(MinDelay, requestDelay)' = Smaller(MinDelay, requestDelay)
        /\ Larger(EffectiveMaxDelay(firstBaseline), requestDelay)'
             = Larger(EffectiveMaxDelay(firstBaseline'), requestDelay)
    BY <1>1 DEF Smaller, Larger, EffectiveMaxDelay
  <2> QED BY <1>1, <1>4, <2>1 DEF InRange
<1>5. CASE \E factor \in {2, 3}, reduce \in BOOLEAN : ApplyBackoff(factor, reduce, baseline')
  <2>1. PICK factor \in {2, 3}, reduce \in BOOLEAN : ApplyBackoff(factor, reduce, baseline')
    BY <1>5
  <2>2. delay' = BackoffDelay(delay, factor, baseline')
    BY <2>1 DEF ApplyBackoff
  <2>3. batch' \in MinBatchSize..batch \/ batch' = MinBatchSize \/ batch' = batch
    BY <2>1, <1>1, BackoffBatchRange DEF ApplyBackoff
  <2>4. batch' \in Nat
        /\ batch' \in (MinBatchSize..maxBatchSize) \cup {MinBatchSize, maxBatchSize}
    <3>1. batch \in (MinBatchSize..maxBatchSize) \cup {MinBatchSize, maxBatchSize}
      BY DEF InRange
    <3> QED BY <2>3, <3>1, <1>1
  <2>5. delay' \in Nat /\ delay' <= EffectiveMaxDelay(baseline')
        /\ Smaller(MinDelay, requestDelay) <= delay'
    <3>1. delay' \in Nat /\ delay' <= EffectiveMaxDelay(baseline')
          /\ (delay' >= delay \/ delay' = EffectiveMaxDelay(baseline'))
      BY <2>2, <1>1, BackoffDelayRange
    <3>2. Smaller(MinDelay, requestDelay) <= delay /\ Smaller(MinDelay, requestDelay) \in Nat
          /\ Smaller(MinDelay, requestDelay) <= MaxDelay
      BY <1>1, DefaultsAssumption DEF InRange, Smaller
    <3> QED BY <3>1, <3>2, <1>1, <1>3
  <2>6. delay' <= Larger(EffectiveMaxDelay(firstBaseline'), requestDelay)
    BY <2>5, <1>1, <1>3 DEF Larger
  <2> QED BY <2>4, <2>5, <2>6, <1>1, <1>4
<1>6. CASE Recover
  <2>1. batch' = Smaller(batch + 1, maxBatchSize)
        /\ delay' = Larger(delay - Larger(IncreaseStep, baseline \div 10), MinDelay)
    BY <1>6 DEF Recover
  <2>2. batch' \in Nat
        /\ batch' \in (MinBatchSize..maxBatchSize) \cup {MinBatchSize, maxBatchSize}
    <3>1. batch \in (MinBatchSize..maxBatchSize) \cup {MinBatchSize, maxBatchSize}
      BY DEF InRange
    <3> QED BY <2>1, <3>1, <1>1 DEF Smaller
  <2>3. delay' \in Nat /\ MinDelay <= delay' /\ (delay' <= delay \/ delay' = MinDelay)
    <3>1. Larger(IncreaseStep, baseline \div 10) \in Nat
      BY DEF Larger, TInv, TypeOK
    <3> QED BY <2>1, <3>1, <1>1 DEF Larger
  <2>4. Smaller(MinDelay, requestDelay) <= delay'
    BY <2>3, <1>1 DEF Smaller
  <2>5. delay' <= Larger(EffectiveMaxDelay(firstBaseline'), requestDelay)
    <3>1. delay <= Larger(EffectiveMaxDelay(firstBaseline), requestDelay)
      BY DEF InRange
    <3>2. MinDelay <= EffectiveMaxDelay(firstBaseline')
      BY <1>1, <1>3, DefaultsAssumption
    <3> QED BY <2>3, <3>1, <3>2, <1>1, <1>3 DEF Larger
  <2> QED BY <2>2, <2>4, <2>5, <1>4
<1>7. CASE UNCHANGED <<delay, batch>>
  <2>1. delay' <= Larger(EffectiveMaxDelay(firstBaseline'), requestDelay)
    BY <1>1, <1>3, <1>7 DEF InRange, Larger
  <2> QED BY <1>1, <1>4, <1>7, <2>1 DEF InRange
<1> QED BY <1>5, <1>6, <1>7, StepShape

LEMMA InRangeAlways == Spec => []InRange
<1>1. Init => InRange
  <2> SUFFICES ASSUME Init PROVE InRange
    OBVIOUS
  <2>1. /\ requestDelay \in Nat /\ maxBatchSize \in Nat
        /\ delay = requestDelay /\ batch = maxBatchSize /\ firstBaseline = 0
    BY SettingsAssumption DEF Init
  <2>2. EffectiveMaxDelay(firstBaseline) \in Nat
    BY <2>1, CeilingGrows
  <2> QED BY <2>1, <2>2 DEF InRange, Smaller, Larger
<1>2. ASSUME TInv, InRange, [Next]_vars PROVE InRange'
  BY <1>2, InRangeStep
<1> QED BY TInvAlways, <1>1, <1>2, PTL DEF Spec

-----------------------------------------------------------------------------
(* The theorems. *)

\* Delay and batch stay within their bounds, or no further outside than they were
\* set, whatever the API does and however often the ceiling moves (loop.go:306,
\* throttle/config.go:22-25).
THEOREM ParamsStayInRange == Spec => []ParamsInRange
<1>1. TInv /\ InRange => ParamsInRange
  BY DEF InRange, ParamsInRange
<1> QED BY TInvAlways, InRangeAlways, <1>1, PTL

\* Speeding up takes a whole cooldown and a whole series of stable ticks since
\* the last back-off, in whatever order metrics and ticks arrive (loop.go:58).
THEOREM SpeedUpIsEarned == Spec => SlowToSpeedUp
<1>1. ASSUME TInv, [Next]_vars, calm' # 0, delay' < delay \/ batch' > batch
      PROVE  calm' = CalmCap
  <2>1. ~\E factor \in {2, 3}, reduce \in BOOLEAN : ApplyBackoff(factor, reduce, baseline')
    BY <1>1 DEF ApplyBackoff
  <2>2. ~UNCHANGED <<delay, batch>>
    BY <1>1 DEF TInv, TypeOK
  <2>3. state = "normal" /\ NormalTick /\ RecoveryDue
    BY <1>1, <2>1, <2>2, StepShape
  <2> QED BY <1>1, <2>3 DEF TInv, TypeOK, Calm, CalmCap, NormalTick, RecoveryDue, Elapse, Smaller
<1>2. TInv /\ [Next]_vars => [calm' # 0 /\ (delay' < delay \/ batch' > batch) => calm' = CalmCap]_vars
  BY <1>1
<1> QED BY TInvAlways, <1>2, PTL DEF Spec, SlowToSpeedUp

\* A back-off never makes the client faster, but for a delay that is above the
\* ceiling of the baseline and a batch that is set below the smallest allowed
\* (loop.go:273-293).
THEOREM BackoffIsSlower == Spec => BackoffSlowsDown
<1> DEFINE Ceiling == EffectiveMaxDelay(baseline')
           Slower == /\ batch' <= batch \/ (batch < MinBatchSize /\ batch' = MinBatchSize)
                     /\ IF delay <= Ceiling THEN delay' >= delay ELSE delay' = Ceiling
<1>1. ASSUME TInv, InRange, [Next]_vars, calm' = 0 PROVE Slower
  <2>1. CASE \E factor \in {2, 3}, reduce \in BOOLEAN : ApplyBackoff(factor, reduce, baseline')
    <3>1. PICK factor \in {2, 3}, reduce \in BOOLEAN : ApplyBackoff(factor, reduce, baseline')
      BY <2>1
    <3>2. delay \in Nat /\ baseline' \in Nat /\ batch \in Nat
      BY <1>1, TypeOKStep DEF TInv, TypeOK, InRange
    <3>3. batch' <= batch \/ (batch < MinBatchSize /\ batch' = MinBatchSize)
      BY <3>1, <3>2, BackoffBatchRange DEF ApplyBackoff
    <3>4. delay' = BackoffDelay(delay, factor, baseline')
      BY <3>1 DEF ApplyBackoff
    <3> QED BY <3>2, <3>3, <3>4, BackoffDelayRange
  <2>2. CASE UNCHANGED <<delay, batch>> /\ (calm' = calm \/ Elapse)
    <3>1. calm = 0
      BY <1>1, <2>2 DEF TInv, TypeOK, Elapse, Smaller, CalmCap
    <3>2. state = "cooldown" /\ delay <= EffectiveMaxDelay(baseline) /\ calm' = calm
      BY <1>1, <2>2, <3>1 DEF TInv, TypeOK, Calm, CalmCap, Elapse, Smaller
    <3>3. baseline' = baseline
      <4>1. ~Elapse
        BY <1>1, <3>1 DEF Elapse, Smaller, CalmCap
      <4>2. Metric \/ Decay \/ Heal \/ UNCHANGED vars
        BY <1>1, <4>1, <3>2, <2>2 DEF Next, Tick, IdleTick, CooldownTick, BackoffTick, NormalTick
      <4>3. ASSUME Metric PROVE baseline' = baseline
        BY <4>3, <3>2 DEF Metric, WarmupMetric, CalibrationMetric, ActiveMetric
      <4> QED BY <4>2, <4>3 DEF Decay, Heal, vars
    <3> QED BY <1>1, <2>2, <3>2, <3>3 DEF TInv, TypeOK
  <2>3. CASE state = "normal" /\ NormalTick /\ RecoveryDue /\ Recover
    BY <1>1, <2>3 DEF NormalTick, Elapse, Smaller, TInv, TypeOK, CalmCap
  <2> QED BY <1>1, <2>1, <2>2, <2>3, StepShape
<1>2. TInv /\ InRange /\ [Next]_vars => [calm' = 0 => Slower]_vars
  BY <1>1
<1> QED BY TInvAlways, InRangeAlways, <1>2, PTL DEF Spec, BackoffSlowsDown

=============================================================================
