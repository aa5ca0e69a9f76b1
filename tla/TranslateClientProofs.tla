----------------------- MODULE TranslateClientProofs -----------------------
(***************************************************************************)
(* Proofs about TranslateClient, for every text, every way normalize may   *)
(* identify lines, every sequence of batch sizes and every number of       *)
(* retries: which translation a line gets, what the shared cache holds,    *)
(* why a call fails, what it costs, and what a cancellation stops.         *)
(***************************************************************************)
EXTENDS TranslateClient, WellFoundedInduction, SequenceTheorems, TLAPS

-----------------------------------------------------------------------------
(* The inductive invariant. *)

Working == pc \in {"wait", "delay", "sent", "backoff"}

\* Looking up goes through the text once, and nothing is sent meanwhile.
Places ==
  /\ pc = "lookup" => offset = 0 /\ calls = 0
  /\ pc # "lookup" => looked = Len(texts)

\* What is missing, in the order of the text, and what is not: found in the cache.
Lookups ==
  /\ \A j \in 1..Len(missing) : missing[j] <= looked
  /\ \A i, j \in 1..Len(missing) : i < j => missing[i] < missing[j]
  /\ \A i \in 1..looked :
       \/ \E j \in 1..Len(missing) : missing[j] = i
       \/ results[i] \in Translations /\ Fits(Normal[texts[i]], results[i])

\* The answers so far belong to the first lines that are missing, whatever the
\* sizes of the batches that brought them.
AnswersInOrder == \A j \in 1..offset : all[j] = Translated(texts[missing[j]])

\* The batch at work is what follows them, and what has been split off it so far
\* is translated.
InBatch ==
  Working =>
    /\ 1 <= Len(batch) /\ offset + Len(batch) <= Len(missing)
    /\ \A i \in 1..Len(batch) : batch[i] = missing[offset + i]
    /\ unit = "batch" => split = <<>>
    /\ Len(split) < Len(batch)
    /\ \A i \in 1..Len(split) : split[i] = Translated(texts[batch[i]])
    /\ pc = "backoff" => attempt < MaxRetries

\* A request begun after the end of the file's context is the last one.
LastRequest ==
  \/ sentLate = 0
  \/ sentLate = 1 /\ ctx = "done" /\ pc \in {"wait", "sent", "backoff", "error"}

\* The requests n units of work may cost.
Cost(n) == (MaxRetries + 1) * n

\* A request that failed and whose attempt is not counted yet.
Pending == IF pc = "backoff" THEN 1 ELSE 0

\* Every line answered for has paid for one request of its own and for a share
\* in one of its batch.
Budget ==
  /\ Working /\ unit = "batch" =>
       calls <= Cost(2 * offset) + attempt + Pending
  /\ Working /\ unit = "single" =>
       calls <= Cost(2 * offset + 1 + Len(split)) + attempt + Pending
  /\ pc = "batch" => calls <= Cost(2 * offset)
  /\ calls <= Cost(2 * Len(missing))

IInv ==
  /\ TypeOK /\ Places /\ Lookups /\ AnswersInOrder /\ InBatch /\ LastRequest /\ Budget
  /\ EveryLineItsTranslation /\ CacheHoldsOwnTranslations /\ FailureIsOfALine

-----------------------------------------------------------------------------
(* Costs, contexts and requests. *)

USE MaxRetriesAssumption

LEMMA CostFacts ==
  /\ Cost(0) = 0
  /\ \A n \in Nat : Cost(n) \in Nat /\ Cost(n + 1) = Cost(n) + MaxRetries + 1
BY DEF Cost

LEMMA CostGrows ==
  ASSUME NEW m \in Nat, NEW n \in Nat, m <= n
  PROVE  Cost(m) <= Cost(n)
<1>1. PICK d \in Nat : n = m + d
  <2>1. n - m \in Nat /\ n = m + (n - m)
    OBVIOUS
  <2> QED BY <2>1
<1>2. (MaxRetries + 1) * d \in Nat
  OBVIOUS
<1>3. (MaxRetries + 1) * (m + d) = (MaxRetries + 1) * m + (MaxRetries + 1) * d
  OBVIOUS
<1> QED BY <1>1, <1>2, <1>3 DEF Cost

LEMMA SeqFacts ==
  ASSUME NEW S, NEW s \in Seq(S)
  PROVE  /\ Len(s) \in Nat /\ DOMAIN s = 1..Len(s)
         /\ \A i \in 1..Len(s) : s[i] \in S
OBVIOUS

\* The numbers of the call, whatever it is doing.
LEMMA Numbers ==
  ASSUME TypeOK
  PROVE  /\ Len(texts) \in Nat /\ Len(missing) \in Nat /\ Len(batch) \in Nat
         /\ Len(split) \in Nat /\ Len(all) \in Nat
         /\ looked \in Nat /\ offset \in Nat /\ calls \in Nat
         /\ attempt \in Nat /\ attempt <= MaxRetries
<1>1. /\ texts \in Seq(Lines) /\ missing \in Seq(1..Len(texts)) /\ batch \in Seq(1..Len(texts))
      /\ split \in Seq(Translations) /\ all \in Seq(Translations)
  BY InputsAssumption DEF TypeOK
<1>2. /\ Len(texts) \in Nat /\ Len(missing) \in Nat /\ Len(batch) \in Nat
      /\ Len(split) \in Nat /\ Len(all) \in Nat
  BY <1>1, SeqFacts
<1>3. /\ looked \in 0..Len(texts) /\ offset \in 0..Len(missing) /\ calls \in Nat
      /\ attempt \in 0..MaxRetries
  BY DEF TypeOK
<1> QED BY <1>2, <1>3

LEMMA PendingFacts ==
  /\ Pending \in {0, 1} /\ (Pending = 1 <=> pc = "backoff")
  /\ Pending' \in {0, 1} /\ (Pending' = 1 <=> pc' = "backoff")
BY DEF Pending

\* A unit of work at the end of its attempts has cost one share more; so has one
\* that is answered.
LEMMA UnitPaid ==
  ASSUME TypeOK, InBatch, Budget, Working
  PROVE  /\ calls \in Nat /\ offset \in Nat /\ Len(split) \in Nat
         /\ Cost(2 * offset + 1) \in Nat /\ Cost(2 * offset + 1 + Len(split) + 1) \in Nat
         /\ unit = "batch" =>
              calls + (1 - Pending) <= Cost(2 * offset + 1)
         /\ unit = "single" =>
              calls + (1 - Pending) <= Cost(2 * offset + 1 + Len(split) + 1)
<1>1. /\ calls \in Nat /\ offset \in Nat /\ Len(split) \in Nat
      /\ attempt \in Nat /\ attempt <= MaxRetries
      /\ pc = "backoff" => attempt + 1 <= MaxRetries
  BY Numbers, PendingFacts DEF InBatch
<1>2. /\ 2 * offset \in Nat
      /\ 2 * offset + 1 + Len(split) \in Nat
  BY <1>1
<1>3. /\ Cost(2 * offset) \in Nat
      /\ Cost(2 * offset + 1) = Cost(2 * offset) + MaxRetries + 1
      /\ Cost(2 * offset + 1 + Len(split)) \in Nat
      /\ Cost(2 * offset + 1 + Len(split) + 1)
           = Cost(2 * offset + 1 + Len(split)) + MaxRetries + 1
  BY <1>2, CostFacts
<1>4. /\ MaxRetries \in Nat
      /\ Pending \in {0, 1} /\ (Pending = 1 => attempt + 1 <= MaxRetries)
  BY <1>1, PendingFacts, MaxRetriesAssumption
<1>5. ASSUME unit = "batch"
      PROVE  calls + (1 - Pending) <= Cost(2 * offset + 1)
  <2>1. calls <= Cost(2 * offset) + attempt + Pending
    BY <1>5 DEF Budget
  <2>2. /\ Cost(2 * offset) \in Nat /\ Cost(2 * offset + 1) \in Nat
        /\ Cost(2 * offset + 1) = Cost(2 * offset) + MaxRetries + 1
    BY ONLY <1>3, <1>4
  <2>3. CASE Pending = 0
    BY ONLY <2>1, <2>2, <2>3, <1>1, <1>4
  <2>4. CASE Pending = 1
    BY ONLY <2>1, <2>2, <2>4, <1>1, <1>4
  <2> QED BY <2>3, <2>4, <1>4
<1>6. ASSUME unit = "single"
      PROVE  calls + (1 - Pending) <= Cost(2 * offset + 1 + Len(split) + 1)
  <2>1. calls <= Cost(2 * offset + 1 + Len(split)) + attempt + Pending
    BY <1>6 DEF Budget
  <2>2. /\ Cost(2 * offset + 1 + Len(split)) \in Nat /\ Cost(2 * offset + 1 + Len(split) + 1) \in Nat
        /\ Cost(2 * offset + 1 + Len(split) + 1) = Cost(2 * offset + 1 + Len(split)) + MaxRetries + 1
    BY ONLY <1>3, <1>4
  <2>3. CASE Pending = 0
    BY ONLY <2>1, <2>2, <2>3, <1>1, <1>4
  <2>4. CASE Pending = 1
    BY ONLY <2>1, <2>2, <2>4, <1>1, <1>4
  <2> QED BY <2>3, <2>4, <1>4
<1>7. Cost(2 * offset + 1) \in Nat /\ Cost(2 * offset + 1 + Len(split) + 1) \in Nat
  BY <1>3, <1>1
<1> QED BY <1>1, <1>5, <1>6, <1>7

\* What is paid for the lines up to some line of the batch is within the bound.
LEMMA WithinBound ==
  ASSUME TypeOK, InBatch, Working, NEW n \in Nat, n <= 2 * (offset + Len(batch))
  PROVE  /\ Cost(n) \in Nat
         /\ Cost(2 * (offset + Len(batch))) \in Nat /\ Cost(2 * Len(missing)) \in Nat
         /\ Cost(n) <= Cost(2 * (offset + Len(batch))) /\ Cost(n) <= Cost(2 * Len(missing))
<1>1. /\ offset \in Nat /\ Len(batch) \in Nat /\ Len(missing) \in Nat
      /\ offset + Len(batch) <= Len(missing)
  BY Numbers DEF InBatch
<1>2. /\ 2 * (offset + Len(batch)) \in Nat /\ 2 * Len(missing) \in Nat
      /\ n <= 2 * Len(missing)
  BY <1>1
<1> QED BY <1>2, CostGrows, CostFacts

\* One more request of the unit at work is within the bound of the call.
LEMMA CallWithinBound ==
  ASSUME TypeOK, InBatch, Budget, Working, NEW n \in Nat,
         n <= calls + (1 - Pending)
  PROVE  n <= Cost(2 * Len(missing))
<1>1. /\ calls \in Nat /\ offset \in Nat /\ Len(split) \in Nat /\ Len(batch) \in Nat
      /\ 1 <= Len(batch) /\ Len(split) < Len(batch) /\ unit \in {"batch", "single"}
  BY Numbers DEF InBatch, TypeOK
<1>2. /\ 2 * offset + 1 \in Nat /\ 2 * offset + 1 <= 2 * (offset + Len(batch))
      /\ 2 * offset + 1 + Len(split) + 1 \in Nat
      /\ 2 * offset + 1 + Len(split) + 1 <= 2 * (offset + Len(batch))
  BY <1>1
<1>3. /\ Cost(2 * offset + 1) \in Nat /\ Cost(2 * offset + 1) <= Cost(2 * Len(missing))
  BY <1>2, WithinBound
<1>4. /\ Cost(2 * offset + 1 + Len(split) + 1) \in Nat
      /\ Cost(2 * offset + 1 + Len(split) + 1) <= Cost(2 * Len(missing))
      /\ Cost(2 * Len(missing)) \in Nat
  BY <1>2, WithinBound
<1>5. CASE unit = "batch"
  <2>1. calls + (1 - Pending) <= Cost(2 * offset + 1)
    BY <1>5, UnitPaid
  <2> QED BY <2>1, <1>1, <1>3, <1>4, PendingFacts
<1>6. CASE unit = "single"
  <2>1. calls + (1 - Pending) <= Cost(2 * offset + 1 + Len(split) + 1)
    BY <1>6, UnitPaid
  <2> QED BY <2>1, <1>1, <1>4, PendingFacts
<1> QED BY <1>1, <1>5, <1>6

LEMMA ContextFacts ==
  /\ ctx = "done" => Context = "done"
  /\ unit = "single" => Context = ctx
BY DEF Context

\* The lines of the file and the places of those that are missing.
LEMMA TextFacts ==
  ASSUME TypeOK
  PROVE  /\ texts \in Seq(Lines) /\ DOMAIN texts = 1..Len(texts) /\ Len(texts) \in Nat
         /\ \A i \in 1..Len(texts) : texts[i] \in Lines
         /\ \A i \in 1..Len(texts) : /\ Normal[texts[i]] \in Keys
                                     /\ Translated(texts[i]) \in Translations
                                     /\ Fits(Normal[texts[i]], Translated(texts[i]))
         /\ DOMAIN missing = 1..Len(missing) /\ Len(missing) \in Nat
         /\ \A j \in 1..Len(missing) : missing[j] \in 1..Len(texts)
<1>1. texts \in Seq(Lines)
  BY InputsAssumption DEF TypeOK
<1>2. /\ DOMAIN texts = 1..Len(texts) /\ Len(texts) \in Nat
      /\ \A i \in 1..Len(texts) : texts[i] \in Lines
  BY <1>1
<1>3. \A line \in Lines : /\ Normal[line] \in Keys
                          /\ Translated(line) \in Translations
                          /\ Fits(Normal[line], Translated(line))
  BY NormalAssumption DEF Keys, Translations, Translated, Fits
<1>4. /\ DOMAIN missing = 1..Len(missing) /\ Len(missing) \in Nat
      /\ \A j \in 1..Len(missing) : missing[j] \in 1..Len(texts)
  BY DEF TypeOK
<1> QED BY <1>1, <1>2, <1>3, <1>4

\* The answers to what is being sent, in the order of what was asked.
LEMMA AskedFacts ==
  ASSUME TypeOK, InBatch, Working
  PROVE  /\ Asked \in Seq(1..Len(texts))
         /\ Len(Asked) = (IF unit = "batch" THEN Len(batch) ELSE 1)
         /\ unit = "batch" => Asked = batch
         /\ unit # "batch" => Asked[1] = batch[Len(split) + 1]
         /\ Answers \in Seq(Translations)
         /\ Len(Answers) = Len(Asked)
         /\ \A i \in 1..Len(Asked) : Answers[i] = Translated(texts[Asked[i]])
<1>1. /\ batch \in Seq(1..Len(texts)) /\ Len(batch) \in Nat
      /\ Len(split) \in Nat /\ Len(split) + 1 \in 1..Len(batch)
      /\ unit \in {"batch", "single"}
  <2>1. 1 <= Len(batch) /\ Len(split) < Len(batch)
    BY DEF InBatch
  <2> QED BY <2>1, Numbers DEF TypeOK
<1>2. batch[Len(split) + 1] \in 1..Len(texts)
  BY <1>1, SeqFacts
<1>3. /\ Asked \in Seq(1..Len(texts))
      /\ Len(Asked) = (IF unit = "batch" THEN Len(batch) ELSE 1)
      /\ unit = "batch" => Asked = batch
      /\ unit # "batch" => Asked[1] = batch[Len(split) + 1]
  <2>1. CASE unit = "batch"
    BY <2>1, <1>1 DEF Asked
  <2>2. CASE unit = "single"
    <3>1. Asked = <<batch[Len(split) + 1]>>
      BY <2>2 DEF Asked
    <3> QED BY <2>2, <3>1, <1>2
  <2> QED BY <1>1, <2>1, <2>2
<1>4. /\ DOMAIN Asked = 1..Len(Asked) /\ Len(Asked) \in Nat
      /\ \A i \in 1..Len(Asked) : Asked[i] \in 1..Len(texts)
  BY <1>3, SeqFacts
<1>5. \A i \in 1..Len(Asked) : Translated(texts[Asked[i]]) \in Translations
  BY <1>4, TextFacts
<1>6. /\ Answers \in Seq(Translations)
      /\ Len(Answers) = Len(Asked)
      /\ \A i \in 1..Len(Asked) : Answers[i] = Translated(texts[Asked[i]])
  BY <1>4, <1>5 DEF Answers
<1> QED BY <1>3, <1>6

-----------------------------------------------------------------------------
(* Steps that leave the lines and their answers alone. *)

LEMMA LinesKept ==
  ASSUME IInv, pc # "lookup", pc' \notin {"lookup", "ok"},
         UNCHANGED <<texts, cache, looked, results, missing, all, offset>>
  PROVE  /\ Places' /\ Lookups' /\ AnswersInOrder'
         /\ EveryLineItsTranslation' /\ CacheHoldsOwnTranslations'
BY DEF IInv, Places, Lookups, AnswersInOrder, EveryLineItsTranslation,
       CacheHoldsOwnTranslations, Fits

\* A batch that fails is split, a single line that fails ends the call: what is
\* assumed is that the attempt has been paid for and that a line does not fail
\* for the batch's time-out.
LEMMA FailKeepsIInv ==
  ASSUME IInv, Working, Fail,
         UNCHANGED <<texts, cache, ctx, batchCtx, looked, results, missing, all, offset,
                     batch, sentLate>>,
         calls' \in Nat,
         calls' <= calls + (1 - Pending),
         unit = "single" => ctx # "live" \/ attempt = MaxRetries
  PROVE  IInv'
<1>0. /\ TypeOK /\ Places /\ Lookups /\ AnswersInOrder /\ InBatch /\ LastRequest /\ Budget
      /\ EveryLineItsTranslation /\ CacheHoldsOwnTranslations /\ FailureIsOfALine
  BY DEF IInv
<1>1. /\ pc # "lookup" /\ unit \in {"batch", "single"}
      /\ pc' \in {"wait", "error"}
      /\ pc' = "wait" <=> unit = "batch"
      /\ unit = "batch" => unit' = "single" /\ attempt' = 0 /\ split' = <<>> /\ status' = "none"
      /\ unit = "single" => UNCHANGED <<unit, attempt, split, status>>
  BY <1>0 DEF Working, Fail, TypeOK
<1>2. /\ calls \in Nat /\ offset \in Nat /\ Len(split) \in Nat
      /\ unit = "batch" => calls' <= Cost(2 * offset + 1)
      /\ unit = "single" => calls' <= Cost(2 * offset + 1 + Len(split) + 1)
  <2>1. /\ calls \in Nat /\ offset \in Nat /\ Len(split) \in Nat
        /\ unit = "batch" =>
             calls + (1 - Pending) <= Cost(2 * offset + 1)
        /\ unit = "single" =>
             calls + (1 - Pending) <= Cost(2 * offset + 1 + Len(split) + 1)
        /\ Cost(2 * offset + 1) \in Nat /\ Cost(2 * offset + 1 + Len(split) + 1) \in Nat
    BY <1>0, UnitPaid
  <2> QED BY <2>1, PendingFacts
<1>3. /\ Len(batch) \in Nat /\ 1 <= Len(batch) /\ Len(split) < Len(batch)
  BY <1>0, Numbers DEF InBatch
<1>4. calls' <= Cost(2 * Len(missing))
  BY <1>0, CallWithinBound
<1>5. TypeOK'
  <2>1. /\ unit' \in {"batch", "single"} /\ attempt' \in 0..MaxRetries
        /\ split' \in Seq(Translations) /\ Len(split') <= Len(batch)
        /\ status' \in {"none", "ok", "retryable", "refused"}
    <3>1. CASE unit = "batch"
      BY <3>1, <1>1, <1>3
    <3>2. CASE unit = "single"
      BY <3>2, <1>0, <1>1 DEF TypeOK
    <3> QED BY <1>1, <3>1, <3>2
  <2>2. pc' \in {"lookup", "batch", "wait", "delay", "sent", "backoff", "ok", "error"}
    BY <1>1
  <2> QED BY <1>0, <2>1, <2>2 DEF TypeOK
<1>6. Places' /\ Lookups' /\ AnswersInOrder' /\ EveryLineItsTranslation'
      /\ CacheHoldsOwnTranslations'
  BY <1>1, LinesKept
<1>7. InBatch'
  BY <1>1, <1>0, <1>3 DEF InBatch, Working
<1>8. LastRequest'
  BY <1>0, <1>1 DEF LastRequest, Working
<1>9. Budget'
  <2>1. Cost(2 * Len(missing))' = Cost(2 * Len(missing))
    BY DEF Cost
  <2>2. CASE unit = "single"
    BY <2>1, <2>2, <1>1, <1>4 DEF Budget, Working
  <2>3. CASE unit = "batch"
    <3>1. /\ Len(split') = 0 /\ unit' = "single" /\ attempt' = 0 /\ pc' = "wait"
      BY <2>3, <1>1
    <3>2. calls' <= Cost(2 * offset + 1)
      BY <2>3, <1>2
    <3>3. /\ Cost(2 * offset + 1 + Len(split))' \in Nat /\ Pending' = 0
          /\ calls' <= Cost(2 * offset + 1 + Len(split))'
      <4>1. Cost(2 * offset + 1 + Len(split))' = Cost(2 * offset + 1)
        BY <3>1, <1>2 DEF Cost
      <4>2. Cost(2 * offset + 1) \in Nat
        BY <1>0, UnitPaid
      <4> QED BY <3>1, <3>2, <4>1, <4>2, PendingFacts
    <3> QED BY <2>1, <3>1, <3>3, <1>4 DEF Budget
  <2> QED BY <1>1, <2>2, <2>3
<1>10. FailureIsOfALine'
  BY <1>1 DEF FailureIsOfALine
<1> QED BY <1>5, <1>6, <1>7, <1>8, <1>9, <1>10 DEF IInv

\* A step within one unit of work: what a request costs is what the attempt, or
\* the wait before the next one, already stands for.
LEMMA UnitKept ==
  ASSUME IInv, Working, Working',
         UNCHANGED <<texts, cache, ctx, batchCtx, looked, results, missing, all, offset,
                     batch, unit, split>>,
         attempt' \in 0..MaxRetries, pc' = "backoff" => attempt' < MaxRetries,
         status' \in {"none", "ok", "retryable", "refused"},
         \/ calls' = calls /\ attempt' = attempt /\ Pending' = Pending
         \/ calls' = calls + 1 /\ attempt' = attempt /\ Pending = 0 /\ Pending' = 1
         \/ calls' = calls /\ attempt' = attempt + 1 /\ Pending = 1 /\ Pending' = 0,
         sentLate' \in 0..2, LastRequest'
  PROVE  IInv'
<1>0. /\ TypeOK /\ Places /\ Lookups /\ AnswersInOrder /\ InBatch /\ LastRequest /\ Budget
      /\ EveryLineItsTranslation /\ CacheHoldsOwnTranslations /\ FailureIsOfALine
  BY DEF IInv
<1>1. /\ pc # "lookup"
      /\ pc' \in {"wait", "delay", "sent", "backoff"}
  BY DEF Working
<1>2. TypeOK'
  BY <1>0, <1>1 DEF TypeOK
<1>3. Places' /\ Lookups' /\ AnswersInOrder' /\ EveryLineItsTranslation'
      /\ CacheHoldsOwnTranslations'
  BY <1>1, LinesKept
<1>4. InBatch'
  BY <1>0, <1>1 DEF InBatch, Working
<1>5. Budget'
  <2>1. /\ calls \in Nat /\ offset \in Nat /\ Len(split) \in Nat /\ attempt \in Nat
        /\ attempt' \in Nat /\ unit \in {"batch", "single"}
    BY <1>0, Numbers DEF TypeOK
  <2>2. /\ 2 * offset \in Nat /\ 2 * offset + 1 + Len(split) \in Nat
    BY <2>1
  <2>3. Cost(2 * offset) \in Nat /\ Cost(2 * offset + 1 + Len(split)) \in Nat
    BY <2>2, CostFacts
  <2>4. /\ Cost(2 * offset)' = Cost(2 * offset)
        /\ Cost(2 * offset + 1 + Len(split))' = Cost(2 * offset + 1 + Len(split))
        /\ Cost(2 * Len(missing))' = Cost(2 * Len(missing))
    BY DEF Cost
  <2>5. calls' <= Cost(2 * Len(missing))
    <3>1. calls' \in Nat /\ calls' <= calls + (1 - Pending)
      BY <2>1, PendingFacts
    <3> QED BY <1>0, <3>1, CallWithinBound
  <2>6. CASE unit = "batch"
    <3>1. calls <= Cost(2 * offset) + attempt + Pending
      BY <1>0, <2>6 DEF Budget
    <3>2. calls' <= Cost(2 * offset) + attempt' + Pending'
      BY <3>1, <2>1, <2>3, PendingFacts
    <3>3. calls' <= Cost(2 * offset)' + attempt' + Pending'
      BY <3>2, <2>4
    <3>4. unit' # "single" /\ pc' # "batch" /\ calls' <= Cost(2 * Len(missing))'
      BY <2>4, <2>5, <2>6, <1>1
    <3> QED BY ONLY <3>3, <3>4 DEF Budget
  <2>7. CASE unit = "single"
    <3>1. calls <= Cost(2 * offset + 1 + Len(split)) + attempt
                     + Pending
      BY <1>0, <2>7 DEF Budget
    <3>2. calls' <= Cost(2 * offset + 1 + Len(split)) + attempt'
                      + Pending'
      BY <3>1, <2>1, <2>3, PendingFacts
    <3>3. calls' <= Cost(2 * offset + 1 + Len(split))' + attempt'
                      + Pending'
      BY <3>2, <2>4
    <3>4. unit' # "batch" /\ pc' # "batch" /\ calls' <= Cost(2 * Len(missing))'
      BY <2>4, <2>5, <2>7, <1>1
    <3> QED BY ONLY <3>3, <3>4 DEF Budget
  <2> QED BY <2>1, <2>6, <2>7
<1>6. FailureIsOfALine'
  BY <1>1 DEF FailureIsOfALine
<1> QED BY <1>2, <1>3, <1>4, <1>5, <1>6 DEF IInv

-----------------------------------------------------------------------------
(* The call's steps that answer nothing. *)

LEMMA StepFacts ==
  ASSUME IInv
  PROVE  /\ TypeOK /\ InBatch /\ LastRequest
         /\ unit \in {"batch", "single"} /\ calls \in Nat /\ attempt \in Nat
         /\ attempt \in 0..MaxRetries /\ sentLate \in 0..2
         /\ status \in {"none", "ok", "retryable", "refused"}
         /\ ctx \in {"live", "late", "done"}
BY Numbers DEF IInv, TypeOK

\* The limiter lets the request through, or fails it.
LEMMA WaitKeepsIInv == ASSUME IInv, Wait PROVE IInv'
<1>1. pc = "wait" /\ Working
  BY DEF Wait, Working
<1>2. CASE LimiterAdmits /\ pc' = "delay" /\ UNCHANGED <<unit, attempt, split, status>>
  <2>1. ctx # "done"
    BY <1>2, ContextFacts DEF LimiterAdmits
  <2>2. sentLate = 0 /\ UNCHANGED <<sentLate, calls, attempt>>
    BY <1>2, <2>1, StepFacts DEF LastRequest, Wait
  <2>3. LastRequest' /\ sentLate' \in 0..2 /\ Working'
    BY <1>2, <2>2 DEF LastRequest, Working
  <2>4. Pending' = Pending
    BY <1>1, <1>2 DEF Pending
  <2> QED BY <1>1, <1>2, <2>2, <2>3, <2>4, StepFacts, UnitKept DEF Wait
<1>3. CASE LimiterRefuses /\ Fail
  <2>1. unit = "single" => ctx # "live"
    BY <1>3, ContextFacts DEF LimiterRefuses
  <2>2. calls' \in Nat /\ calls' <= calls + (1 - Pending)
    BY StepFacts, PendingFacts DEF Wait
  <2> QED BY <1>1, <1>3, <2>1, <2>2, FailKeepsIInv DEF Wait
<1> QED BY <1>2, <1>3 DEF Wait

LEMMA SendKeepsIInv == ASSUME IInv, Send PROVE IInv'
<1>1. pc = "delay" /\ pc' = "sent" /\ Working /\ Working'
  BY DEF Send, Working
<1>2. sentLate = 0
  BY <1>1, StepFacts DEF LastRequest
<1>3. LastRequest' /\ sentLate' \in 0..2
  BY <1>1, <1>2 DEF LastRequest, Send, Least
<1>4. Pending' = Pending
  BY <1>1 DEF Pending
<1> QED BY <1>1, <1>3, <1>4, StepFacts, UnitKept DEF Send

LEMMA CancelledKeepsIInv == ASSUME IInv, DelayCancelled \/ BackoffCancelled PROVE IInv'
<1>1. Working /\ Fail /\ Context = "done" /\ UNCHANGED calls
  BY DEF DelayCancelled, BackoffCancelled, Working
<1>2. unit = "single" => ctx # "live"
  BY <1>1, ContextFacts
<1>3. calls' \in Nat /\ calls' <= calls + (1 - Pending)
  BY <1>1, StepFacts, PendingFacts
<1> QED BY <1>1, <1>2, <1>3, FailKeepsIInv DEF DelayCancelled, BackoffCancelled

LEMMA FailedRetryablyKeepsIInv == ASSUME IInv, FailedRetryably PROVE IInv'
<1>1. pc = "sent" /\ Working /\ calls' = calls + 1 /\ Pending = 0
  BY DEF FailedRetryably, Working, Pending
<1>2. CASE MayRetry
  <2>1. /\ pc' = "backoff" /\ status' = "retryable" /\ Working' /\ Pending' = 1
        /\ UNCHANGED <<unit, attempt, split>> /\ attempt < MaxRetries
    BY <1>2 DEF FailedRetryably, Working, Pending, MayRetry
  <2>2. LastRequest' /\ sentLate' \in 0..2
    BY <1>1, <2>1, StepFacts DEF LastRequest, FailedRetryably
  <2> QED BY <1>1, <2>1, <2>2, StepFacts, UnitKept DEF FailedRetryably
<1>3. CASE ~MayRetry
  <2>1. Fail /\ attempt = MaxRetries
    BY <1>3, StepFacts DEF FailedRetryably, MayRetry
  <2>2. calls' \in Nat /\ calls' <= calls + (1 - Pending)
    BY <1>1, StepFacts
  <2> QED BY <1>1, <2>1, <2>2, FailKeepsIInv DEF FailedRetryably
<1> QED BY <1>2, <1>3

\* A batch that is refused is split; a line that is refused ends the call.
LEMMA RefusedKeepsIInv == ASSUME IInv, Refused PROVE IInv'
<1>1. pc = "sent" /\ Working /\ calls' = calls + 1 /\ Pending = 0
  BY DEF Refused, Working, Pending
<1>2. calls' \in Nat /\ calls' <= calls + (1 - Pending)
  BY <1>1, StepFacts
<1>3. CASE unit = "batch"
  BY <1>1, <1>2, <1>3, FailKeepsIInv DEF Refused
<1>4. CASE unit # "batch"
  <2>1. /\ pc' = "error" /\ status' = "refused" /\ UNCHANGED <<unit, attempt, split>>
        /\ UNCHANGED <<texts, cache, ctx, batchCtx, looked, results, missing, all, offset,
                       batch, sentLate>>
    BY <1>4 DEF Refused
  <2>2. unit = "single"
    BY <1>4, StepFacts
  <2>3. TypeOK'
    BY <1>2, <2>1, StepFacts DEF TypeOK
  <2>4. Places' /\ Lookups' /\ AnswersInOrder' /\ EveryLineItsTranslation'
        /\ CacheHoldsOwnTranslations'
    BY <1>1, <2>1, LinesKept
  <2>5. InBatch' /\ LastRequest' /\ FailureIsOfALine'
    BY <1>1, <2>1, <2>2, StepFacts DEF InBatch, LastRequest, FailureIsOfALine, Working
  <2>6. Budget'
    <3>1. calls' <= Cost(2 * Len(missing))
      BY <1>1, <1>2, CallWithinBound DEF IInv
    <3>2. Cost(2 * Len(missing))' = Cost(2 * Len(missing))
      BY <2>1 DEF Cost
    <3> QED BY <2>1, <3>1, <3>2 DEF Budget, Working
  <2> QED BY <2>3, <2>4, <2>5, <2>6 DEF IInv
<1> QED BY <1>3, <1>4

LEMMA RetryKeepsIInv == ASSUME IInv, Retry PROVE IInv'
<1>1. /\ pc = "backoff" /\ pc' = "wait" /\ Working /\ Working'
      /\ attempt' = attempt + 1 /\ Pending = 1 /\ Pending' = 0
  BY DEF Retry, Working, Pending
<1>2. attempt' \in 0..MaxRetries
  BY <1>1, StepFacts DEF InBatch
<1>3. LastRequest' /\ sentLate' \in 0..2
  BY <1>1, StepFacts DEF LastRequest, Retry
<1> QED BY <1>1, <1>2, <1>3, StepFacts, UnitKept DEF Retry

-----------------------------------------------------------------------------
(* Looking the lines up. *)

LEMMA InitIInv == Init => IInv
<1> SUFFICES ASSUME Init PROVE IInv
  OBVIOUS
<1>1. PICK held \in SUBSET Keys : /\ cache \in [held -> Translations]
                                  /\ \A k \in held : Fits(k, cache[k])
  BY DEF Init
<1>2. texts \in Seq(Lines) /\ Len(texts) \in Nat /\ DOMAIN texts = 1..Len(texts)
  BY InputsAssumption DEF Init
<1>3. Len(missing) = 0 /\ offset = 0 /\ calls = 0 /\ pc = "lookup"
  BY DEF Init
<1>4. TypeOK
  BY <1>1, <1>2 DEF Init, TypeOK
<1>5. Places /\ Lookups /\ AnswersInOrder /\ InBatch /\ LastRequest
  BY <1>2, <1>3 DEF Init, Places, Lookups, AnswersInOrder, InBatch, LastRequest, Working
<1>6. Budget
  <2>1. Cost(2 * Len(missing)) = 0
    BY <1>3, CostFacts
  <2> QED BY <2>1, <1>3 DEF Budget, Working
<1>7. CacheHoldsOwnTranslations /\ EveryLineItsTranslation /\ FailureIsOfALine
  BY <1>1, <1>3 DEF CacheHoldsOwnTranslations, EveryLineItsTranslation, FailureIsOfALine
<1> QED BY <1>4, <1>5, <1>6, <1>7 DEF IInv

LEMMA LookUpKeepsIInv == ASSUME IInv, LookUp PROVE IInv'
<1>0. /\ TypeOK /\ Places /\ Lookups /\ AnswersInOrder /\ InBatch /\ LastRequest /\ Budget
      /\ EveryLineItsTranslation /\ CacheHoldsOwnTranslations /\ FailureIsOfALine
  BY DEF IInv
<1> DEFINE i == looked + 1
           k == Normal[texts[i]]
<1>1. /\ pc = "lookup" /\ looked' = i
      /\ UNCHANGED <<texts, cache, ctx, batchCtx, pc, all, offset, request>>
      /\ UNCHANGED <<batch, unit, split, attempt, status, calls, sentLate>>
      /\ offset = 0 /\ calls = 0
  BY <1>0 DEF LookUp, Places, request
<1>2. /\ looked \in Nat /\ i \in 1..Len(texts) /\ Len(texts) \in Nat
      /\ Len(missing) \in Nat /\ Len(missing) <= looked
      /\ DOMAIN texts = 1..Len(texts)
      /\ results \in [1..Len(texts) -> Translations \cup {None}]
      /\ missing \in Seq(1..Len(texts))
  BY <1>0, Numbers, TextFacts DEF LookUp, TypeOK
<1>3. CASE k \in DOMAIN cache
  <2>1. results' = [results EXCEPT ![i] = cache[k]] /\ missing' = missing
    BY <1>1, <1>3 DEF LookUp
  <2>2. cache[k] \in Translations /\ Fits(k, cache[k])
    BY <1>0, <1>3 DEF TypeOK, CacheHoldsOwnTranslations
  <2>3. TypeOK'
    <3>1. results' \in [DOMAIN texts' -> Translations \cup {None}]
      BY <1>1, <1>2, <2>1, <2>2
    <3> QED BY <1>0, <1>1, <1>2, <2>1, <3>1 DEF TypeOK
  <2>4. Lookups'
    <3>1. /\ \A j \in 1..Len(missing) : missing[j] <= i
          /\ \A a, b \in 1..Len(missing) : a < b => missing[a] < missing[b]
      <4>1. \A j \in 1..Len(missing) : missing[j] <= looked /\ missing[j] \in Nat
        BY <1>0, TextFacts DEF Lookups
      <4> QED BY <4>1, <1>0, <1>2 DEF Lookups
    <3>2. ASSUME NEW n \in 1..i
          PROVE  \/ \E j \in 1..Len(missing) : missing[j] = n
                 \/ results'[n] \in Translations /\ Fits(Normal[texts[n]], results'[n])
      <4>1. CASE n = i
        BY <4>1, <1>2, <2>1, <2>2
      <4>2. CASE n # i
        <5>1. n \in 1..looked /\ results'[n] = results[n]
          BY <4>2, <1>2, <2>1
        <5> QED BY <5>1, <1>0 DEF Lookups
      <4> QED BY <4>1, <4>2
    <3> HIDE DEF i
    <3> QED BY <1>1, <2>1, <3>1, <3>2 DEF Lookups, Fits
  <2>5. Budget'
    BY <1>0, <1>1, <2>1 DEF Budget, Working, Cost
  <2>6. Places' /\ AnswersInOrder' /\ InBatch' /\ LastRequest'
    BY <1>0, <1>1, <2>1 DEF Places, AnswersInOrder, InBatch, LastRequest, Working
  <2>7. EveryLineItsTranslation' /\ CacheHoldsOwnTranslations' /\ FailureIsOfALine'
    BY <1>0, <1>1 DEF EveryLineItsTranslation, CacheHoldsOwnTranslations, FailureIsOfALine, Fits
  <2> QED BY <2>3, <2>4, <2>5, <2>6, <2>7 DEF IInv
<1>4. CASE k \notin DOMAIN cache
  <2>1. results' = results /\ missing' = Append(missing, i)
    BY <1>1, <1>4 DEF LookUp
  <2>2. /\ missing' \in Seq(1..Len(texts)) /\ Len(missing') = Len(missing) + 1
        /\ \A j \in 1..Len(missing) : missing'[j] = missing[j]
        /\ missing'[Len(missing) + 1] = i
    BY <2>1, <1>2
  <2>3. TypeOK'
    BY <1>0, <1>1, <1>2, <2>1, <2>2 DEF TypeOK
  <2>4. Lookups'
    <3>1. \A j \in 1..Len(missing) : missing[j] <= looked /\ missing[j] \in Nat
      BY <1>0, TextFacts DEF Lookups
    <3>2. ASSUME NEW j \in 1..(Len(missing) + 1) PROVE missing'[j] <= i
      <4>1. CASE j = Len(missing) + 1
        BY <4>1, <2>2, <1>2
      <4>2. CASE j # Len(missing) + 1
        <5>1. j \in 1..Len(missing) /\ missing'[j] = missing[j]
          BY <4>2, <1>2, <2>2
        <5>2. missing[j] <= i
          BY <5>1, <3>1, <1>2
        <5> QED BY <5>1, <5>2
      <4> QED BY <4>1, <4>2
    <3>3. ASSUME NEW a \in 1..(Len(missing) + 1), NEW b \in 1..(Len(missing) + 1), a < b
          PROVE  missing'[a] < missing'[b]
      <4>1. a \in 1..Len(missing) /\ missing'[a] = missing[a]
        <5>1. Len(missing) \in Nat /\ a \in Int /\ b \in Int /\ 1 <= a /\ b <= Len(missing) + 1
          BY <3>3, <1>2
        <5>2. a \in 1..Len(missing)
          BY ONLY <5>1, <3>3
        <5> QED BY ONLY <5>2, <2>2
      <4>2. CASE b = Len(missing) + 1
        <5>1. missing'[b] = i
          BY <4>2, <2>2
        <5>2. missing[a] < i
          BY <4>1, <3>1, <1>2
        <5> QED BY <4>1, <5>1, <5>2
      <4>3. CASE b # Len(missing) + 1
        <5>1. b \in 1..Len(missing) /\ missing'[b] = missing[b]
          BY <4>3, <1>2, <2>2
        <5> QED BY <4>1, <5>1, <3>3, <1>0 DEF Lookups
      <4> QED BY <4>2, <4>3
    <3>4. ASSUME NEW n \in 1..i
          PROVE  \/ \E j \in 1..(Len(missing) + 1) : missing'[j] = n
                 \/ results[n] \in Translations /\ Fits(Normal[texts[n]], results[n])
      <4>1. CASE n = i
        BY <4>1, <1>2, <2>2
      <4>2. CASE n # i
        <5>1. n \in 1..looked
          BY <4>2, <1>2
        <5>2. CASE \E j \in 1..Len(missing) : missing[j] = n
          <6>1. PICK j \in 1..Len(missing) : missing[j] = n
            BY <5>2
          <6> QED BY <6>1, <1>2, <2>2
        <5> QED BY <5>1, <5>2, <1>0 DEF Lookups
      <4> QED BY <4>1, <4>2
    <3>5. Len(missing') = Len(missing) + 1 /\ looked' = i /\ results' = results /\ texts' = texts
      BY <1>1, <2>1, <2>2
    <3> HIDE DEF i
    <3> QED BY <3>2, <3>3, <3>4, <3>5 DEF Lookups, Fits
  <2>5. Budget'
    <3>1. Len(missing') \in Nat /\ 2 * Len(missing') \in Nat
      BY <2>2, <1>2
    <3>2. Cost(2 * Len(missing'))  \in Nat
      BY <3>1, CostFacts
    <3>3. Cost(2 * Len(missing))' = Cost(2 * Len(missing'))
      BY DEF Cost
    <3> QED BY <1>1, <3>2, <3>3 DEF Budget, Working
  <2>6. Places' /\ AnswersInOrder' /\ InBatch' /\ LastRequest'
    BY <1>0, <1>1, <2>1 DEF Places, AnswersInOrder, InBatch, LastRequest, Working
  <2>7. EveryLineItsTranslation' /\ CacheHoldsOwnTranslations' /\ FailureIsOfALine'
    BY <1>0, <1>1 DEF EveryLineItsTranslation, CacheHoldsOwnTranslations, FailureIsOfALine, Fits
  <2> QED BY <2>3, <2>4, <2>5, <2>6, <2>7 DEF IInv
<1> QED BY <1>3, <1>4

LEMMA LookedKeepsIInv == ASSUME IInv, Looked PROVE IInv'
<1>0. /\ TypeOK /\ Places /\ Lookups /\ AnswersInOrder /\ InBatch /\ LastRequest /\ Budget
      /\ EveryLineItsTranslation /\ CacheHoldsOwnTranslations /\ FailureIsOfALine
  BY DEF IInv
<1>1. /\ pc = "lookup" /\ looked = Len(texts) /\ offset = 0 /\ calls = 0
      /\ pc' = IF missing = <<>> THEN "ok" ELSE "batch"
      /\ UNCHANGED <<texts, cache, ctx, batchCtx, looked, results, missing, all, offset, request>>
      /\ UNCHANGED <<batch, unit, split, attempt, status, calls, sentLate>>
  BY <1>0 DEF Looked, Places, request
<1>2. TypeOK'
  BY <1>0, <1>1 DEF TypeOK
<1>3. Places' /\ Lookups' /\ AnswersInOrder' /\ InBatch' /\ LastRequest'
  BY <1>0, <1>1 DEF Places, Lookups, AnswersInOrder, InBatch, LastRequest, Working, Fits
<1>4. Budget'
  <2>1. Cost(2 * offset) = 0 /\ Cost(2 * offset)' = Cost(2 * offset)
    BY <1>1 DEF Cost
  <2>2. Cost(2 * Len(missing))' = Cost(2 * Len(missing))
    BY <1>1 DEF Cost
  <2> QED BY <1>0, <1>1, <2>1, <2>2 DEF Budget, Working
<1>5. EveryLineItsTranslation'
  <2> SUFFICES ASSUME missing = <<>>
               PROVE  EveryLineItsTranslation'
    BY <1>1 DEF EveryLineItsTranslation
  <2>1. ASSUME NEW i \in DOMAIN texts PROVE Fits(Normal[texts[i]], results[i])
    <3>1. i \in 1..looked
      BY <1>0, <1>1, TextFacts
    <3> QED BY <3>1, <1>0 DEF Lookups
  <2> QED BY <2>1, <1>1 DEF EveryLineItsTranslation, Fits
<1>6. CacheHoldsOwnTranslations' /\ FailureIsOfALine'
  BY <1>0, <1>1 DEF CacheHoldsOwnTranslations, FailureIsOfALine, Fits
<1> QED BY <1>2, <1>3, <1>4, <1>5, <1>6 DEF IInv

-----------------------------------------------------------------------------
(* Sending what is missing. *)

LEMMA NextBatchKeepsIInv ==
  ASSUME IInv, NEW size \in BatchSizes, NextBatch(size)
  PROVE  IInv'
<1>0. /\ TypeOK /\ Places /\ Lookups /\ AnswersInOrder /\ InBatch /\ LastRequest /\ Budget
      /\ EveryLineItsTranslation /\ CacheHoldsOwnTranslations /\ FailureIsOfALine
  BY DEF IInv
<1>1. /\ pc = "batch" /\ offset < Len(missing) /\ sentLate = 0
      /\ UNCHANGED <<texts, cache, ctx, looked, results, missing, all, offset>>
  BY <1>0 DEF NextBatch, LastRequest
<1>2. /\ offset \in Nat /\ Len(missing) \in Nat /\ calls \in Nat /\ size \in Nat \ {0}
      /\ missing \in Seq(1..Len(texts))
  BY <1>0, Numbers, BatchSizesAssumption DEF TypeOK
<1>3. CASE ctx = "done"
  <2>1. /\ pc' = "error"
        /\ UNCHANGED <<batchCtx, batch, unit, split, attempt, status, calls, sentLate>>
    BY <1>3 DEF NextBatch, request
  <2>2. TypeOK'
    BY <1>0, <1>1, <2>1 DEF TypeOK
  <2>3. Places' /\ Lookups' /\ AnswersInOrder' /\ EveryLineItsTranslation'
        /\ CacheHoldsOwnTranslations'
    BY <1>1, <2>1, LinesKept
  <2>4. InBatch' /\ LastRequest' /\ FailureIsOfALine'
    BY <1>1, <1>3, <2>1 DEF InBatch, LastRequest, FailureIsOfALine, Working
  <2>5. Budget'
    <3>1. Cost(2 * Len(missing))' = Cost(2 * Len(missing))
      BY <1>1 DEF Cost
    <3> QED BY <1>0, <2>1, <3>1 DEF Budget, Working
  <2> QED BY <2>2, <2>3, <2>4, <2>5 DEF IInv
<1>4. CASE ctx # "done"
  <2> DEFINE end == Least(offset + size, Len(missing))
  <2>1. /\ batch' = SubSeq(missing, offset + 1, end)
        /\ batchCtx' = ctx /\ unit' = "batch" /\ attempt' = 0 /\ status' = "none"
        /\ split' = <<>> /\ pc' = "wait" /\ UNCHANGED <<calls, sentLate>>
    BY <1>4 DEF NextBatch
  <2>2. end \in Nat /\ offset < end /\ end <= Len(missing)
    BY <1>1, <1>2 DEF Least
  <2>3. /\ batch' \in Seq(1..Len(texts))
        /\ Len(batch') = end - offset
        /\ \A i \in 1..(end - offset) : batch'[i] = missing[offset + i]
    <3> HIDE DEF end
    <3>1. /\ batch' \in Seq(1..Len(texts))
          /\ Len(batch') = (end - (offset + 1)) + 1
          /\ \A i \in 1..((end - (offset + 1)) + 1) : batch'[i] = missing[(offset + 1) + i - 1]
      BY <1>2, <2>1, <2>2, SubSeqProperties
    <3>2. (end - (offset + 1)) + 1 = end - offset
      BY <1>2, <2>2
    <3>3. \A i \in 1..(end - offset) : (offset + 1) + i - 1 = offset + i
      BY <1>2, <2>2
    <3> QED BY <3>1, <3>2, <3>3
  <2>4. /\ end - offset \in Nat /\ 1 <= end - offset /\ 0 < end - offset
        /\ offset + (end - offset) <= Len(missing)
    BY <1>2, <2>2
  <2>5. TypeOK'
    <3>1. /\ attempt' \in 0..MaxRetries /\ split' \in Seq(Translations)
          /\ Len(split') <= Len(batch')
      BY <2>1, <2>3, <2>4
    <3> HIDE DEF end
    <3> QED BY <1>0, <1>1, <2>1, <2>3, <3>1 DEF TypeOK
  <2>6. Places' /\ Lookups' /\ AnswersInOrder' /\ EveryLineItsTranslation'
        /\ CacheHoldsOwnTranslations'
    BY <1>1, <2>1, LinesKept
  <2>7. InBatch'
    <3> HIDE DEF end
    <3>1. Len(split') = 0
      BY <2>1
    <3>2. Len(split') < Len(batch') /\ 1 <= Len(batch')
      BY <2>3, <2>4, <3>1
    <3>3. offset + Len(batch') <= Len(missing)
      BY <2>3, <2>4
    <3> QED BY <1>1, <2>1, <2>3, <3>1, <3>2, <3>3 DEF InBatch
  <2>8. LastRequest' /\ FailureIsOfALine'
    BY <1>1, <2>1 DEF LastRequest, FailureIsOfALine
  <2>9. Budget'
    <3>1. /\ Cost(2 * Len(missing))' = Cost(2 * Len(missing))
          /\ Cost(2 * offset)' = Cost(2 * offset)
      BY <1>1 DEF Cost
    <3>2. Cost(2 * offset) \in Nat /\ calls <= Cost(2 * offset)
      <4>1. 2 * offset \in Nat
        BY <1>2
      <4> QED BY <4>1, <1>0, <1>1, CostFacts DEF Budget
    <3>3. Pending' = 0
      BY <2>1 DEF Pending
    <3>4. calls <= Cost(2 * offset) + 0 + 0
      BY <3>2
    <3> QED BY <1>0, <2>1, <3>1, <3>3, <3>4 DEF Budget
  <2> QED BY <2>5, <2>6, <2>7, <2>8, <2>9 DEF IInv
<1> QED BY <1>3, <1>4

\* Answers to the batch at work follow the answers there are.
LEMMA BatchDoneFacts ==
  ASSUME TypeOK, AnswersInOrder, InBatch, Working, NEW answers, BatchDone(answers),
         UNCHANGED <<texts, missing>>,
         answers \in Seq(Translations), Len(answers) = Len(batch),
         \A i \in 1..Len(batch) : answers[i] = Translated(texts[batch[i]])
  PROVE  /\ all' \in Seq(Translations) /\ Len(all') = offset' /\ offset' \in 0..Len(missing)
         /\ offset' = offset + Len(batch) /\ pc' = "batch"
         /\ AnswersInOrder'
<1>1. /\ all \in Seq(Translations) /\ Len(all) = offset /\ offset \in Nat
      /\ Len(batch) \in Nat /\ Len(missing) \in Nat /\ offset + Len(batch) <= Len(missing)
      /\ \A i \in 1..Len(batch) : batch[i] = missing[offset + i]
  BY Numbers DEF TypeOK, InBatch
<1>2. /\ all' = all \o answers /\ offset' = offset + Len(batch) /\ pc' = "batch"
  BY DEF BatchDone, Advance
<1>3. /\ all' \in Seq(Translations) /\ Len(all') = offset + Len(batch)
      /\ \A j \in 1..offset : all'[j] = all[j]
      /\ \A j \in 1..(offset + Len(batch)) : j > offset => all'[j] = answers[j - offset]
  BY <1>1, <1>2, ConcatProperties
<1>4. ASSUME NEW j \in 1..(offset + Len(batch))
      PROVE  all'[j] = Translated(texts[missing[j]])
  <2>1. CASE j <= offset
    <3>1. j \in 1..offset
      BY <2>1, <1>1
    <3> QED BY <3>1, <1>3 DEF AnswersInOrder
  <2>2. CASE j > offset
    <3>1. j - offset \in 1..Len(batch) /\ offset + (j - offset) = j
      BY <2>2, <1>1
    <3>2. all'[j] = answers[j - offset] /\ batch[j - offset] = missing[j]
      BY <2>2, <3>1, <1>1, <1>3
    <3> QED BY <3>1, <3>2
  <2> QED BY <1>1, <2>1, <2>2
<1>5. AnswersInOrder'
  BY <1>2, <1>4 DEF AnswersInOrder
<1>6. offset' \in 0..Len(missing) /\ Len(all') = offset'
  BY <1>1, <1>2, <1>3
<1> QED BY <1>2, <1>3, <1>5, <1>6

\* A batch is answered for: each of its lines has paid its two shares.
LEMMA BatchPaid ==
  ASSUME TypeOK, InBatch, Budget, Working, pc # "backoff",
         \/ unit = "batch"
         \/ unit = "single" /\ Len(split) + 1 = Len(batch)
  PROVE  calls + 1 <= Cost(2 * (offset + Len(batch)))
<1>1. /\ calls \in Nat /\ offset \in Nat /\ Len(split) \in Nat /\ Len(batch) \in Nat
      /\ 1 <= Len(batch)
  BY Numbers DEF InBatch
<1>2. Pending = 0
  BY DEF Pending
<1>3. CASE unit = "batch"
  <2>1. /\ 2 * offset + 1 \in Nat /\ 2 * offset + 1 <= 2 * (offset + Len(batch))
    BY <1>1
  <2>2. /\ Cost(2 * offset + 1) \in Nat /\ Cost(2 * (offset + Len(batch))) \in Nat
        /\ Cost(2 * offset + 1) <= Cost(2 * (offset + Len(batch)))
    BY <2>1, WithinBound
  <2>3. calls + 1 <= Cost(2 * offset + 1)
    BY <1>1, <1>2, <1>3, UnitPaid
  <2> QED BY <1>1, <2>2, <2>3
<1>4. CASE unit = "single" /\ Len(split) + 1 = Len(batch)
  <2>1. /\ 2 * offset + 1 + Len(split) + 1 \in Nat
        /\ 2 * offset + 1 + Len(split) + 1 <= 2 * (offset + Len(batch))
    BY <1>1, <1>4
  <2>2. /\ Cost(2 * offset + 1 + Len(split) + 1) \in Nat
        /\ Cost(2 * (offset + Len(batch))) \in Nat
        /\ Cost(2 * offset + 1 + Len(split) + 1) <= Cost(2 * (offset + Len(batch)))
    BY <2>1, WithinBound
  <2>3. calls + 1 <= Cost(2 * offset + 1 + Len(split) + 1)
    BY <1>1, <1>2, <1>4, UnitPaid
  <2> QED BY <1>1, <2>2, <2>3
<1> QED BY <1>3, <1>4

LEMMA AnsweredKeepsIInv == ASSUME IInv, Answered PROVE IInv'
<1>0. /\ TypeOK /\ Places /\ Lookups /\ AnswersInOrder /\ InBatch /\ LastRequest /\ Budget
      /\ EveryLineItsTranslation /\ CacheHoldsOwnTranslations /\ FailureIsOfALine
  BY DEF IInv
<1>1. /\ pc = "sent" /\ Working /\ ctx # "done" /\ sentLate = 0 /\ Pending = 0
      /\ calls' = calls + 1 /\ calls' \in Nat /\ status' = "ok"
      /\ UNCHANGED <<texts, cache, ctx, batchCtx, looked, results, missing, batch, unit, sentLate>>
  BY <1>0, ContextFacts, StepFacts DEF Answered, LastRequest, Working, Pending
<1>2. /\ offset \in Nat /\ Len(split) \in Nat /\ Len(batch) \in Nat /\ Len(missing) \in Nat
      /\ split \in Seq(Translations) /\ 1 <= Len(batch) /\ Len(split) < Len(batch)
      /\ unit \in {"batch", "single"} /\ attempt \in Nat
      /\ \A i \in 1..Len(split) : split[i] = Translated(texts[batch[i]])
  BY <1>0, <1>1, Numbers DEF TypeOK, InBatch
<1>3. /\ calls' <= Cost(2 * Len(missing))
      /\ Cost(2 * Len(missing))' = Cost(2 * Len(missing))
  <2>1. calls' <= calls + (1 - Pending)
    BY <1>1, StepFacts
  <2> QED BY <1>0, <1>1, <2>1, CallWithinBound DEF Cost
<1>4. \* the answer to a single line joins those split off before
      ASSUME unit = "single"
      PROVE  /\ Join(split, Answers) \in Seq(Translations)
             /\ Len(Join(split, Answers)) = Len(split) + 1
             /\ \A i \in 1..(Len(split) + 1) :
                  Join(split, Answers)[i] = Translated(texts[batch[i]])
  <2>1. /\ Answers \in Seq(Translations) /\ Len(Answers) = 1
        /\ Answers[1] = Translated(texts[batch[Len(split) + 1]])
    BY <1>0, <1>1, <1>4, AskedFacts
  <2> HIDE DEF Answers
  <2>2. /\ Join(split, Answers) \in Seq(Translations)
        /\ Len(Join(split, Answers)) = Len(split) + 1
        /\ \A i \in 1..(Len(split) + 1) :
             Join(split, Answers)[i] = IF i <= Len(split) THEN split[i]
                                                         ELSE Answers[i - Len(split)]
    <3>1. /\ split \o Answers \in Seq(Translations)
          /\ Len(split \o Answers) = Len(split) + Len(Answers)
          /\ \A i \in 1..(Len(split) + Len(Answers)) :
               (split \o Answers)[i] = IF i <= Len(split) THEN split[i]
                                                         ELSE Answers[i - Len(split)]
      BY <1>2, <2>1, ConcatProperties
    <3> QED BY <2>1, <3>1 DEF Join
  <2>3. ASSUME NEW i \in 1..(Len(split) + 1)
        PROVE  Join(split, Answers)[i] = Translated(texts[batch[i]])
    <3>1. CASE i <= Len(split)
      BY <3>1, <1>2, <2>2
    <3>2. CASE i = Len(split) + 1
      <4>1. i - Len(split) = 1 /\ ~(i <= Len(split))
        BY <3>2, <1>2
      <4> QED BY <3>2, <4>1, <2>1, <2>2
    <3> QED BY <3>1, <3>2, <1>2
  <2> QED BY <2>2, <2>3
<1>5. \* the batch is done, in one of two ways
      ASSUME NEW answers, BatchDone(answers), answers \in Seq(Translations),
             Len(answers) = Len(batch), UNCHANGED attempt,
             \A i \in 1..Len(batch) : answers[i] = Translated(texts[batch[i]]),
             split' \in Seq(Translations), Len(split') <= Len(batch),
             \/ unit = "batch"
             \/ unit = "single" /\ Len(split) + 1 = Len(batch)
      PROVE  IInv'
  <2>1. /\ all' \in Seq(Translations) /\ Len(all') = offset' /\ offset' \in 0..Len(missing)
        /\ offset' = offset + Len(batch) /\ pc' = "batch"
        /\ AnswersInOrder'
    BY <1>0, <1>1, <1>5, BatchDoneFacts
  <2>2. TypeOK'
    BY <1>0, <1>1, <1>5, <2>1 DEF TypeOK
  <2>3. Budget'
    <3>1. calls + 1 <= Cost(2 * (offset + Len(batch)))
      BY <1>0, <1>1, <1>5, BatchPaid
    <3>2. Cost(2 * offset)' = Cost(2 * (offset + Len(batch)))
      BY <2>1 DEF Cost
    <3>3. calls' <= Cost(2 * offset)'
      BY <1>1, <3>1, <3>2
    <3>4. calls' <= Cost(2 * Len(missing))'
      BY <1>3
    <3> QED BY <2>1, <3>3, <3>4 DEF Budget, Working
  <2>4. Places' /\ Lookups' /\ InBatch' /\ LastRequest'
    BY <1>0, <1>1, <2>1 DEF Places, Lookups, InBatch, LastRequest, Working, Fits
  <2>5. EveryLineItsTranslation' /\ CacheHoldsOwnTranslations' /\ FailureIsOfALine'
    BY <1>0, <1>1, <2>1 DEF EveryLineItsTranslation, CacheHoldsOwnTranslations,
                            FailureIsOfALine, Fits
  <2> QED BY <2>1, <2>2, <2>3, <2>4, <2>5 DEF IInv
<1>6. CASE unit = "batch" /\ BatchDone(Answers) /\ UNCHANGED <<split, attempt>>
  <2>1. /\ Answers \in Seq(Translations) /\ Len(Answers) = Len(batch)
        /\ \A i \in 1..Len(batch) : Answers[i] = Translated(texts[batch[i]])
    BY <1>0, <1>1, <1>6, AskedFacts
  <2>2. split' \in Seq(Translations) /\ Len(split') <= Len(batch)
    BY <1>2, <1>6
  <2> QED BY <1>5, <1>6, <2>1, <2>2
<1>7. CASE /\ unit = "single" /\ Len(split) + 1 = Len(batch)
           /\ split' = Join(split, Answers) /\ BatchDone(split') /\ UNCHANGED attempt
  <2>1. /\ split' \in Seq(Translations) /\ Len(split') = Len(batch) /\ Len(split') <= Len(batch)
        /\ \A i \in 1..Len(batch) : split'[i] = Translated(texts[batch[i]])
    BY <1>2, <1>4, <1>7
  <2> QED BY <1>5, <1>7, <2>1
<1>8. CASE /\ unit = "single" /\ Len(split) + 1 < Len(batch)
           /\ split' = Join(split, Answers) /\ attempt' = 0 /\ pc' = "wait"
           /\ UNCHANGED <<all, offset>>
  <2>1. /\ split' \in Seq(Translations) /\ Len(split') = Len(split) + 1
        /\ \A i \in 1..(Len(split) + 1) : split'[i] = Translated(texts[batch[i]])
        /\ Len(split') < Len(batch) /\ Len(split') <= Len(batch)
    BY <1>2, <1>4, <1>8
  <2>2. TypeOK'
    <3>1. attempt' \in 0..MaxRetries
      BY <1>8
    <3> QED BY <1>0, <1>1, <1>8, <2>1, <3>1 DEF TypeOK
  <2>3. Places' /\ Lookups' /\ AnswersInOrder' /\ EveryLineItsTranslation'
        /\ CacheHoldsOwnTranslations'
    BY <1>1, <1>8, LinesKept
  <2>4. InBatch'
    BY <1>0, <1>1, <1>8, <2>1 DEF InBatch, Working
  <2>5. LastRequest' /\ FailureIsOfALine'
    BY <1>1, <1>8 DEF LastRequest, FailureIsOfALine
  <2>6. Budget'
    <3>1. calls + 1 <= Cost(2 * offset + 1 + Len(split) + 1)
      BY <1>0, <1>1, <1>8, UnitPaid, StepFacts
    <3>2. /\ Cost(2 * offset + 1 + Len(split) + 1) \in Nat
          /\ Cost(2 * offset + 1 + Len(split))' = Cost(2 * offset + 1 + Len(split) + 1)
      <4>1. (2 * offset + 1 + Len(split))' = 2 * offset + 1 + Len(split) + 1
        BY <1>2, <1>8, <2>1
      <4> QED BY <4>1, <1>0, <1>1, UnitPaid DEF Cost
    <3>3. Pending' = 0
      BY <1>8 DEF Pending
    <3>4. calls' <= Cost(2 * offset + 1 + Len(split))' + attempt' + Pending'
      <4>1. calls + 1 <= Cost(2 * offset + 1 + Len(split) + 1) + 0 + 0
        BY <3>1, <3>2
      <4> QED BY <4>1, <1>1, <1>8, <3>2, <3>3
    <3>5. calls' <= Cost(2 * Len(missing))' /\ unit' # "batch" /\ pc' # "batch"
      BY <1>1, <1>3, <1>8
    <3> QED BY ONLY <3>4, <3>5 DEF Budget
  <2> QED BY <2>2, <2>3, <2>4, <2>5, <2>6 DEF IInv
<1> QED BY <1>6, <1>7, <1>8 DEF Answered

-----------------------------------------------------------------------------
(* Putting the results together. *)

\* A key that is put is put a last time.
LEMMA LastPutFacts ==
  ASSUME TypeOK, NEW k, \E j \in DOMAIN missing : PutKey(j) = k
  PROVE  LastPut(k) \in DOMAIN missing /\ PutKey(LastPut(k)) = k
<1> DEFINE Puts == {j \in DOMAIN missing : PutKey(j) = k}
           FromEnd == {Len(missing) - j : j \in Puts}
<1>1. Len(missing) \in Nat /\ DOMAIN missing = 1..Len(missing)
  BY TextFacts
<1>2. FromEnd \subseteq Nat /\ FromEnd # {}
  BY <1>1
<1>3. PICK d \in FromEnd : \A e \in FromEnd : ~(<<e, d>> \in OpToRel(<, Nat))
  <2> HIDE DEF FromEnd
  <2> QED BY <1>2, NatLessThanWellFounded, WFMin
<1>4. PICK j \in Puts : d = Len(missing) - j
  BY <1>3
<1>5. ASSUME NEW i \in Puts PROVE i <= j
  <2>1. Len(missing) - i \in FromEnd
    OBVIOUS
  <2>2. ~(Len(missing) - i < d)
    BY <2>1, <1>2, <1>3 DEF OpToRel
  <2> QED BY <2>2, <1>1, <1>4
<1>6. j \in DOMAIN missing /\ PutKey(j) = k /\ \A i \in DOMAIN missing : PutKey(i) = k => i <= j
  BY <1>4, <1>5
<1> QED BY <1>6 DEF LastPut

LEMMA SettleKeepsIInv == ASSUME IInv, Settle PROVE IInv'
<1>0. /\ TypeOK /\ Places /\ Lookups /\ AnswersInOrder /\ InBatch /\ LastRequest /\ Budget
      /\ EveryLineItsTranslation /\ CacheHoldsOwnTranslations /\ FailureIsOfALine
  BY DEF IInv
<1>1. /\ pc = "batch" /\ pc' = "ok" /\ sentLate = 0
      /\ UNCHANGED <<texts, ctx, batchCtx, looked, missing, all, offset, batch, unit, split,
                     attempt, status, calls, sentLate>>
  BY <1>0 DEF Settle, LastRequest, request
<1>2. /\ Len(missing) \in Nat /\ offset = Len(missing) /\ looked = Len(texts)
      /\ DOMAIN missing = 1..Len(missing) /\ DOMAIN texts = 1..Len(texts) /\ Len(texts) \in Nat
      /\ \A j \in 1..Len(missing) : missing[j] \in 1..Len(texts)
      /\ results \in [1..Len(texts) -> Translations \cup {None}]
  BY <1>0, <1>1, TextFacts DEF Settle, TypeOK, Places
<1>3. \* every line that was sent has its own translation
      ASSUME NEW j \in 1..Len(missing)
      PROVE  /\ all[j] = Translated(texts[missing[j]]) /\ all[j] \in Translations
             /\ Fits(PutKey(j), all[j]) /\ PutKey(j) \in Keys
  <2>1. all[j] = Translated(texts[missing[j]])
    BY <1>0, <1>2 DEF AnswersInOrder
  <2> QED BY <2>1, <1>0, <1>2, TextFacts DEF PutKey
<1>4. ASSUME NEW j \in 1..Len(missing)
      PROVE  (CHOOSE i \in DOMAIN missing : missing[i] = missing[j]) = j
  <2>1. ASSUME NEW i \in 1..Len(missing), missing[i] = missing[j] PROVE i = j
    <3>1. ~(i < j) /\ ~(j < i)
      BY <2>1, <1>0, <1>2 DEF Lookups
    <3> QED BY <3>1, <1>2
  <2> QED BY <2>1, <1>2
<1>5. /\ results' \in [1..Len(texts) -> Translations \cup {None}]
      /\ \A j \in 1..Len(missing) : results'[missing[j]] = Translated(texts[missing[j]])
      /\ \A i \in 1..Len(texts) :
           (~ \E j \in 1..Len(missing) : missing[j] = i) => results'[i] = results[i]
  <2>1. results' = [i \in 1..Len(texts) |->
                      IF \E j \in 1..Len(missing) : missing[j] = i
                      THEN all[CHOOSE j \in DOMAIN missing : missing[j] = i]
                      ELSE results[i]]
    BY <1>2 DEF Settle
  <2>2. ASSUME NEW j \in 1..Len(missing)
        PROVE  results'[missing[j]] = Translated(texts[missing[j]])
    <3>1. results'[missing[j]] = all[CHOOSE i \in DOMAIN missing : missing[i] = missing[j]]
      BY <1>2, <2>1
    <3> QED BY <3>1, <1>3, <1>4
  <2>3. \A i \in 1..Len(texts) :
          (~ \E j \in 1..Len(missing) : missing[j] = i) => results'[i] = results[i]
    BY <2>1
  <2>4. ASSUME NEW i \in 1..Len(texts) PROVE results'[i] \in Translations \cup {None}
    <3>1. CASE \E j \in 1..Len(missing) : missing[j] = i
      <4>1. PICK j \in 1..Len(missing) : missing[j] = i
        BY <3>1
      <4> QED BY <4>1, <1>3, <2>2
    <3>2. CASE ~ \E j \in 1..Len(missing) : missing[j] = i
      BY <3>2, <2>3, <1>2
    <3> QED BY <3>1, <3>2
  <2> QED BY <2>1, <2>2, <2>3, <2>4
<1>6. /\ DOMAIN cache' = DOMAIN cache \cup {PutKey(j) : j \in 1..Len(missing)}
      /\ \A k \in DOMAIN cache' : cache'[k] \in Translations /\ Fits(k, cache'[k])
  <2>1. cache' = [k \in DOMAIN cache \cup {PutKey(j) : j \in 1..Len(missing)} |->
                    IF \E j \in 1..Len(missing) : PutKey(j) = k THEN all[LastPut(k)] ELSE cache[k]]
    BY <1>2 DEF Settle
  <2>2. ASSUME NEW k \in DOMAIN cache \cup {PutKey(j) : j \in 1..Len(missing)}
        PROVE  cache'[k] \in Translations /\ Fits(k, cache'[k])
    <3>1. CASE \E j \in 1..Len(missing) : PutKey(j) = k
      <4>1. cache'[k] = all[LastPut(k)]
        BY <2>1, <3>1
      <4>2. LastPut(k) \in 1..Len(missing) /\ PutKey(LastPut(k)) = k
        BY <1>0, <1>2, <3>1, LastPutFacts
      <4>3. all[LastPut(k)] \in Translations /\ Fits(PutKey(LastPut(k)), all[LastPut(k)])
        BY <4>2, <1>3
      <4> QED BY <4>1, <4>2, <4>3
    <3>2. CASE ~ \E j \in 1..Len(missing) : PutKey(j) = k
      <4>1. cache'[k] = cache[k] /\ k \in DOMAIN cache
        BY <2>1, <3>2
      <4> QED BY <4>1, <1>0 DEF TypeOK, CacheHoldsOwnTranslations
    <3> QED BY <3>1, <3>2
  <2>3. DOMAIN cache' = DOMAIN cache \cup {PutKey(j) : j \in 1..Len(missing)}
    BY <2>1
  <2> QED BY <2>2, <2>3
<1>7. \* a line found in the cache kept what was found
      ASSUME NEW i \in 1..Len(texts)
      PROVE  results'[i] \in Translations /\ Fits(Normal[texts[i]], results'[i])
  <2>1. CASE \E j \in 1..Len(missing) : missing[j] = i
    <3>1. PICK j \in 1..Len(missing) : missing[j] = i
      BY <2>1
    <3>2. results'[i] = Translated(texts[i])
      BY <3>1, <1>5
    <3> QED BY <3>2, <1>0, TextFacts
  <2>2. CASE ~ \E j \in 1..Len(missing) : missing[j] = i
    <3>1. results'[i] = results[i] /\ i \in 1..looked
      BY <2>2, <1>2, <1>5
    <3> QED BY <2>2, <3>1, <1>0 DEF Lookups
  <2> QED BY <2>1, <2>2
<1>8. TypeOK'
  <2>1. DOMAIN cache' \subseteq Keys
    BY <1>0, <1>3, <1>6 DEF TypeOK
  <2>2. results' \in [DOMAIN texts' -> Translations \cup {None}]
    BY <1>1, <1>2, <1>5
  <2> QED BY <1>0, <1>1, <1>6, <2>1, <2>2 DEF TypeOK
<1>9. Places' /\ AnswersInOrder' /\ InBatch' /\ LastRequest' /\ FailureIsOfALine'
  BY <1>0, <1>1 DEF Places, AnswersInOrder, InBatch, LastRequest, FailureIsOfALine, Working
<1>10. Lookups'
  BY <1>0, <1>1, <1>2, <1>7 DEF Lookups, Fits
<1>11. Budget'
  <2>1. Cost(2 * Len(missing))' = Cost(2 * Len(missing))
    BY <1>1 DEF Cost
  <2> QED BY <1>0, <1>1, <2>1 DEF Budget, Working
<1>12. EveryLineItsTranslation'
  BY <1>1, <1>2, <1>5, <1>7 DEF EveryLineItsTranslation, Fits
<1>13. CacheHoldsOwnTranslations'
  BY <1>6 DEF CacheHoldsOwnTranslations, Fits
<1> QED BY <1>8, <1>9, <1>10, <1>11, <1>12, <1>13 DEF IInv

-----------------------------------------------------------------------------
(* The environment, and the invariant. *)

\* A context that ends while the call runs ends nothing by itself.
LEMMA ContextEndsKeepsIInv == ASSUME IInv, FileContextEnds \/ BatchContextEnds PROVE IInv'
<1>0. /\ TypeOK /\ Places /\ Lookups /\ AnswersInOrder /\ InBatch /\ LastRequest /\ Budget
      /\ EveryLineItsTranslation /\ CacheHoldsOwnTranslations /\ FailureIsOfALine
  BY DEF IInv
<1>1. /\ UNCHANGED <<texts, cache, pc, looked, results, missing, all, offset, batch, unit, split,
                     attempt, status, calls, sentLate>>
      /\ ctx' \in {"live", "late", "done"} /\ batchCtx' \in {"live", "late", "done"}
      /\ ctx = "done" => ctx' = "done"
      /\ pc \notin {"ok", "error"}
  BY <1>0 DEF FileContextEnds, BatchContextEnds, Returned, TypeOK, request
<1>2. TypeOK'
  BY <1>0, <1>1 DEF TypeOK
<1>3. Places' /\ Lookups' /\ AnswersInOrder' /\ InBatch' /\ LastRequest'
  BY <1>0, <1>1 DEF Places, Lookups, AnswersInOrder, InBatch, LastRequest, Working, Fits
<1>4. Budget'
  <2>1. /\ Cost(2 * Len(missing))' = Cost(2 * Len(missing))
        /\ Cost(2 * offset)' = Cost(2 * offset)
        /\ Cost(2 * offset + 1 + Len(split))' = Cost(2 * offset + 1 + Len(split))
    BY <1>1 DEF Cost
  <2>2. Pending' = Pending
    BY <1>1 DEF Pending
  <2> QED BY <1>0, <1>1, <2>1, <2>2 DEF Budget, Working
<1>5. EveryLineItsTranslation' /\ CacheHoldsOwnTranslations' /\ FailureIsOfALine'
  BY <1>0, <1>1 DEF EveryLineItsTranslation, CacheHoldsOwnTranslations, FailureIsOfALine, Fits
<1> QED BY <1>2, <1>3, <1>4, <1>5 DEF IInv

LEMMA OthersKeepIInv ==
  ASSUME IInv, NEW line \in Lines, OthersUseCache(line)
  PROVE  IInv'
<1>0. /\ TypeOK /\ Places /\ Lookups /\ AnswersInOrder /\ InBatch /\ LastRequest /\ Budget
      /\ EveryLineItsTranslation /\ CacheHoldsOwnTranslations /\ FailureIsOfALine
  BY DEF IInv
<1>1. /\ pc = "lookup"
      /\ UNCHANGED <<texts, ctx, batchCtx, pc, looked, results, missing, all, offset, batch, unit,
                     split, attempt, status, calls, sentLate>>
  BY DEF OthersUseCache, request
<1>2. /\ Normal[line] \in Keys /\ Translated(line) \in Translations
      /\ Fits(Normal[line], Translated(line))
  BY DEF Keys, Translations, Translated, Fits
<1>3. DOMAIN cache' \subseteq Keys
  BY <1>0, <1>2 DEF OthersUseCache, TypeOK
<1>4. \A k \in DOMAIN cache' : cache'[k] \in Translations /\ Fits(k, cache'[k])
  <2>1. \A k \in DOMAIN cache : cache[k] \in Translations /\ Fits(k, cache[k])
    BY <1>0 DEF TypeOK, CacheHoldsOwnTranslations
  <2> QED BY <1>2, <2>1 DEF OthersUseCache
<1>5. TypeOK'
  BY <1>0, <1>1, <1>3, <1>4 DEF TypeOK
<1>6. Places' /\ Lookups' /\ AnswersInOrder' /\ InBatch' /\ LastRequest'
  BY <1>0, <1>1 DEF Places, Lookups, AnswersInOrder, InBatch, LastRequest, Working, Fits
<1>7. Budget'
  <2>1. Cost(2 * Len(missing))' = Cost(2 * Len(missing))
    BY <1>1 DEF Cost
  <2> QED BY <1>0, <1>1, <2>1 DEF Budget, Working
<1>8. EveryLineItsTranslation' /\ CacheHoldsOwnTranslations' /\ FailureIsOfALine'
  BY <1>1, <1>4 DEF EveryLineItsTranslation, CacheHoldsOwnTranslations, FailureIsOfALine, Fits
<1> QED BY <1>5, <1>6, <1>7, <1>8 DEF IInv

LEMMA StutterKeepsIInv == ASSUME IInv, UNCHANGED vars PROVE IInv'
<1>1. UNCHANGED <<texts, cache, ctx, batchCtx, pc, looked, results, missing, all, offset, batch,
                  unit, split, attempt, status, calls, sentLate>>
  BY DEF vars, request
<1>2. TypeOK'
  BY <1>1 DEF IInv, TypeOK
<1>3. Places' /\ Lookups' /\ AnswersInOrder' /\ InBatch' /\ LastRequest'
  BY <1>1 DEF IInv, Places, Lookups, AnswersInOrder, InBatch, LastRequest, Working, Fits
<1>4. Budget'
  <2>1. /\ Cost(2 * Len(missing))' = Cost(2 * Len(missing))
        /\ Cost(2 * offset)' = Cost(2 * offset)
        /\ Cost(2 * offset + 1 + Len(split))' = Cost(2 * offset + 1 + Len(split))
    BY <1>1 DEF Cost
  <2>2. Pending' = Pending
    BY <1>1 DEF Pending
  <2> QED BY <1>1, <2>1, <2>2 DEF IInv, Budget, Working
<1>5. EveryLineItsTranslation' /\ CacheHoldsOwnTranslations' /\ FailureIsOfALine'
  BY <1>1 DEF IInv, EveryLineItsTranslation, CacheHoldsOwnTranslations, FailureIsOfALine, Fits
<1> QED BY <1>2, <1>3, <1>4, <1>5 DEF IInv

LEMMA NextIInv == IInv /\ [Next]_vars => IInv'
<1> SUFFICES ASSUME IInv, [Next]_vars PROVE IInv'
  OBVIOUS
<1>1. CASE LookUp
  BY <1>1, LookUpKeepsIInv
<1>2. CASE Looked
  BY <1>2, LookedKeepsIInv
<1>3. CASE Settle
  BY <1>3, SettleKeepsIInv
<1>4. CASE \E size \in BatchSizes : NextBatch(size)
  BY <1>4, NextBatchKeepsIInv
<1>5. CASE Wait
  BY <1>5, WaitKeepsIInv
<1>6. CASE Send
  BY <1>6, SendKeepsIInv
<1>7. CASE DelayCancelled \/ BackoffCancelled
  BY <1>7, CancelledKeepsIInv
<1>8. CASE Answered
  BY <1>8, AnsweredKeepsIInv
<1>9. CASE FailedRetryably
  BY <1>9, FailedRetryablyKeepsIInv
<1>10. CASE Refused
  BY <1>10, RefusedKeepsIInv
<1>11. CASE Retry
  BY <1>11, RetryKeepsIInv
<1>12. CASE FileContextEnds \/ BatchContextEnds
  BY <1>12, ContextEndsKeepsIInv
<1>13. CASE \E line \in Lines : OthersUseCache(line)
  BY <1>13, OthersKeepIInv
<1>14. CASE UNCHANGED vars
  BY <1>14, StutterKeepsIInv
<1> QED
  BY <1>1, <1>2, <1>3, <1>4, <1>5, <1>6, <1>7, <1>8, <1>9, <1>10, <1>11, <1>12, <1>13, <1>14
     DEF Next, Call

LEMMA IInvAlways == Spec => []IInv
BY InitIInv, NextIInv, PTL DEF Spec

-----------------------------------------------------------------------------
(* Theorems. *)

\* Every variable keeps its type: the answers are counted by the same indices as
\* the lines they answer, for files and batches of every size.
THEOREM TypeCorrect == Spec => []TypeOK
<1>1. IInv => TypeOK
  BY DEF IInv
<1> QED BY <1>1, IInvAlways, PTL

\* translate.go:32-35: a call that succeeds has for every line it sent that line's
\* own translation, for every file, every sequence of batch sizes and every order
\* of failures, retries and fallbacks.
THEOREM EveryLineTranslated == Spec => []EveryLineItsTranslation
<1>1. IInv => EveryLineItsTranslation
  BY DEF IInv
<1> QED BY <1>1, IInvAlways, PTL

\* translate.go:34: the shared cache never holds a line's translation under
\* another line's key, whatever the other workers put and push out meanwhile.
THEOREM CacheStaysTrue == Spec => []CacheHoldsOwnTranslations
<1>1. IInv => CacheHoldsOwnTranslations
  BY DEF IInv
<1> QED BY <1>1, IInvAlways, PTL

\* translate.go:71-72: a call fails for the file's context or for a single line.
THEOREM FailsForALine == Spec => []FailureIsOfALine
<1>1. IInv => FailureIsOfALine
  BY DEF IInv
<1> QED BY <1>1, IInvAlways, PTL

\* retry.go:16-60: the requests of a call are bounded by its missing lines and
\* MaxRetries alone, for every number of either.
THEOREM CallsBounded == Spec => []RequestsBounded
<1>1. IInv => RequestsBounded
  <2> SUFFICES ASSUME IInv PROVE RequestsBounded
    OBVIOUS
  <2>1. calls <= Cost(2 * Len(missing))
    BY DEF IInv, Budget
  <2>2. Len(missing) \in Nat
    BY Numbers DEF IInv
  <2>3. Cost(2 * Len(missing)) = (MaxRetries + 1) * 2 * Len(missing)
    BY <2>2 DEF Cost
  <2> QED BY <2>1, <2>3 DEF RequestsBounded
<1> QED BY <1>1, IInvAlways, PTL

\* retry.go:129-148: after the file's context is done one request at most is begun.
THEOREM CancelStopsCalls == Spec => []CancelStopsRequests
<1>1. IInv => CancelStopsRequests
  BY DEF IInv, LastRequest, CancelStopsRequests
<1> QED BY <1>1, IInvAlways, PTL

=============================================================================
