--------------------------- MODULE TranslateClient ---------------------------
(***************************************************************************)
(* internal/translator, the client's side: one call of TranslateTexts by   *)
(* one worker.  Lines found in the cache are answered from it; the others  *)
(* are sent in batches whose size is read anew for every batch; a batch    *)
(* that fails after its retries is bisected down to single lines, each     *)
(* with retries of its own; only when every line is translated are the     *)
(* results put together and the cache filled.                              *)
(*                                                                         *)
(* The server, the clock and the other workers are the environment: a      *)
(* request is answered in any way, a deadline comes near and passes at any *)
(* moment, the throttle publishes any size of BatchSizes, and the other    *)
(* workers fill the shared cache or push entries out of it.                *)
(***************************************************************************)
EXTENDS Integers, Sequences

CONSTANTS
  Lines,        \* the texts a subtitle line may have
  Normal,       \* normalize, as a representative of the lines with one cache key
  Inputs,       \* the texts of a file: the arguments of the call
  BatchSizes,   \* what getEffectiveBatchSize may return
  MaxRetries,   \* cfg.MaxRetries
  None          \* no translation yet

ASSUME NormalAssumption ==
  /\ Normal \in [Lines -> Lines]
  /\ \A line \in Lines : Normal[Normal[line]] = Normal[line]
ASSUME InputsAssumption == Inputs \subseteq Seq(Lines)
ASSUME BatchSizesAssumption == BatchSizes \subseteq Nat \ {0}
ASSUME MaxRetriesAssumption == MaxRetries \in Nat

\* What the server makes of a line.  The program cannot tell it from the line
\* itself (both are strings); the properties can.
Translated(line) == [of |-> line]
Translations == {Translated(line) : line \in Lines}

\* Lines that differ in case and spacing share an entry: the last one put.
Keys == {Normal[line] : line \in Lines}
Fits(k, translation) == Normal[translation.of] = k

VARIABLES
  texts,      \* the argument
  cache,      \* the shared cache: the keys it holds and their translations
  ctx,        \* the file's context: live, late (deadline near), done
  batchCtx,   \* batchCtx, likewise
  pc,         \* where the call is; "ok" and "error" when it has returned
  looked,     \* lines looked up so far
  results,    \* results
  missing,    \* uncachedIndices
  all,        \* allResults
  offset,     \* i in translateBatched
  batch,      \* texts[i:end], as indices into texts
  unit,       \* "batch" in translateBatch, "single" in translateSplit
  split,      \* what translateSplit has translated of the batch
  attempt,    \* attempt
  status,     \* class of the last response: none, ok, retryable, refused
  calls,      \* metrics.TotalAPICalls
  sentLate    \* history: requests begun after ctx was done, up to 2

request == <<batch, unit, split, attempt, status, calls, sentLate>>
vars == <<texts, cache, ctx, batchCtx, pc, looked, results, missing, all, offset, request>>

Init ==
  /\ texts \in Inputs
  /\ \E held \in SUBSET Keys :
       /\ cache \in [held -> Translations]
       /\ \A k \in held : Fits(k, cache[k])
  /\ ctx = "live" /\ batchCtx = "live" /\ pc = "lookup"
  /\ looked = 0
  /\ results = [i \in DOMAIN texts |-> None]
  /\ missing = <<>> /\ all = <<>> /\ offset = 0
  /\ batch = <<>> /\ unit = "batch" /\ split = <<>>
  /\ attempt = 0 /\ status = "none" /\ calls = 0
  /\ sentLate = 0

Least(a, b) == IF a < b THEN a ELSE b

-----------------------------------------------------------------------------
(* TranslateTexts and translateBatched. *)

\* cache.Get of the next line.
LookUp ==
  /\ pc = "lookup" /\ looked < Len(texts)
  /\ looked' = looked + 1
  /\ IF Normal[texts[looked']] \in DOMAIN cache
     THEN /\ results' = [results EXCEPT ![looked'] = cache[Normal[texts[looked']]]]
          /\ UNCHANGED missing
     ELSE /\ missing' = Append(missing, looked')
          /\ UNCHANGED results
  /\ UNCHANGED <<texts, cache, ctx, batchCtx, pc, all, offset, request>>

\* len(uncachedTexts) > 0 decides whether translateBatched is called.
Looked ==
  /\ pc = "lookup" /\ looked = Len(texts)
  /\ pc' = IF missing = <<>> THEN "ok" ELSE "batch"
  /\ UNCHANGED <<texts, cache, ctx, batchCtx, looked, results, missing, all, offset, request>>

\* The head of the loop: ctx.Err, the batch size of the moment, batchCtx.
NextBatch(size) ==
  /\ pc = "batch" /\ offset < Len(missing)
  /\ IF ctx = "done"
     THEN pc' = "error" /\ UNCHANGED <<batchCtx, request>>
     ELSE /\ batch' = SubSeq(missing, offset + 1, Least(offset + size, Len(missing)))
          /\ batchCtx' = ctx
          /\ unit' = "batch" /\ attempt' = 0 /\ status' = "none"
          /\ split' = <<>>
          /\ pc' = "wait"
          /\ UNCHANGED <<calls, sentLate>>
  /\ UNCHANGED <<texts, cache, ctx, looked, results, missing, all, offset>>

\* i += len(batch), whatever the size has become meanwhile.
Advance(b) == Len(b)

\* A batch is translated, in one request or line by line.
BatchDone(answers) ==
  /\ all' = all \o answers
  /\ offset' = offset + Advance(batch)
  /\ pc' = "batch"

\* Mutant: a line's translation is put under the line after it in the file.
PutNext(j) == Normal[texts[IF j < Len(missing) THEN missing[j + 1] ELSE missing[1]]]

\* The key of cache.Put(uncachedTexts[j], translated[j]).
PutKey(j) == Normal[texts[missing[j]]]

LastPut(k) ==
  CHOOSE j \in DOMAIN missing :
    PutKey(j) = k /\ \A i \in DOMAIN missing : PutKey(i) = k => i <= j

\* Every batch is translated: results are filled in and the cache with them.
Settle ==
  /\ pc = "batch" /\ offset >= Len(missing)
  /\ results' = [i \in DOMAIN results |->
       IF \E j \in DOMAIN missing : missing[j] = i
       THEN all[CHOOSE j \in DOMAIN missing : missing[j] = i]
       ELSE results[i]]
  /\ cache' = [k \in DOMAIN cache \cup {PutKey(j) : j \in DOMAIN missing} |->
       IF \E j \in DOMAIN missing : PutKey(j) = k THEN all[LastPut(k)] ELSE cache[k]]
  /\ pc' = "ok"
  /\ UNCHANGED <<texts, ctx, batchCtx, looked, missing, all, offset, request>>

-----------------------------------------------------------------------------
(* translateBatch, translateSingle and waitBeforeRequest. *)

\* Mutant: the fallback runs under the batch's own context.
ContextOfBatch == IF ctx = "done" THEN ctx ELSE batchCtx

\* batchCtx, which is done when ctx is, in translateBatch; ctx in translateSplit.
Context ==
  IF unit = "single" \/ ctx = "done" THEN ctx ELSE batchCtx

\* translateSplit halves the batch down to single lines and goes through them
\* from left to right, so that it is the sequence of translateSingle calls over
\* the batch; the first that fails ends it.
Fail ==
  IF unit = "batch"
  THEN /\ unit' = "single" /\ attempt' = 0 /\ split' = <<>> /\ status' = "none"
       /\ pc' = "wait"
  ELSE /\ pc' = "error" /\ UNCHANGED <<unit, attempt, split, status>>

\* Mutants: the rate limiter is not given the context; waiting for it does not
\* end with the context.
LimiterAdmitsAlways == TRUE
LimiterRefusesNever == FALSE

\* rateLimiter.Wait: fails when the context is done, and may fail when its
\* deadline is nearer than the wait would be.
LimiterAdmits == Context # "done"
LimiterRefuses == Context # "live"

Wait ==
  /\ pc = "wait"
  /\ \/ LimiterAdmits /\ pc' = "delay" /\ UNCHANGED <<unit, attempt, split, status>>
     \/ LimiterRefuses /\ Fail
  /\ UNCHANGED <<texts, cache, ctx, batchCtx, looked, results, missing, all, offset,
                 batch, calls, sentLate>>

\* The delay passes, even when the context is done too: select picks either.
Send ==
  /\ pc = "delay"
  /\ pc' = "sent"
  /\ sentLate' = IF ctx = "done" THEN Least(sentLate + 1, 2) ELSE sentLate
  /\ UNCHANGED <<texts, cache, ctx, batchCtx, looked, results, missing, all, offset,
                 batch, unit, split, attempt, status, calls>>

DelayCancelled ==
  /\ pc = "delay" /\ Context = "done"
  /\ Fail
  /\ UNCHANGED <<texts, cache, ctx, batchCtx, looked, results, missing, all, offset,
                 batch, calls, sentLate>>

\* What is being sent: the batch, or the next line of it.
Asked == IF unit = "batch" THEN batch ELSE <<batch[Len(split) + 1]>>
Answers == [i \in DOMAIN Asked |-> Translated(texts[Asked[i]])]

\* Mutant: the right half is put before the left one.
JoinReversed(left, right) == right \o left

\* append(left, right...)
Join(left, right) == left \o right

\* HTTP 200 with as many translations as texts.
Answered ==
  /\ pc = "sent" /\ Context # "done"
  /\ calls' = calls + 1
  /\ status' = "ok"
  /\ \/ /\ unit = "batch" /\ BatchDone(Answers)
        /\ UNCHANGED <<split, attempt>>
     \/ /\ unit = "single" /\ Len(split) + 1 = Len(batch)
        /\ split' = Join(split, Answers)
        /\ BatchDone(split')
        /\ UNCHANGED attempt
     \/ /\ unit = "single" /\ Len(split) + 1 < Len(batch)
        /\ split' = Join(split, Answers)
        /\ attempt' = 0 /\ pc' = "wait"
        /\ UNCHANGED <<all, offset>>
  /\ UNCHANGED <<texts, cache, ctx, batchCtx, looked, results, missing, batch, unit,
                 sentLate>>

\* Mutant: one attempt too many.
MayRetryOnceMore == attempt <= MaxRetries

\* attempt < c.maxRetries
MayRetry == attempt < MaxRetries

\* isRetryable: HTTP 429, HTTP 5xx, or no response at all.
FailedRetryably ==
  /\ pc = "sent"
  /\ calls' = calls + 1
  /\ IF MayRetry
     THEN pc' = "backoff" /\ status' = "retryable" /\ UNCHANGED <<unit, attempt, split>>
     ELSE Fail
  /\ UNCHANGED <<texts, cache, ctx, batchCtx, looked, results, missing, all, offset,
                 batch, sentLate>>

\* Any other status, a body that cannot be read or parsed, a wrong count.
Refused ==
  /\ pc = "sent"
  /\ calls' = calls + 1
  /\ IF unit = "batch"
     THEN Fail
     ELSE pc' = "error" /\ status' = "refused" /\ UNCHANGED <<unit, attempt, split>>
  /\ UNCHANGED <<texts, cache, ctx, batchCtx, looked, results, missing, all, offset,
                 batch, sentLate>>

\* time.After(backoff)
Retry ==
  /\ pc = "backoff"
  /\ attempt' = attempt + 1
  /\ pc' = "wait"
  /\ UNCHANGED <<texts, cache, ctx, batchCtx, looked, results, missing, all, offset,
                 batch, unit, split, status, calls, sentLate>>

BackoffCancelled ==
  /\ pc = "backoff" /\ Context = "done"
  /\ Fail
  /\ UNCHANGED <<texts, cache, ctx, batchCtx, looked, results, missing, all, offset,
                 batch, calls, sentLate>>

-----------------------------------------------------------------------------
(* The environment. *)

Returned == pc \in {"ok", "error"}

\* The per-file timeout comes near or passes, or the user cancels the run.
FileContextEnds ==
  /\ ~Returned
  /\ \/ ctx = "live" /\ ctx' \in {"late", "done"}
     \/ ctx = "late" /\ ctx' = "done"
  /\ UNCHANGED <<texts, cache, batchCtx, pc, looked, results, missing, all, offset, request>>

\* The per-batch timeout; batchCancel has no effect that is seen later.
BatchContextEnds ==
  /\ pc \in {"wait", "delay", "sent", "backoff"} /\ unit = "batch"
  /\ \/ batchCtx = "live" /\ batchCtx' \in {"late", "done"}
     \/ batchCtx = "late" /\ batchCtx' = "done"
  /\ UNCHANGED <<texts, cache, ctx, pc, looked, results, missing, all, offset, request>>

\* Another worker puts a line into the cache, or an entry is pushed out of it
\* or expires.
OthersUseCache(line) ==
  /\ pc = "lookup"
  /\ \/ cache' = [k \in DOMAIN cache \cup {Normal[line]} |->
                   IF k = Normal[line] THEN Translated(line) ELSE cache[k]]
     \/ cache' = [k \in DOMAIN cache \ {Normal[line]} |-> cache[k]]
  /\ UNCHANGED <<texts, ctx, batchCtx, pc, looked, results, missing, all, offset, request>>

Call ==
  \/ LookUp \/ Looked \/ Settle
  \/ \E size \in BatchSizes : NextBatch(size)
  \/ Wait \/ Send \/ DelayCancelled
  \/ Answered \/ FailedRetryably \/ Refused
  \/ Retry \/ BackoffCancelled

Next ==
  \/ Call
  \/ FileContextEnds \/ BatchContextEnds
  \/ \E line \in Lines : OthersUseCache(line)

Spec == Init /\ [][Next]_vars

\* The call is a goroutine that is never parked for good: the limiter, the
\* timers and the HTTP client (60 s) all return.  The environment owes nothing.
FairSpec == Spec /\ WF_vars(Call)

-----------------------------------------------------------------------------
(* Properties. *)

\* Every variable keeps its type, and the call its shape: what is missing and
\* what is answered are counted by the same indices.
TypeOK ==
  /\ texts \in Inputs
  /\ DOMAIN cache \subseteq Keys /\ \A k \in DOMAIN cache : cache[k] \in Translations
  /\ ctx \in {"live", "late", "done"} /\ batchCtx \in {"live", "late", "done"}
  /\ pc \in {"lookup", "batch", "wait", "delay", "sent", "backoff", "ok", "error"}
  /\ looked \in 0..Len(texts)
  /\ results \in [DOMAIN texts -> Translations \cup {None}]
  /\ missing \in Seq(1..Len(texts)) /\ Len(missing) <= looked
  /\ all \in Seq(Translations) /\ Len(all) = offset
  /\ offset \in 0..Len(missing)
  /\ batch \in Seq(1..Len(texts))
  /\ unit \in {"batch", "single"}
  /\ split \in Seq(Translations) /\ Len(split) <= Len(batch)
  /\ attempt \in 0..MaxRetries
  /\ status \in {"none", "ok", "retryable", "refused"}
  /\ calls \in Nat /\ sentLate \in 0..2

\* translate.go:32-35: a call that succeeds returns, for every line it sent,
\* that line's own translation (over batches of changing sizes, batches that
\* fell back to single lines, repeated lines), and for the others that of a
\* line with the same cache key.
EveryLineItsTranslation ==
  pc = "ok" =>
    /\ \A j \in DOMAIN missing : results[missing[j]] = Translated(texts[missing[j]])
    /\ \A i \in DOMAIN texts : Fits(Normal[texts[i]], results[i])

\* translate.go:34: whatever happens, the cache every worker shares never holds
\* the translation of one line under the key of another.
CacheHoldsOwnTranslations ==
  \A k \in DOMAIN cache : Fits(k, cache[k])

\* translate.go:71-72: a call fails for the file's context, or because a line
\* sent on its own was refused or used up its attempts; a batch that failed or
\* timed out is never a reason.
FailureIsOfALine ==
  pc = "error" => \/ ctx # "live"
                  \/ unit = "single" /\ (status = "refused" \/ attempt = MaxRetries)

\* retry.go:16-60: a call costs at most MaxRetries + 1 requests for every batch
\* and for every line of a batch that failed.
RequestsBounded ==
  calls <= (MaxRetries + 1) * 2 * Len(missing)

\* retry.go:129-148: once the file's context is done, at most the request
\* already past the rate limiter is begun.
CancelStopsRequests == sentLate <= 1

\* Every call of TranslateTexts returns.
CallReturns == <>Returned
=============================================================================
