----------------------------- MODULE RateLimits -----------------------------
(***************************************************************************)
(* The rate limiter of the public API and the quotas built on it.  A       *)
(* request passes the counters of its principal one after the other and,   *)
(* for an upload, the count of documents.  The in-memory backend is a      *)
(* token bucket per counter under one lock; the Redis backend increments a *)
(* key, asks for its TTL and sets it, in three calls.                      *)
(***************************************************************************)
EXTENDS Integers, FiniteSets, FiniteSetsExt

CONSTANTS Callers,
          MinuteLimit, MonthLimit,   \* entitlements.calls_per_minute, calls_per_month
          MinuteWindow, MonthWindow,
          CleanupInterval,
          MaxDocuments,      \* entitlements.max_documents
          MaxTime,           \* bound: ticks
          MaxAsked,          \* bound: requests
          MaxLimiterFaults   \* bound: errors and crashes

ASSUME LimitAssumption ==
    /\ {MinuteLimit, MonthLimit} \subseteq Nat \ {0} /\ MaxDocuments \in Nat
    /\ MinuteWindow \in Nat \ {0} /\ MonthWindow \in Nat /\ MinuteWindow < MonthWindow
    /\ CleanupInterval \in Nat /\ MaxTime \in Nat /\ MaxAsked \in Nat
    /\ MaxLimiterFaults \in Nat
    /\ IsFiniteSet(Callers) /\ Callers # {}

Counters == {"minute", "month"}
Window(k) == IF k = "minute" THEN MinuteWindow ELSE MonthWindow

Limit(k) == IF k = "minute" THEN MinuteLimit ELSE MonthLimit

VARIABLES backend,       \* what _build_backend chose
          now,
          buckets,       \* InMemoryBackend._buckets; tokens in units of 1 / window
          lastCleanup,
          count, ttl,    \* the Redis key and its TTL, -1 for none
          asking,        \* where each request is
          documents,     \* rows the uploads of this principal made
          asked,         \* requests so far
          granted,       \* ghost: grants of calls_per_minute until the end of each tick
          lastDone,      \* ghost: when the last check of a counter completed
          broken,        \* ghost: a check was cut short since
          verdict,       \* ghost: the last decision of a counter
          limiterFaults

limitVars == <<backend, now, buckets, lastCleanup, count, ttl, asking, documents, asked,
               granted, lastDone, broken, verdict, limiterFaults>>
ghosts == <<granted, lastDone, broken, verdict>>

NoBucket == [tokens |-> -1, last |-> 0]
FullTokens(k) == Limit(k) * Window(k)
NoVerdict == [counter |-> "minute", allowed |-> TRUE, quiet |-> FALSE]

LimitInit ==
    /\ backend \in {"memory", "redis"}
    /\ now = 0
    /\ buckets = [k \in Counters |-> NoBucket]
    /\ lastCleanup = 0
    /\ count = 0 /\ ttl = -1
    /\ asking = [r \in Callers |-> "idle"]
    /\ documents = 0
    /\ granted = [t \in 0 .. MaxTime |-> 0]
    /\ asked = 0
    /\ lastDone = [k \in Counters |-> -MonthWindow]
    /\ broken = FALSE
    /\ verdict = NoVerdict
    /\ limiterFaults = 0

LimiterFault == /\ limiterFaults < MaxLimiterFaults
                /\ limiterFaults' = limiterFaults + 1
Go(r, at) == asking' = [asking EXCEPT ![r] = at]

\* Time passes; a Redis key whose TTL runs out is gone.
LimitTick ==
    /\ now < MaxTime
    /\ now' = now + 1
    /\ ttl' = IF ttl > 1 THEN ttl - 1 ELSE -1
    /\ count' = IF ttl = 1 THEN 0 ELSE count
    /\ granted' = [granted EXCEPT ![now + 1] = granted[now]]
    /\ UNCHANGED <<backend, buckets, lastCleanup, asking, documents, asked, lastDone, broken, verdict,
                   limiterFaults>>

\* The decision on counter k; done once the check has run to its end.
Decide(k, allowed, done) ==
    /\ verdict' = [counter |-> k, allowed |-> allowed,
                   quiet |-> ~broken /\ now - lastDone[k] >= Window(k)]
    /\ granted' = IF allowed /\ k = "minute" THEN [granted EXCEPT ![now] = @ + 1] ELSE granted
    /\ lastDone' = IF done THEN [lastDone EXCEPT ![k] = now] ELSE lastDone
    /\ broken' = ~done

----------------------------------------------------------------------------
\* InMemoryBackend

\* _refill_tokens.
Refilled(k, b) == Min({FullTokens(k), b.tokens + (now - b.last) * Limit(k)})

\* _get_or_create_bucket.
BucketAt(bs, k) ==
    IF bs[k] = NoBucket THEN [tokens |-> FullTokens(k), last |-> now] ELSE bs[k]

\* _cleanup_stale_buckets measures idleness by the window of the caller.
CleanedUp(k) ==
    [j \in Counters |-> IF now - buckets[j].last > 2 * Window(k) THEN NoBucket ELSE buckets[j]]

CheckMemory(r, k, next) ==
    /\ backend = "memory" /\ asking[r] = k
    /\ LET due == now - lastCleanup > CleanupInterval
           kept == IF due THEN CleanedUp(k) ELSE buckets
           tokens == Refilled(k, BucketAt(kept, k))
           allowed == tokens >= Window(k)
       IN /\ buckets' = [kept EXCEPT ![k] = [tokens |-> tokens - (IF allowed THEN Window(k) ELSE 0),
                                             last |-> now]]
          /\ lastCleanup' = IF due THEN now ELSE lastCleanup
          /\ Go(r, IF allowed THEN next ELSE "idle")
          /\ Decide(k, allowed, TRUE)
    /\ UNCHANGED <<backend, now, count, ttl, asked, documents, limiterFaults>>

----------------------------------------------------------------------------
\* RedisBackend, with a limit on calls per minute

\* INCR.
\* Mutant: the limit is compared with the count before the call.
IncrAfter(r) ==
    /\ backend = "redis" /\ asking[r] = "minute"
    /\ count' = count + 1
    /\ Go(r, IF count <= MinuteLimit THEN "ttl_allowed" ELSE "ttl_denied")
    /\ Decide("minute", count <= MinuteLimit, FALSE)
    /\ UNCHANGED <<backend, now, buckets, lastCleanup, ttl, asked, documents, limiterFaults>>
Incr(r) ==
    /\ backend = "redis" /\ asking[r] = "minute"
    /\ count' = count + 1
    /\ Go(r, IF count + 1 <= MinuteLimit THEN "ttl_allowed" ELSE "ttl_denied")
    /\ Decide("minute", count + 1 <= MinuteLimit, FALSE)
    /\ UNCHANGED <<backend, now, buckets, lastCleanup, ttl, asked, documents, limiterFaults>>

CheckDone(r) ==
    /\ Go(r, "idle")
    /\ lastDone' = [lastDone EXCEPT !["minute"] = now]
    /\ broken' = \E q \in Callers \ {r} : asking[q] \notin {"idle", "minute"}

\* TTL, and whether it has to be set.
\* Mutant: only the call that created the key sets its TTL.
AskTtlFirst(r) ==
    /\ asking[r] \in {"ttl_allowed", "ttl_denied"}
    /\ IF count = 1 THEN Go(r, "expire") /\ UNCHANGED <<lastDone, broken>> ELSE CheckDone(r)
    /\ UNCHANGED <<backend, now, buckets, lastCleanup, count, ttl, asked, documents, granted, verdict,
                   limiterFaults>>
AskTtl(r) ==
    /\ asking[r] \in {"ttl_allowed", "ttl_denied"}
    /\ IF ttl < 0 THEN Go(r, "expire") /\ UNCHANGED <<lastDone, broken>> ELSE CheckDone(r)
    /\ UNCHANGED <<backend, now, buckets, lastCleanup, count, ttl, asked, documents, granted, verdict,
                   limiterFaults>>

\* EXPIRE, without effect on a key that is gone.
Expire(r) ==
    /\ asking[r] = "expire"
    /\ ttl' = IF count = 0 THEN -1 ELSE MinuteWindow
    /\ CheckDone(r)
    /\ UNCHANGED <<backend, now, buckets, lastCleanup, count, asked, documents, granted, verdict,
                   limiterFaults>>

\* The process dies, or the connection breaks, between two calls of Redis.
CutShort(r) ==
    /\ asking[r] \in {"ttl_allowed", "ttl_denied", "expire"}
    /\ LimiterFault
    /\ Go(r, "idle")
    /\ broken' = TRUE
    /\ UNCHANGED <<backend, now, buckets, lastCleanup, count, ttl, asked, documents, granted, lastDone,
                   verdict>>

----------------------------------------------------------------------------
\* check_quota

Ask(r) ==
    /\ asking[r] = "idle" /\ asked < MaxAsked
    /\ asked' = asked + 1
    /\ Go(r, "minute")
    /\ UNCHANGED <<backend, now, buckets, lastCleanup, count, ttl, documents, ghosts, limiterFaults>>

\* _check_counter: an error of the backend lets the request pass.
CounterError(r, k, next) ==
    /\ asking[r] = k
    /\ LimiterFault
    /\ Go(r, IF backend = "redis" THEN "idle" ELSE next)
    /\ UNCHANGED <<backend, now, buckets, lastCleanup, count, ttl, documents, asked, ghosts>>

\* _check_max_documents of an upload; other calls are done here.
BelowMaximum == documents < MaxDocuments
CountDocuments(r) ==
    /\ asking[r] = "documents"
    /\ \/ Go(r, "idle")
       \/ Go(r, IF BelowMaximum THEN "upload" ELSE "idle")
    /\ UNCHANGED <<backend, now, buckets, lastCleanup, count, ttl, documents, asked, ghosts, limiterFaults>>
CountFails(r) ==
    /\ asking[r] = "documents"
    /\ LimiterFault
    /\ Go(r, "upload")
    /\ UNCHANGED <<backend, now, buckets, lastCleanup, count, ttl, documents, asked, ghosts>>

\* intake_document makes the row.
CreateDocument(r) ==
    /\ asking[r] = "upload"
    /\ documents' = documents + 1
    /\ Go(r, "idle")
    /\ UNCHANGED <<backend, now, buckets, lastCleanup, count, ttl, asked, ghosts, limiterFaults>>

LimitNext ==
    \/ LimitTick
    \/ \E r \in Callers :
          \/ Ask(r)
          \/ CheckMemory(r, "minute", "month") \/ CheckMemory(r, "month", "documents")
          \/ CounterError(r, "minute", "month") \/ CounterError(r, "month", "documents")
          \/ Incr(r) \/ AskTtl(r) \/ Expire(r) \/ CutShort(r)
          \/ CountDocuments(r) \/ CountFails(r) \/ CreateDocument(r)

LimitSpec == LimitInit /\ [][LimitNext]_limitVars

----------------------------------------------------------------------------
\* Properties

\* The state has its type; a bucket never holds more than its capacity.
LimitTypeOK ==
    /\ now \in 0 .. MaxTime /\ lastCleanup \in 0 .. now
    /\ \A k \in Counters : buckets[k].tokens \in -1 .. FullTokens(k) /\ buckets[k].last \in 0 .. now
    /\ count \in Nat /\ ttl \in -1 .. MinuteWindow /\ documents \in Nat
    /\ limiterFaults \in 0 .. MaxLimiterFaults

GrantedUntil(t) == IF t < 0 THEN 0 ELSE granted[t]
GrantsWithinMinute(t) == GrantedUntil(t) - GrantedUntil(t - MinuteWindow)

\* No span of a minute sees more than twice calls_per_minute, with either
\* backend, whatever checks overlap or are cut short between two Redis calls.
BurstBounded == \A t \in 0 .. now : GrantsWithinMinute(t) <= 2 * MinuteLimit

\* A principal that made no call for the length of the window, the last check
\* having run to its end, is served: a Redis key left without TTL by a crash
\* is given one by the next check.
QuietIsServed == verdict.quiet /\ verdict.counter = "minute" => verdict.allowed

\* Uploads that race past _check_max_documents exceed it by no more than the
\* requests in flight and the checks that failed open.
OvershootBounded ==
    documents + Cardinality({r \in Callers : asking[r] = "upload"})
        <= MaxDocuments + Cardinality(Callers) - 1 + limiterFaults

\* What the limits are worth when checks overlap and backends fail: neither the
\* calls of a minute nor the documents of a user go past them by more than the
\* code's own slack.
LimitsHold == LimitTypeOK /\ BurstBounded /\ OvershootBounded
=============================================================================
