---------------------------- MODULE TokenBucket ----------------------------
(***************************************************************************)
(* The rate limiter of POST /search: one client's token bucket in Redis,   *)
(* which several API threads spend from.  A thread samples its own clock   *)
(* and sends it to Redis, where the script runs atomically, but later and  *)
(* perhaps in another order.                                               *)
(*                                                                         *)
(* Tokens are counted in the time that refills them, so that a bucket      *)
(* gains one per tick and refill_per_sec is 1 tick per tick.               *)
(***************************************************************************)
EXTENDS Naturals

CONSTANTS
    Threads,    \* API threads, over all instances, serving this client
    Capacity,   \* rate_limit_capacity, in ticks
    Cost,       \* what one request spends, in ticks
    Horizon     \* bound on the clock

ASSUME ConstantsAssumption ==
    Capacity \in Nat /\ Cost \in Nat \ {0} /\ Horizon \in Nat

VARIABLES
    clock,      \* real time
    bucket,     \* the Redis hash with its expiry, and who wrote it last
    thread,     \* check_rate_limit as each thread executes it
    admitted,   \* history: what the script has let through
    drift       \* history: how far the samples ran behind

vars == <<clock, bucket, thread, admitted, drift>>

Thread == [pc : {"idle", "sampled", "denied"}, now : Nat, wait : Nat]
Bucket == [tokens : Nat, ts : Nat, expires : Nat, by : Threads \cup {"nobody"}]

Init ==
    /\ clock    = 0
    /\ bucket   = [tokens |-> Capacity, ts |-> 0, expires |-> 0, by |-> "nobody"]
    /\ thread   = [r \in Threads |-> [pc |-> "idle", now |-> 0, wait |-> 0]]
    /\ admitted = 0
    /\ drift    = 0

\* Redis treats a key as absent once its time to live has passed.
Live == clock < bucket.expires

\* Mutants: no max(0, ...); a bucket that expires before it is full.
Difference(ts, now) == now - ts
Elapsed(ts, now)    == IF now > ts THEN now - ts ELSE 0

HalfTtl == clock + Capacity \div 2
Expiry  == clock + Capacity

Least(a, b) == IF a < b THEN a ELSE b

Refilled(now) ==
    IF Live THEN Least(Capacity, bucket.tokens + Elapsed(bucket.ts, now)) ELSE Capacity

\* Mutants: a denied request empties the bucket; the wait ignores what is left.
Emptied(tokens)   == IF tokens >= Cost THEN tokens - Cost ELSE 0
Remaining(tokens) == IF tokens >= Cost THEN tokens - Cost ELSE tokens

LeftWait(tokens)   == tokens
RetryAfter(tokens) == Cost - tokens

\* History: the time the script sees twice because of this sample.
Setback(now) ==
    IF ~Live THEN clock - now ELSE IF bucket.ts > now THEN bucket.ts - now ELSE 0

Sample(r) ==
    /\ thread[r].pc \in {"idle", "denied"}
    /\ thread' = [thread EXCEPT ![r] = [pc |-> "sampled", now |-> clock, wait |-> 0]]
    /\ UNCHANGED <<clock, bucket, admitted, drift>>

\* The whole script, run with the sampled time.
Script(r) ==
    LET now == thread[r].now IN
    /\ bucket' = [tokens |-> Remaining(Refilled(now)), ts |-> now,
                  expires |-> Expiry, by |-> r]
    /\ admitted' = IF Refilled(now) >= Cost THEN admitted + Cost ELSE admitted
    /\ drift' = drift + Setback(now)

\* The endpoint answers 429 with the wait, counted from now, and the client
\* may ask again whenever it likes.
Check(r) ==
    /\ thread[r].pc = "sampled"
    /\ Script(r)
    /\ thread' = [thread EXCEPT ![r] =
           IF Refilled(@.now) >= Cost
           THEN [pc |-> "idle", now |-> 0, wait |-> 0]
           ELSE [pc |-> "denied", now |-> clock, wait |-> RetryAfter(Refilled(@.now))]]
    /\ UNCHANGED clock

\* Redis cannot be reached, or its answer is lost: the request goes through.
FailOpen(r) ==
    /\ thread[r].pc = "sampled"
    /\ Script(r) \/ UNCHANGED <<bucket, admitted, drift>>
    /\ thread' = [thread EXCEPT ![r] = [pc |-> "idle", now |-> 0, wait |-> 0]]
    /\ UNCHANGED clock

Tick ==
    /\ clock < Horizon
    /\ clock' = clock + 1
    /\ UNCHANGED <<bucket, thread, admitted, drift>>

Next == Tick \/ \E r \in Threads : Sample(r) \/ Check(r) \/ FailOpen(r)

Spec == Init /\ [][Next]_vars

-----------------------------------------------------------------------------
(* Properties.                                                             *)

\* Every variable keeps its type: no bucket goes below zero or above capacity.
TypeOK ==
    /\ clock \in Nat
    /\ bucket \in Bucket /\ bucket.tokens <= Capacity
    /\ thread \in [Threads -> Thread]
    /\ admitted \in Nat
    /\ drift \in Nat

\* The limiter admits a full bucket and one token per refill interval, plus the
\* refill of the time that late samples make it count twice, and no more: the
\* script is atomic, and a bucket only expires when it would have been full.
AdmissionIsBounded == admitted <= Capacity + clock + drift

\* No token is lost, whatever the order of the scripts: one that is missing
\* from the bucket has let a request through.
NoTokenIsLost == Live => bucket.tokens + admitted >= Capacity

\* A client that waits as long as Retry-After says is let through, unless
\* another request reached the bucket first.
RetryAfterSuffices ==
    \A r \in Threads :
        /\ thread[r].pc = "denied" /\ bucket.by = r
        /\ clock >= thread[r].now + thread[r].wait
        /\ Capacity >= Cost
        => Refilled(clock) >= Cost

\* The bound of the concurrency test: capacity, plus what refilled while the
\* requests ran, plus one.
TheoreticalMaximum == admitted <= Capacity + clock + Cost
=============================================================================
