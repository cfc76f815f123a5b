------------------------- MODULE TokenBucketProofs -------------------------
(* The token bucket's bounds, for every capacity, cost and number of        *)
(* threads.                                                                 *)
EXTENDS TokenBucket, TLAPS

\* A sample is never ahead of the clock.
SampledBefore == \A r \in Threads : thread[r].now <= clock

\* The script set the expiry a whole capacity after the time it was given, if
\* it ever ran.
ExpiresWhenFull ==
    \/ bucket.expires >= bucket.ts + Capacity
    \/ bucket.expires = 0 /\ bucket.ts = 0 /\ bucket.tokens = Capacity

\* AdmissionIsBounded alone is not inductive: what is left in the bucket can
\* still be admitted, and it is paid for by the time the script knows of.
Ledger == admitted + bucket.tokens <= Capacity + bucket.ts + drift

BucketInv == /\ TypeOK /\ SampledBefore /\ ExpiresWhenFull
             /\ bucket.ts <= clock /\ Ledger /\ NoTokenIsLost

\* The invariant holds before the first request.
LEMMA BucketInit == Init => BucketInv
  BY ConstantsAssumption DEF Init, BucketInv, TypeOK, Bucket, Thread, SampledBefore,
     ExpiresWhenFull, Ledger, NoTokenIsLost, Live

\* One run of the script.
LEMMA ScriptStep ==
    ASSUME BucketInv, NEW r \in Threads, Script(r), clock' = clock
    PROVE  /\ bucket' \in Bucket /\ bucket'.tokens <= Capacity
           /\ admitted' \in Nat /\ drift' \in Nat
           /\ ExpiresWhenFull' /\ bucket'.ts <= clock /\ Ledger' /\ NoTokenIsLost'
<1> DEFINE now == thread[r].now
<1> USE ConstantsAssumption
<1>0. /\ now \in Nat /\ now <= clock /\ clock \in Nat /\ admitted \in Nat /\ drift \in Nat
      /\ bucket.tokens \in Nat /\ bucket.ts \in Nat /\ bucket.expires \in Nat
      /\ bucket.tokens <= Capacity /\ bucket.ts <= clock
  BY DEF BucketInv, TypeOK, Bucket, Thread, SampledBefore
<1>1. /\ Refilled(now) \in Nat /\ Refilled(now) <= Capacity
      /\ Setback(now) \in Nat
  BY <1>0 DEF Refilled, Least, Elapsed, Setback
<1>2. /\ Remaining(Refilled(now)) \in Nat /\ Remaining(Refilled(now)) <= Capacity
      /\ admitted' \in Nat
      /\ admitted' + Remaining(Refilled(now)) = admitted + Refilled(now)
  BY <1>0, <1>1 DEF Script, Remaining
<1>3. /\ bucket'.tokens = Remaining(Refilled(now)) /\ bucket'.ts = now
      /\ bucket'.expires = clock + Capacity /\ drift' = drift + Setback(now)
  BY DEF Script, Expiry
<1>4. bucket' \in Bucket
  BY <1>0, <1>2 DEF Script, Expiry, Bucket
<1>5. admitted + Refilled(now) <= Capacity + now + drift + Setback(now)
  <2> USE <1>0 DEF BucketInv, Ledger, ExpiresWhenFull
  <2>1. CASE Live
    BY <2>1 DEF Refilled, Least, Elapsed, Setback
  <2>2. CASE ~Live
    BY <2>2 DEF Refilled, Setback, Live
  <2>. QED
    BY <2>1, <2>2
<1>6. Refilled(now) + admitted >= Capacity
  <2>1. CASE Live
    BY <2>1, <1>0 DEF BucketInv, NoTokenIsLost, Refilled, Least, Elapsed
  <2>2. CASE ~Live
    BY <2>2, <1>0 DEF Refilled
  <2>. QED
    BY <2>1, <2>2
<1>7. Ledger'
  BY <1>0, <1>1, <1>2, <1>3, <1>5 DEF Ledger
<1>8. NoTokenIsLost'
  BY <1>0, <1>1, <1>2, <1>3, <1>6 DEF NoTokenIsLost
<1>. QED
  BY <1>0, <1>1, <1>2, <1>3, <1>4, <1>7, <1>8 DEF ExpiresWhenFull

\* Every step keeps the invariant.
LEMMA BucketNext == BucketInv /\ [Next]_vars => BucketInv'
<1> SUFFICES ASSUME BucketInv, [Next]_vars PROVE BucketInv'
  OBVIOUS
<1> USE ConstantsAssumption
<1>0. /\ clock \in Nat /\ admitted \in Nat /\ drift \in Nat /\ bucket \in Bucket
      /\ bucket.tokens \in Nat /\ bucket.ts \in Nat /\ bucket.expires \in Nat
      /\ \A r \in Threads : thread[r] \in Thread /\ thread[r].now \in Nat
  BY DEF BucketInv, TypeOK, Bucket, Thread
<1>1. CASE Tick
  BY <1>0, <1>1 DEF Tick, BucketInv, TypeOK, SampledBefore, ExpiresWhenFull, Ledger,
     NoTokenIsLost, Live
<1>2. ASSUME NEW r \in Threads, Sample(r) PROVE BucketInv'
  <2>1. thread' \in [Threads -> Thread] /\ SampledBefore'
    BY <1>0, <1>2 DEF Sample, BucketInv, TypeOK, Thread, SampledBefore
  <2>. QED
    BY <1>0, <1>2, <2>1 DEF Sample, BucketInv, TypeOK, ExpiresWhenFull, Ledger,
       NoTokenIsLost, Live
<1>3. ASSUME NEW r \in Threads, Check(r) PROVE BucketInv'
  <2>1. Refilled(thread[r].now) \in Nat
    BY <1>0 DEF Refilled, Least, Elapsed
  <2>2. thread' \in [Threads -> Thread] /\ SampledBefore'
    BY <1>0, <1>3, <2>1 DEF Check, BucketInv, TypeOK, Thread, SampledBefore, RetryAfter
  <2>. QED
    BY <1>0, <1>3, <2>2, ScriptStep DEF Check, BucketInv, TypeOK
<1>4. ASSUME NEW r \in Threads, FailOpen(r) PROVE BucketInv'
  <2>1. thread' \in [Threads -> Thread] /\ SampledBefore'
    BY <1>0, <1>4 DEF FailOpen, BucketInv, TypeOK, Thread, SampledBefore
  <2>2. CASE Script(r)
    BY <1>0, <1>4, <2>1, <2>2, ScriptStep DEF FailOpen, BucketInv, TypeOK
  <2>3. CASE UNCHANGED <<bucket, admitted, drift>>
    BY <1>0, <1>4, <2>1, <2>3 DEF FailOpen, BucketInv, TypeOK, ExpiresWhenFull, Ledger,
       NoTokenIsLost, Live
  <2>. QED
    BY <1>4, <2>2, <2>3 DEF FailOpen
<1>5. CASE UNCHANGED vars
  BY <1>5 DEF vars, BucketInv, TypeOK, SampledBefore, ExpiresWhenFull, Ledger,
     NoTokenIsLost, Live
<1>. QED
  BY <1>1, <1>2, <1>3, <1>4, <1>5 DEF Next

\* The Redis script keeps the inductive invariant, whatever the order in which
\* it gets the samples.
THEOREM BucketInvariant == Spec => []BucketInv
  BY BucketInit, BucketNext, PTL DEF Spec

\* The bucket never admits more than its capacity and one token per refill
\* interval, but for the time that late samples make the script count twice.
THEOREM AdmissionBound == Spec => []AdmissionIsBounded
<1>1. BucketInv => AdmissionIsBounded
  BY ConstantsAssumption DEF BucketInv, TypeOK, Bucket, Ledger, AdmissionIsBounded
<1>. QED
  BY <1>1, BucketInvariant, PTL

\* Whatever the order in which the scripts run, no token is lost.
THEOREM TokensAreKept == Spec => []NoTokenIsLost
<1>1. BucketInv => NoTokenIsLost
  BY DEF BucketInv
<1>. QED
  BY <1>1, BucketInvariant, PTL

\* The bucket is never overdrawn and never over capacity.
THEOREM BucketTypes == Spec => []TypeOK
<1>1. BucketInv => TypeOK
  BY DEF BucketInv
<1>. QED
  BY <1>1, BucketInvariant, PTL

\* What a denied client was told covers what the bucket lacked, from no earlier
\* than the time the bucket knows of.
Told == \A r \in Threads :
            thread[r].pc = "denied" /\ bucket.by = r
            => bucket.ts <= thread[r].now /\ bucket.tokens + thread[r].wait >= Cost

\* Every step keeps it: any later script makes another thread the last writer.
LEMMA ToldNext == BucketInv /\ Told /\ [Next]_vars => Told'
<1> SUFFICES ASSUME BucketInv, Told, [Next]_vars,
                    NEW r \in Threads, thread'[r].pc = "denied", bucket'.by = r
             PROVE  bucket'.ts <= thread'[r].now /\ bucket'.tokens + thread'[r].wait >= Cost
  BY DEF Told
<1>0. /\ thread \in [Threads -> Thread] /\ thread[r].now <= clock /\ Cost \in Nat
      /\ Refilled(thread[r].now) \in Nat
  BY ConstantsAssumption DEF BucketInv, TypeOK, Bucket, Thread, SampledBefore, Refilled, Least, Elapsed
<1>1. ASSUME NEW q \in Threads, Check(q)
      PROVE  bucket'.ts <= thread'[r].now /\ bucket'.tokens + thread'[r].wait >= Cost
  <2>1. q = r
    BY <1>1 DEF Check, Script
  <2>2. ~(Refilled(thread[r].now) >= Cost)
    BY <1>0, <1>1, <2>1 DEF Check
  <2>3. /\ thread'[r].now = clock /\ thread'[r].wait = Cost - Refilled(thread[r].now)
        /\ bucket'.ts = thread[r].now /\ bucket'.tokens = Refilled(thread[r].now)
    BY <1>0, <1>1, <2>1, <2>2 DEF Check, Script, RetryAfter, Remaining
  <2>. QED
    BY <1>0, <2>3
<1>2. ASSUME NEW q \in Threads, Sample(q)
      PROVE  bucket'.ts <= thread'[r].now /\ bucket'.tokens + thread'[r].wait >= Cost
  <2>1. q # r /\ thread'[r] = thread[r]
    BY <1>0, <1>2 DEF Sample
  <2>. QED
    BY <1>2, <2>1 DEF Sample, Told
<1>3. ASSUME NEW q \in Threads, FailOpen(q)
      PROVE  bucket'.ts <= thread'[r].now /\ bucket'.tokens + thread'[r].wait >= Cost
  <2>1. q # r /\ thread'[r] = thread[r]
    BY <1>0, <1>3 DEF FailOpen
  <2>2. UNCHANGED bucket
    BY <1>3, <2>1 DEF FailOpen, Script
  <2>. QED
    BY <2>1, <2>2 DEF Told
<1>4. CASE Tick
  BY <1>4 DEF Tick, Told
<1>5. CASE UNCHANGED vars
  BY <1>5 DEF vars, Told
<1>. QED
  BY <1>1, <1>2, <1>3, <1>4, <1>5 DEF Next

\* A client that waits as long as Retry-After says is let through, unless another
\* request reached the bucket first, however late its own sample was.
THEOREM RetryAfterIsEnough == Spec => []RetryAfterSuffices
<1>1. Init => Told
  BY DEF Init, Told
<1>2. BucketInv /\ Told => RetryAfterSuffices
  <2> SUFFICES ASSUME BucketInv, Told,
                      NEW r \in Threads, thread[r].pc = "denied", bucket.by = r,
                      clock >= thread[r].now + thread[r].wait, Capacity >= Cost
               PROVE  Refilled(clock) >= Cost
    BY DEF RetryAfterSuffices
  <2>1. /\ bucket.ts <= thread[r].now /\ bucket.tokens + thread[r].wait >= Cost
        /\ bucket.ts \in Nat /\ bucket.tokens \in Nat /\ clock \in Nat
        /\ thread[r].now \in Nat /\ thread[r].wait \in Nat
        /\ Capacity \in Nat /\ Cost \in Nat
    BY ConstantsAssumption DEF Told, BucketInv, TypeOK, Bucket, Thread
  <2>. QED
    BY <2>1 DEF Refilled, Least, Elapsed
<1>. QED
  BY <1>1, <1>2, ToldNext, BucketInvariant, PTL DEF Spec
=============================================================================
