------------------------------- MODULE Backoff -------------------------------
(***************************************************************************)
(* How long RetryTransport of services/retry.go waits before it sends a    *)
(* request again. time.Duration is an int64 of nanoseconds.                *)
(***************************************************************************)
EXTENDS Integers

CONSTANTS
    MaxInt64,                  \* the largest int64
    Second,                    \* a second, in units of time.Duration
    InitialBackoff, MaxBackoff,  \* options of the transport
    defaultInitialBackoff, defaultMaxBackoff,
    maxBackoffShift, jitterDivisor,
    PowerOfTwo                 \* PowerOfTwo[k] = 1 << k

initialBackoff == IF InitialBackoff <= 0 THEN defaultInitialBackoff ELSE InitialBackoff
maxBackoff     == IF MaxBackoff <= 0 THEN defaultMaxBackoff ELSE MaxBackoff

(* The options the client sets keep the products and the jitter in 64 bits.  *)
ASSUME BackoffAssumption ==
    /\ {InitialBackoff, MaxBackoff} \subseteq Int
    /\ {MaxInt64, Second, defaultInitialBackoff, defaultMaxBackoff, jitterDivisor}
          \subseteq Nat \ {0}
    /\ maxBackoffShift \in Nat
    /\ PowerOfTwo \in [0 .. maxBackoffShift -> Nat \ {0}]
    /\ \A j, k \in 0 .. maxBackoffShift : j <= k => PowerOfTwo[j] <= PowerOfTwo[k]
    /\ \A k \in 0 .. maxBackoffShift : initialBackoff * PowerOfTwo[k] <= MaxInt64
    /\ maxBackoff + maxBackoff <= MaxInt64

Int64  == -MaxInt64 - 1 .. MaxInt64
Headed == {"429", "503"}   \* the statuses whose Retry-After is read

(* What a Retry-After header says: nothing that parses, a number of seconds, *)
(* or a date, which time.Until makes a duration that saturates.              *)
Header == {[kind |-> "none", value |-> 0]}
            \cup [kind : {"seconds", "date"}, value : Int64]

(* The low 64 bits of a product.                                             *)
Truncated(x) ==
    IF x \in Int64 THEN x ELSE ((x + MaxInt64 + 1) % (2 * (MaxInt64 + 1))) - (MaxInt64 + 1)

parseRetryAfter(h) ==
    IF h.kind = "seconds" /\ h.value > 0 THEN Truncated(h.value * Second)
    ELSE IF h.kind = "date" /\ h.value > 0 THEN h.value
    ELSE 0

AtMost(x, y) == IF x < y THEN x ELSE y
AtLeast(x, y) == IF x > y THEN x ELSE y

(* Without a Retry-After: doubled with each attempt, up to a quarter more.   *)
exponential(attempt) ==
    LET shift   == AtLeast(0, AtMost(attempt - 1, maxBackoffShift))
        backoff == AtMost(initialBackoff * PowerOfTwo[shift], maxBackoff)
        bound   == AtLeast(1, backoff \div jitterDivisor)
    IN  {backoff + jitter : jitter \in 0 .. bound - 1}

(* Mutant: a product that wrapped around is taken for a wait.                *)
WrapTaken(attempt, status, h) ==
    LET asked == IF status \in Headed THEN parseRetryAfter(h) ELSE 0
    IN  {AtMost(d, maxBackoff) : d \in IF asked # 0 THEN {asked} ELSE exponential(attempt)}

(* Mutant: what the appliance asks for is not looked at.                     *)
RetryAfterIgnored(attempt, status, h) ==
    {AtMost(d, maxBackoff) : d \in exponential(attempt)}

(* The waits that calculateBackoff may choose.                               *)
calculateBackoff(attempt, status, h) ==
    LET asked == IF status \in Headed THEN parseRetryAfter(h) ELSE 0
    IN  {AtMost(d, maxBackoff) : d \in IF asked > 0 THEN {asked} ELSE exponential(attempt)}

-----------------------------------------------------------------------------
(* Every wait is positive and within the cap, whatever the header says, also *)
(* when its seconds do not fit a Duration.                                   *)
WaitsWithin(attempt, status, h) ==
    \A d \in calculateBackoff(attempt, status, h) : 0 < d /\ d <= maxBackoff

(* A wait the appliance asks for, and that the cap allows, is kept exactly;  *)
(* without one the wait is at least the doubled backoff or the cap.          *)
WaitsAsAsked(attempt, status, h) ==
    \A d \in calculateBackoff(attempt, status, h) :
        /\ (status \in Headed /\ h.kind = "seconds" /\ h.value > 0
               /\ h.value * Second <= maxBackoff) => d = h.value * Second
        /\ (status \in Headed /\ h.kind = "date" /\ 0 < h.value /\ h.value <= maxBackoff)
              => d = h.value
        /\ (status \notin Headed \/ h.value <= 0) => \A k \in 0 .. maxBackoffShift :
              attempt > k => d >= AtMost(initialBackoff * PowerOfTwo[k], maxBackoff)
=============================================================================
