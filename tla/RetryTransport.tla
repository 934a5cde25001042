--------------------------- MODULE RetryTransport ---------------------------
(***************************************************************************)
(* RetryTransport of services/retry.go, as the client of services/client.go*)
(* uses it: concurrent tool calls share one transport and one limiter. A   *)
(* call sends its request, and sends it again after a backoff when the     *)
(* attempt failed in a way that may pass, whatever the HTTP method. The    *)
(* deadline of http.Client covers all attempts and the waits between them. *)
(***************************************************************************)
EXTENDS Integers, FiniteSets

CONSTANTS
    Calls,       \* the concurrent calls of RoundTrip, each made once
    MaxRetries,  \* SOLIDSERVER_MAX_RETRIES
    Limited,     \* whether SOLIDSERVER_RATE_LIMIT sets a limiter
    Burst,       \* tokens of a full bucket
    MaxRefills   \* bound: tokens the limiter gains in a behaviour

maxAttempts == IF MaxRetries + 1 < 1 THEN 1 ELSE MaxRetries + 1

ASSUME OptionAssumption ==
    /\ IsFiniteSet(Calls)
    /\ MaxRetries \in Int /\ Limited \in BOOLEAN /\ Burst \in Nat \ {0} /\ MaxRefills \in Nat

Attempts == 0 .. maxAttempts - 1
Statuses == {"ok", "reject", "busy"}  \* done; a final refusal; 429, 502, 503 or 504
Outcomes == Statuses \cup {"error"}

VARIABLES
    pc,       \* "idle", "backoff", "limit", "send", "sent", "done"
    attempt,  \* the attempt a call is at
    expired,  \* the context of the call is done: deadline passed, or cancelled
    bodies,   \* attempts of the call whose response body is open
    outcome,  \* what RoundTrip returned
    wire,     \* attempts <<c, k>> on their way to the appliance
    reply,    \* the answer on its way back to the attempt a call is at
    runs,     \* how often the appliance ran the request of a call
    tokens,   \* tokens in the limiter's bucket
    refills,  \* tokens gained so far
    started   \* attempts the base transport was asked to make

call == <<pc, attempt, bodies, outcome>>
vars == <<call, expired, wire, reply, runs, tokens, refills, started>>

TypeOK ==
    /\ pc \in [Calls -> {"idle", "backoff", "limit", "send", "sent", "done"}]
    /\ attempt \in [Calls -> Attempts]
    /\ expired \in [Calls -> BOOLEAN]
    /\ bodies \in [Calls -> SUBSET Attempts]
    /\ outcome \in [Calls -> Outcomes \cup {"none"}]
    /\ wire \subseteq Calls \X Attempts
    /\ reply \in [Calls -> Statuses \cup {"none"}]
    /\ runs \in [Calls -> Nat]
    /\ tokens \in 0 .. Burst
    /\ refills \in 0 .. MaxRefills
    /\ started \in Nat

Init ==
    /\ pc = [c \in Calls |-> "idle"]
    /\ attempt = [c \in Calls |-> 0]
    /\ expired = [c \in Calls |-> FALSE]
    /\ bodies = [c \in Calls |-> {}]
    /\ outcome = [c \in Calls |-> "none"]
    /\ wire = {}
    /\ reply = [c \in Calls |-> "none"]
    /\ runs = [c \in Calls |-> 0]
    /\ tokens = Burst
    /\ refills = 0
    /\ started = 0

-----------------------------------------------------------------------------
(* The loop of RoundTrip. *)

afterWait == IF Limited THEN "limit" ELSE "send"

Return(c, what, open) ==
    /\ pc' = [pc EXCEPT ![c] = "done"]
    /\ outcome' = [outcome EXCEPT ![c] = what]
    /\ bodies' = [bodies EXCEPT ![c] = open]
    /\ UNCHANGED attempt

(* Mutant: the body of the response being retried stays open. *)
KeepBody(c, open) ==
    /\ pc' = [pc EXCEPT ![c] = "backoff"]
    /\ attempt' = [attempt EXCEPT ![c] = @ + 1]
    /\ bodies' = [bodies EXCEPT ![c] = open]
    /\ UNCHANGED outcome

(* Mutant: a retry is not counted as an attempt. *)
RetryUncounted(c, open) ==
    /\ pc' = [pc EXCEPT ![c] = "backoff"]
    /\ bodies' = [bodies EXCEPT ![c] = open \ {attempt[c]}]
    /\ UNCHANGED <<attempt, outcome>>

(* The next iteration enters waitRetry, which closes the body of the         *)
(* response it was given before it starts to wait.                           *)
waitRetry(c, open) ==
    /\ pc' = [pc EXCEPT ![c] = "backoff"]
    /\ attempt' = [attempt EXCEPT ![c] = @ + 1]
    /\ bodies' = [bodies EXCEPT ![c] = open \ {attempt[c]}]
    /\ UNCHANGED outcome

lastAttempt(c) == attempt[c] = maxAttempts - 1

(* A body that cannot be read, or is too long, fails before any attempt.     *)
RoundTrip(c) ==
    /\ pc[c] = "idle"
    /\ \/ Return(c, "error", bodies[c])
       \/ pc' = [pc EXCEPT ![c] = afterWait] /\ UNCHANGED <<attempt, bodies, outcome>>
    /\ UNCHANGED <<expired, wire, reply, runs, tokens, refills, started>>

(* The select of waitRetry: either ready case may be taken.                  *)
BackoffOver(c) ==
    /\ pc[c] = "backoff"
    /\ pc' = [pc EXCEPT ![c] = afterWait]
    /\ UNCHANGED <<attempt, bodies, outcome>>
    /\ UNCHANGED <<expired, wire, reply, runs, tokens, refills, started>>

BackoffCancelled(c) ==
    /\ pc[c] = "backoff" /\ expired[c]
    /\ Return(c, "error", bodies[c])
    /\ UNCHANGED <<expired, wire, reply, runs, tokens, refills, started>>

(* Mutant: only a first attempt takes a token. *)
GrantsRetriesFree(c) ==
    /\ pc[c] = "limit" /\ (tokens > 0 \/ attempt[c] > 0)
    /\ pc' = [pc EXCEPT ![c] = "send"]
    /\ tokens' = IF attempt[c] > 0 THEN tokens ELSE tokens - 1
    /\ UNCHANGED <<attempt, bodies, outcome>>
    /\ UNCHANGED <<expired, wire, reply, runs, refills, started>>

(* Limiter.Wait takes a token, or fails: the context is done, or the wait    *)
(* for a token would outlast the deadline.                                   *)
LimiterGrants(c) ==
    /\ pc[c] = "limit" /\ tokens > 0
    /\ pc' = [pc EXCEPT ![c] = "send"]
    /\ tokens' = tokens - 1
    /\ UNCHANGED <<attempt, bodies, outcome>>
    /\ UNCHANGED <<expired, wire, reply, runs, refills, started>>

LimiterRefuses(c) ==
    /\ pc[c] = "limit" /\ (expired[c] \/ tokens = 0)
    /\ Return(c, "error", bodies[c])
    /\ UNCHANGED <<expired, wire, reply, runs, tokens, refills, started>>

(* The base transport sends nothing once the context is done.                *)
Attempt(c) ==
    /\ pc[c] = "send" /\ ~expired[c]
    /\ pc' = [pc EXCEPT ![c] = "sent"]
    /\ wire' = wire \cup {<<c, attempt[c]>>}
    /\ reply' = [reply EXCEPT ![c] = "none"]
    /\ started' = started + 1
    /\ UNCHANGED <<attempt, bodies, outcome, expired, runs, tokens, refills>>

(* An attempt ends in an error. The error of an expired deadline is itself   *)
(* retryable: it is a timeout.                                               *)
AttemptError(c) ==
    /\ \/ lastAttempt(c) /\ Return(c, "error", bodies[c])
       \/ ~lastAttempt(c) /\ (Return(c, "error", bodies[c]) \/ waitRetry(c, bodies[c]))
    /\ UNCHANGED <<expired, wire, reply, runs, tokens, refills, started>>

(* Before anything was sent, because the context was done; while waiting for *)
(* the answer, because it became done; or because the connection failed.     *)
NotSent(c)          == pc[c] = "send" /\ expired[c] /\ AttemptError(c)
(* Mutant: the attempt is made without the context of the request. *)
ContextDropped(c)   == pc[c] = "sent" /\ expired[c] /\ reply[c] # "none" /\ AttemptError(c)
AttemptCancelled(c) == pc[c] = "sent" /\ expired[c] /\ AttemptError(c)
ConnectionFails(c)  == pc[c] = "sent" /\ AttemptError(c)

isRetryableStatusCode(status) == status = "busy"

Response(c) ==
    /\ pc[c] = "sent" /\ reply[c] # "none"
    /\ LET open == bodies[c] \cup {attempt[c]}
       IN  IF ~isRetryableStatusCode(reply[c]) \/ lastAttempt(c)
             THEN Return(c, reply[c], open)
             ELSE waitRetry(c, open)
    /\ UNCHANGED <<expired, wire, reply, runs, tokens, refills, started>>

-----------------------------------------------------------------------------
(* The world: the deadline, the limiter's clock, the appliance and whatever  *)
(* gateway stands before it.                                                 *)

Expire(c) ==
    /\ pc[c] \notin {"idle", "done"} /\ ~expired[c]
    /\ expired' = [expired EXCEPT ![c] = TRUE]
    /\ UNCHANGED <<call, wire, reply, runs, tokens, refills, started>>

Refill ==
    /\ tokens < Burst /\ refills < MaxRefills
    /\ tokens' = tokens + 1
    /\ refills' = refills + 1
    /\ UNCHANGED <<call, expired, wire, reply, runs, started>>

(* An answer reaches its call only while the call waits for that attempt.    *)
Answer(c, k, status) ==
    /\ wire' = wire \ {<<c, k>>}
    /\ reply' = IF pc[c] = "sent" /\ attempt[c] = k
                  THEN [reply EXCEPT ![c] = status] ELSE reply
    /\ UNCHANGED <<call, expired, tokens, refills, started>>

(* The request runs; a gateway may still answer 502 or 504.                  *)
Runs(c, k) ==
    /\ \E status \in {"ok", "busy"} : Answer(c, k, status)
    /\ runs' = [runs EXCEPT ![c] = @ + 1]

RunsNot(c, k) ==
    /\ \E status \in {"reject", "busy"} : Answer(c, k, status)
    /\ UNCHANGED runs

(* The request runs and its answer is lost, or the request is lost.          *)
LostAnswer(c, k) ==
    /\ wire' = wire \ {<<c, k>>}
    /\ \/ runs' = [runs EXCEPT ![c] = @ + 1]
       \/ UNCHANGED runs
    /\ UNCHANGED <<call, expired, reply, tokens, refills, started>>

Local(c) ==
    \/ BackoffOver(c) \/ BackoffCancelled(c) \/ LimiterGrants(c) \/ LimiterRefuses(c)
    \/ Attempt(c) \/ NotSent(c) \/ AttemptCancelled(c) \/ Response(c)

Next ==
    \/ \E c \in Calls : RoundTrip(c) \/ Local(c) \/ ConnectionFails(c) \/ Expire(c)
    \/ Refill
    \/ \E a \in wire : Runs(a[1], a[2]) \/ RunsNot(a[1], a[2]) \/ LostAnswer(a[1], a[2])

Spec == Init /\ [][Next]_vars

(* A goroutine that can run does, and time passes. Nothing is assumed of the *)
(* appliance, the network or the limiter's clock.                            *)
Fairness == \A c \in Calls : WF_vars(Local(c)) /\ WF_vars(Expire(c))

FairSpec == Spec /\ Fairness

-----------------------------------------------------------------------------
(* Properties. *)

(* Whichever way RoundTrip ends (answer, error, expiry during the backoff,   *)
(* refusal of the limiter, exhausted retries), the one response body left    *)
(* open is that of the response it returns.                                  *)
NoBodyLeaked ==
    \A c \in Calls : pc[c] = "done" =>
        bodies[c] = IF outcome[c] \in Statuses THEN {attempt[c]} ELSE {}

(* Retries count against SOLIDSERVER_RATE_LIMIT like first attempts do.      *)
RateCapped == Limited => started + tokens <= Burst + refills

(* Why both hold: no body is open while a call waits, and a token taken for  *)
(* an attempt not yet made counts as well.                                   *)
Sending == {c \in Calls : pc[c] = "send"}

LoopInv ==
    /\ TypeOK
    /\ NoBodyLeaked
    /\ \A c \in Calls : pc[c] # "done" => bodies[c] = {}
    /\ Limited => started + tokens + Cardinality(Sending) <= Burst + refills

(* What the appliance has run of a call, together with what may still reach  *)
(* it, never exceeds the attempts the call has begun; and a call is not told *)
(* "ok" of a request that never ran.                                         *)
Under(c) == {a \in wire : a[1] = c}

RunsAccounted ==
    \A c \in Calls :
        /\ \A a \in Under(c) : a[2] <= attempt[c]
        /\ pc[c] \notin {"sent", "done"} => \A a \in Under(c) : a[2] # attempt[c]
        /\ runs[c] + Cardinality(Under(c))
             <= attempt[c] + (IF pc[c] \in {"sent", "done"} THEN 1 ELSE 0)
        /\ pc[c] = "idle" => attempt[c] = 0
        /\ pc[c] = "sent" /\ reply[c] = "ok" => runs[c] > 0

(* The inductive invariant.                                                  *)
Inv == LoopInv /\ RunsAccounted

(* What IpamTools relies on when it sends a mutation.                        *)
stage == [c \in Calls |->
    IF pc[c] = "idle" THEN "idle"
    ELSE IF pc[c] # "done" THEN "pending"
    ELSE IF outcome[c] = "ok" THEN "ok" ELSE "failed"]

Contract == INSTANCE RemoteCall WITH MaxRuns <- maxAttempts

KeepsContract == Contract!Spec
=============================================================================
