------------------------ MODULE RetryTransport_proofs ------------------------
(***************************************************************************)
(* RetryTransport for any number of concurrent calls, any setting of the   *)
(* retries and any limiter.                                                *)
(***************************************************************************)
EXTENDS RetryTransport, FiniteSetTheorems, TLAPS

LEMMA AttemptRange == maxAttempts \in Nat /\ maxAttempts >= 1
  BY OptionAssumption DEF maxAttempts

LEMMA SendingIsFinite ==
    IsFiniteSet(Sending) /\ Cardinality(Sending) \in Nat
<1>1. IsFiniteSet(Sending)
  BY OptionAssumption, FS_Subset DEF Sending
<1> QED BY <1>1, FS_CardinalityType

(* How a call's step to another stage changes the number of calls that hold  *)
(* an unused token.                                                          *)
LEMMA SendingStep ==
    ASSUME TypeOK, NEW c \in Calls, NEW s, pc' = [pc EXCEPT ![c] = s]
    PROVE  /\ (s = "send" /\ pc[c] # "send") => Cardinality(Sending') = Cardinality(Sending) + 1
           /\ (s # "send" /\ pc[c] = "send") => Cardinality(Sending') = Cardinality(Sending) - 1
           /\ (s # "send" /\ pc[c] # "send") => Cardinality(Sending') = Cardinality(Sending)
<1>1. \A d \in Calls : pc'[d] = IF d = c THEN s ELSE pc[d]
  BY DEF TypeOK
<1>2. CASE s = "send" /\ pc[c] # "send"
  <2>1. Sending' = Sending \cup {c} /\ c \notin Sending
    BY <1>1, <1>2 DEF Sending
  <2> QED BY <1>2, <2>1, SendingIsFinite, FS_AddElement
<1>3. CASE s # "send" /\ pc[c] = "send"
  <2>1. Sending' = Sending \ {c} /\ c \in Sending
    BY <1>1, <1>3 DEF Sending
  <2> QED BY <1>3, <2>1, SendingIsFinite, FS_RemoveElement
<1>4. CASE s # "send" /\ pc[c] # "send"
  <2>1. Sending' = Sending
    BY <1>1, <1>4 DEF Sending
  <2> QED BY <1>4, <2>1
<1> QED BY <1>2, <1>3, <1>4

(* A call that returns, or goes on to wait, is no longer about to send.      *)
LEMMA LoopStep ==
    ASSUME LoopInv, NEW c \in Calls, pc[c] # "done",
           NEW open \in SUBSET Attempts,
           \/ \E what \in Outcomes : /\ Return(c, what, open)
                                     /\ open = IF what \in Statuses THEN {attempt[c]} ELSE {}
           \/ waitRetry(c, open) /\ ~lastAttempt(c) /\ open \ {attempt[c]} = {},
           UNCHANGED <<expired, wire, reply, runs, tokens, refills, started>>
    PROVE  LoopInv'
<1>1. PICK s \in {"done", "backoff"} : pc' = [pc EXCEPT ![c] = s]
  BY DEF Return, waitRetry
<1>2. Cardinality(Sending') <= Cardinality(Sending)
  <2>1. s # "send" /\ TypeOK
    BY <1>1 DEF LoopInv
  <2>2. \/ Cardinality(Sending') = Cardinality(Sending) - 1
        \/ Cardinality(Sending') = Cardinality(Sending)
    BY <1>1, <2>1, SendingStep
  <2> QED BY <2>2, SendingIsFinite
<1>3. TypeOK'
  <2>1. CASE \E what \in Outcomes : Return(c, what, open)
    BY <2>1 DEF Return, LoopInv, TypeOK
  <2>2. CASE waitRetry(c, open) /\ ~lastAttempt(c)
    <3>1. attempt[c] + 1 \in Attempts
      BY <2>2, AttemptRange DEF lastAttempt, LoopInv, TypeOK, Attempts
    <3> QED BY <2>2, <3>1 DEF waitRetry, LoopInv, TypeOK
  <2> QED BY <2>1, <2>2
<1>4. NoBodyLeaked' /\ \A d \in Calls : (pc[d] # "done")' => (bodies[d] = {})'
  <2>1. ASSUME NEW what \in Outcomes, Return(c, what, open),
               open = IF what \in Statuses THEN {attempt[c]} ELSE {}
        PROVE  NoBodyLeaked' /\ \A d \in Calls : (pc[d] # "done")' => (bodies[d] = {})'
    <3>1. \A d \in Calls : /\ pc'[d] = IF d = c THEN "done" ELSE pc[d]
                           /\ outcome'[d] = IF d = c THEN what ELSE outcome[d]
                           /\ bodies'[d] = IF d = c THEN open ELSE bodies[d]
                           /\ attempt'[d] = attempt[d]
      BY <2>1 DEF Return, LoopInv, TypeOK
    <3> QED BY <2>1, <3>1 DEF LoopInv, NoBodyLeaked
  <2>2. CASE waitRetry(c, open) /\ open \ {attempt[c]} = {}
    BY <2>2 DEF waitRetry, LoopInv, TypeOK, NoBodyLeaked
  <2> QED BY <2>1, <2>2
<1>5. Limited => (started + tokens + Cardinality(Sending) <= Burst + refills)'
  <2>1. IsFiniteSet(Sending') /\ Cardinality(Sending') \in Nat
    <3>1. Sending' \subseteq Calls
      BY DEF Sending
    <3>2. IsFiniteSet(Sending')
      BY <3>1, OptionAssumption, FS_Subset
    <3> QED BY <3>2, FS_CardinalityType
  <2> QED BY <1>2, <2>1, SendingIsFinite, OptionAssumption DEF LoopInv, TypeOK
<1> QED BY <1>3, <1>4, <1>5 DEF LoopInv

(* Types of a step that changes pc alone among the variables of a call.      *)
LEMMA GoStep ==
    ASSUME LoopInv, NEW c \in Calls, pc[c] # "done", NEW s \in {"limit", "send", "sent"},
           pc' = [pc EXCEPT ![c] = s], UNCHANGED <<attempt, bodies, outcome>>
    PROVE  NoBodyLeaked' /\ \A d \in Calls : (pc[d] # "done")' => (bodies[d] = {})'
  BY DEF LoopInv, TypeOK, NoBodyLeaked

(* The world's steps change nothing a call holds.                            *)
LEMMA WorldStep ==
    ASSUME LoopInv, UNCHANGED <<call, started>>, tokens + refills' = tokens' + refills,
           tokens' \in 0 .. Burst, refills' \in 0 .. MaxRefills,
           expired' \in [Calls -> BOOLEAN], wire' \subseteq Calls \X Attempts,
           reply' \in [Calls -> Statuses \cup {"none"}], runs' \in [Calls -> Nat]
    PROVE  LoopInv'
<1>1. Sending' = Sending
  BY DEF Sending, call
<1>2. TypeOK'
  BY DEF LoopInv, TypeOK, call
<1>3. NoBodyLeaked' /\ \A d \in Calls : (pc[d] # "done")' => (bodies[d] = {})'
  BY DEF LoopInv, NoBodyLeaked, call
<1> QED BY <1>1, <1>2, <1>3, SendingIsFinite, OptionAssumption DEF LoopInv, TypeOK

LEMMA RetryInit == Init => LoopInv
<1> SUFFICES ASSUME Init PROVE LoopInv
  OBVIOUS
<1>1. Sending = {}
  BY DEF Init, Sending
<1>2. TypeOK
  BY AttemptRange, OptionAssumption DEF Init, TypeOK, Attempts
<1> QED BY <1>1, <1>2, FS_EmptySet, OptionAssumption DEF Init, LoopInv, NoBodyLeaked

LEMMA RetryCall ==
    ASSUME LoopInv, NEW c \in Calls, RoundTrip(c) \/ Local(c) \/ ConnectionFails(c)
    PROVE  LoopInv'
<1> USE DEF LoopInv
<1>0. \A open : open = {} => open \in SUBSET Attempts
  OBVIOUS
<1>1. CASE RoundTrip(c)
  <2>1. CASE Return(c, "error", bodies[c])
    BY <1>1, <2>1, LoopStep DEF RoundTrip, Outcomes, Statuses, TypeOK
  <2>2. CASE pc' = [pc EXCEPT ![c] = afterWait] /\ UNCHANGED <<attempt, bodies, outcome>>
    <3>1. afterWait \in {"limit", "send"} /\ (Limited => afterWait # "send") /\ pc[c] = "idle"
      BY <1>1 DEF afterWait, RoundTrip
    <3>2. TypeOK'
      BY <1>1, <2>2, <3>1 DEF RoundTrip, TypeOK
    <3>3. Limited => Cardinality(Sending') = Cardinality(Sending)
      BY <2>2, <3>1, SendingStep
    <3> QED BY <1>1, <2>2, <3>1, <3>2, <3>3, GoStep DEF RoundTrip
  <2> QED BY <1>1, <2>1, <2>2 DEF RoundTrip
<1>2. CASE BackoffOver(c)
  <2>1. afterWait \in {"limit", "send"} /\ (Limited => afterWait # "send") /\ pc[c] = "backoff"
    BY <1>2 DEF afterWait, BackoffOver
  <2>2. TypeOK'
    BY <1>2, <2>1 DEF BackoffOver, TypeOK
  <2>3. Limited => Cardinality(Sending') = Cardinality(Sending)
    BY <1>2, <2>1, SendingStep DEF BackoffOver
  <2> QED BY <1>2, <2>1, <2>2, <2>3, GoStep DEF BackoffOver
<1>3. CASE BackoffCancelled(c) \/ LimiterRefuses(c)
  BY <1>3, LoopStep DEF BackoffCancelled, LimiterRefuses, Outcomes, Statuses, TypeOK
<1>4. CASE LimiterGrants(c)
  <2>1. TypeOK'
    BY <1>4, OptionAssumption DEF LimiterGrants, TypeOK
  <2>2. /\ pc[c] = "limit" /\ pc' = [pc EXCEPT ![c] = "send"]
        /\ UNCHANGED <<attempt, bodies, outcome>>
    BY <1>4 DEF LimiterGrants
  <2>3. Cardinality(Sending') = Cardinality(Sending) + 1
    <3>1. pc[c] # "send"
      BY <2>2
    <3> QED BY <2>2, <3>1, SendingStep
  <2>4. NoBodyLeaked' /\ \A d \in Calls : (pc[d] # "done")' => (bodies[d] = {})'
    <3>1. pc[c] # "done"
      BY <2>2
    <3> QED BY <2>2, <3>1, GoStep
  <2>5. Limited => (started + tokens + Cardinality(Sending) <= Burst + refills)'
    BY <1>4, <2>3, SendingIsFinite, OptionAssumption DEF LimiterGrants, TypeOK
  <2> QED BY <2>1, <2>4, <2>5
<1>5. CASE Attempt(c)
  <2>1. TypeOK'
    BY <1>5 DEF Attempt, TypeOK
  <2>2. /\ pc[c] = "send" /\ pc' = [pc EXCEPT ![c] = "sent"]
        /\ UNCHANGED <<attempt, bodies, outcome>>
    BY <1>5 DEF Attempt
  <2>3. Cardinality(Sending') = Cardinality(Sending) - 1
    <3>1. "sent" # "send" /\ TypeOK
      OBVIOUS
    <3> QED BY <2>2, <3>1, SendingStep
  <2>4. NoBodyLeaked' /\ \A d \in Calls : (pc[d] # "done")' => (bodies[d] = {})'
    <3>1. pc[c] # "done"
      BY <2>2
    <3> QED BY <2>2, <3>1, GoStep
  <2>5. Limited => (started + tokens + Cardinality(Sending) <= Burst + refills)'
    BY <1>5, <2>3, SendingIsFinite, OptionAssumption DEF Attempt, TypeOK
  <2> QED BY <2>1, <2>4, <2>5
<1>6. ASSUME AttemptError(c), pc[c] \in {"send", "sent"} PROVE LoopInv'
  BY <1>6, LoopStep DEF AttemptError, Outcomes, Statuses, TypeOK
<1>7. CASE Response(c)
  <2> DEFINE open == bodies[c] \cup {attempt[c]}
  <2>1. open = {attempt[c]} /\ open \in SUBSET Attempts /\ reply[c] \in Statuses /\ pc[c] # "done"
    BY <1>7 DEF Response, TypeOK
  <2>2. CASE Return(c, reply[c], open)
    BY <1>7, <2>1, <2>2, LoopStep DEF Response, Outcomes
  <2>3. CASE waitRetry(c, open) /\ ~lastAttempt(c)
    BY <1>7, <2>1, <2>3, LoopStep DEF Response
  <2> QED BY <1>7, <2>2, <2>3 DEF Response
<1> QED
  BY <1>1, <1>2, <1>3, <1>4, <1>5, <1>6, <1>7 DEF Local, NotSent, AttemptCancelled, ConnectionFails

LEMMA RetryWorld ==
    ASSUME LoopInv,
           \/ \E c \in Calls : Expire(c)
           \/ Refill
           \/ \E a \in wire : Runs(a[1], a[2]) \/ RunsNot(a[1], a[2]) \/ LostAnswer(a[1], a[2])
    PROVE  LoopInv'
<1>1. ASSUME NEW c \in Calls, Expire(c) PROVE LoopInv'
  BY <1>1, WorldStep, OptionAssumption DEF Expire, LoopInv, TypeOK
<1>2. CASE Refill
  BY <1>2, WorldStep, OptionAssumption DEF Refill, LoopInv, TypeOK
<1>3. ASSUME NEW c \in Calls, NEW k, Runs(c, k) \/ RunsNot(c, k) \/ LostAnswer(c, k)
      PROVE  LoopInv'
  <2>1. /\ wire' \subseteq wire /\ UNCHANGED <<call, started, expired, tokens, refills>>
        /\ reply' \in [Calls -> Statuses \cup {"none"}]
        /\ runs' \in [Calls -> Nat]
    BY <1>3 DEF Runs, RunsNot, LostAnswer, Answer, LoopInv, TypeOK, Statuses
  <2> QED BY <2>1, WorldStep, OptionAssumption DEF LoopInv, TypeOK
<1>4. \A a \in wire : a[1] \in Calls
  BY DEF LoopInv, TypeOK
<1> QED BY <1>1, <1>2, <1>3, <1>4

(* Waiting calls hold no body and no token, however the calls, their         *)
(* deadlines and the appliance interleave.                                   *)
LEMMA LoopInvariance == Spec => []LoopInv
<1>1. LoopInv /\ [Next]_vars => LoopInv'
  <2> SUFFICES ASSUME LoopInv, [Next]_vars PROVE LoopInv'
    OBVIOUS
  <2>1. CASE UNCHANGED vars
    BY <2>1, WorldStep, OptionAssumption DEF vars, LoopInv, TypeOK
  <2> QED BY <2>1, RetryCall, RetryWorld DEF Next
<1> QED BY <1>1, RetryInit, PTL DEF Spec

(* No response body leaks, whichever way a call ends.                        *)
THEOREM RetrySafety == Spec => []NoBodyLeaked
<1>1. LoopInv => NoBodyLeaked
  BY DEF LoopInv
<1> QED BY <1>1, LoopInvariance, PTL

(* Retries never take the attempts past the tokens of the limiter.           *)
THEOREM RateRespected == Spec => []RateCapped
<1>1. LoopInv => RateCapped
  BY SendingIsFinite, OptionAssumption DEF LoopInv, TypeOK, RateCapped
<1> QED BY <1>1, LoopInvariance, PTL

-----------------------------------------------------------------------------
(* What runs at the other end.                                             *)

LEMMA UnderIsFinite ==
    ASSUME TypeOK, NEW c \in Calls
    PROVE  IsFiniteSet(Under(c)) /\ Cardinality(Under(c)) \in Nat
<1>1. IsFiniteSet(Attempts)
  BY AttemptRange, FS_Interval DEF Attempts
<1>2. IsFiniteSet(Calls \X Attempts)
  BY <1>1, OptionAssumption, FS_Product
<1>3. IsFiniteSet(Under(c))
  BY <1>2, FS_Subset DEF Under, TypeOK
<1> QED BY <1>3, FS_CardinalityType

(* A step that neither sends nor answers keeps the account as long as the   *)
(* call's attempts do not fall back.                                        *)
LEMMA QuietStep ==
    ASSUME TypeOK, RunsAccounted, NEW c \in Calls, NEW s,
           pc[c] # "done", s \notin {"idle", "sent"},
           pc' = [pc EXCEPT ![c] = s], attempt' \in [Calls -> Attempts],
           \A d \in Calls : d # c => attempt'[d] = attempt[d],
           \/ attempt'[c] = attempt[c] /\ (pc[c] = "sent" => s = "done")
           \/ attempt'[c] = attempt[c] + 1,
           UNCHANGED <<wire, reply, runs>>
    PROVE  RunsAccounted'
<1> SUFFICES ASSUME NEW d \in Calls
             PROVE  /\ \A a \in Under(d) : a[2] <= attempt'[d]
                    /\ pc'[d] \notin {"sent", "done"} => \A a \in Under(d) : a[2] # attempt'[d]
                    /\ runs[d] + Cardinality(Under(d))
                         <= attempt'[d] + (IF pc'[d] \in {"sent", "done"} THEN 1 ELSE 0)
                    /\ pc'[d] = "idle" => attempt'[d] = 0
                    /\ pc'[d] = "sent" /\ reply[d] = "ok" => runs[d] > 0
  BY DEF RunsAccounted, Under
<1>1. CASE d # c
  <2>1. pc'[d] = pc[d] /\ attempt'[d] = attempt[d]
    BY <1>1 DEF TypeOK
  <2> QED BY <2>1 DEF RunsAccounted
<1>2. CASE d = c
  <2>1. pc'[c] = s /\ attempt[c] \in Nat /\ attempt'[c] \in Nat /\ runs[c] \in Nat
    BY DEF TypeOK, Attempts
  <2>2. Cardinality(Under(c)) \in Nat
    BY UnderIsFinite
  <2>3. \A a \in Under(c) : a[2] \in Nat /\ a[2] <= attempt[c]
    <3>1. \A a \in Under(c) : a \in Calls \X Attempts
      BY DEF Under, TypeOK
    <3>2. \A a \in Under(c) : a[2] <= attempt[c]
      BY DEF RunsAccounted
    <3> QED BY <3>1, <3>2 DEF Attempts
  <2>4. runs[c] + Cardinality(Under(c))
          <= attempt[c] + (IF pc[c] \in {"sent", "done"} THEN 1 ELSE 0)
    BY DEF RunsAccounted
  <2>5. pc[c] \notin {"sent", "done"} => \A a \in Under(c) : a[2] # attempt[c]
    BY DEF RunsAccounted
  <2>6. CASE attempt'[c] = attempt[c] + 1
    BY <1>2, <2>1, <2>2, <2>3, <2>4, <2>6
  <2>7. CASE attempt'[c] = attempt[c] /\ (pc[c] = "sent" => s = "done")
    BY <1>2, <2>1, <2>2, <2>3, <2>4, <2>5, <2>7
  <2> QED BY <2>6, <2>7
<1> QED BY <1>1, <1>2

(* Sending puts one attempt on the wire that was not there.                 *)
LEMMA AttemptCounted ==
    ASSUME TypeOK, RunsAccounted, NEW c \in Calls, Attempt(c)
    PROVE  RunsAccounted'
<1>1. /\ \A d \in Calls : pc'[d] = IF d = c THEN "sent" ELSE pc[d]
      /\ \A d \in Calls : reply'[d] = IF d = c THEN "none" ELSE reply[d]
      /\ attempt' = attempt /\ runs' = runs /\ pc[c] = "send"
  BY DEF Attempt, TypeOK
<1>2. \A d \in Calls : d # c => Under(d)' = Under(d)
  BY DEF Attempt, Under
<1>3. Under(c)' = Under(c) \cup {<<c, attempt[c]>>} /\ <<c, attempt[c]>> \notin Under(c)
  <2>1. <<c, attempt[c]>> \notin Under(c)
    BY <1>1 DEF RunsAccounted
  <2> QED BY <2>1 DEF Attempt, Under
<1>4. Cardinality(Under(c)') = Cardinality(Under(c)) + 1
  BY <1>3, UnderIsFinite, FS_AddElement
<1> SUFFICES ASSUME NEW d \in Calls
             PROVE  /\ \A a \in Under(d)' : a[2] <= attempt[d]
                    /\ pc'[d] \notin {"sent", "done"} => \A a \in Under(d)' : a[2] # attempt[d]
                    /\ runs[d] + Cardinality(Under(d)')
                         <= attempt[d] + (IF pc'[d] \in {"sent", "done"} THEN 1 ELSE 0)
                    /\ pc'[d] = "idle" => attempt[d] = 0
                    /\ pc'[d] = "sent" /\ reply'[d] = "ok" => runs[d] > 0
  BY <1>1 DEF RunsAccounted
<1>5. CASE d # c
  BY <1>1, <1>2, <1>5 DEF RunsAccounted
<1>6. CASE d = c
  <2>1. attempt[c] \in Nat /\ runs[c] \in Nat /\ Cardinality(Under(c)) \in Nat
    BY UnderIsFinite DEF TypeOK, Attempts
  <2>2. runs[c] + Cardinality(Under(c)) <= attempt[c]
    BY <1>1, <2>1 DEF RunsAccounted
  <2>3. \A a \in Under(c) : a[2] <= attempt[c]
    BY DEF RunsAccounted
  <2> QED BY <1>1, <1>3, <1>4, <1>6, <2>1, <2>2, <2>3
<1> QED BY <1>5, <1>6

(* Taking an attempt off the wire leaves room for one run of its call.      *)
LEMMA AnswerCounted ==
    ASSUME TypeOK, RunsAccounted, NEW c \in Calls, NEW k, <<c, k>> \in wire,
           wire' = wire \ {<<c, k>>}, UNCHANGED call,
           runs' = [runs EXCEPT ![c] = @ + 1] \/ UNCHANGED runs,
           \A d \in Calls : reply'[d] = "ok" =>
               reply[d] = "ok" \/ (d = c /\ runs'[c] = runs[c] + 1)
    PROVE  RunsAccounted'
<1>1. pc' = pc /\ attempt' = attempt
  BY DEF call
<1>2. \A d \in Calls : d # c => Under(d)' = Under(d) /\ runs'[d] = runs[d]
  BY DEF Under, TypeOK
<1>3. Under(c)' = Under(c) \ {<<c, k>>} /\ <<c, k>> \in Under(c)
  BY DEF Under
<1>4. Cardinality(Under(c)') = Cardinality(Under(c)) - 1
  BY <1>3, UnderIsFinite, FS_RemoveElement
<1>5. runs[c] \in Nat /\ (runs'[c] = runs[c] \/ runs'[c] = runs[c] + 1)
  BY DEF TypeOK
<1> SUFFICES ASSUME NEW d \in Calls
             PROVE  /\ \A a \in Under(d)' : a[2] <= attempt[d]
                    /\ pc[d] \notin {"sent", "done"} => \A a \in Under(d)' : a[2] # attempt[d]
                    /\ runs'[d] + Cardinality(Under(d)')
                         <= attempt[d] + (IF pc[d] \in {"sent", "done"} THEN 1 ELSE 0)
                    /\ pc[d] = "idle" => attempt[d] = 0
                    /\ pc[d] = "sent" /\ reply'[d] = "ok" => runs'[d] > 0
  BY <1>1 DEF RunsAccounted
<1>6. CASE d # c
  BY <1>2, <1>6 DEF RunsAccounted
<1>7. CASE d = c
  <2>1. attempt[c] \in Nat /\ Cardinality(Under(c)) \in Nat
    BY UnderIsFinite DEF TypeOK, Attempts
  <2>2. /\ \A a \in Under(c) : a[2] <= attempt[c]
        /\ pc[c] \notin {"sent", "done"} => \A a \in Under(c) : a[2] # attempt[c]
        /\ runs[c] + Cardinality(Under(c))
             <= attempt[c] + (IF pc[c] \in {"sent", "done"} THEN 1 ELSE 0)
        /\ pc[c] = "idle" => attempt[c] = 0
        /\ pc[c] = "sent" /\ reply[c] = "ok" => runs[c] > 0
    BY DEF RunsAccounted
  <2>3. runs'[c] + Cardinality(Under(c)')
          <= attempt[c] + (IF pc[c] \in {"sent", "done"} THEN 1 ELSE 0)
    BY <1>4, <1>5, <2>1, <2>2
  <2>4. pc[c] = "sent" /\ reply'[c] = "ok" => runs'[c] > 0
    BY <1>5, <2>2
  <2> QED BY <1>3, <1>7, <2>2, <2>3, <2>4
<1> QED BY <1>6, <1>7

LEMMA AccountInit == Init => RunsAccounted
<1> SUFFICES ASSUME Init PROVE RunsAccounted
  OBVIOUS
<1>1. \A c \in Calls : Under(c) = {}
  BY DEF Init, Under
<1> QED BY <1>1, FS_EmptySet DEF Init, RunsAccounted

LEMMA AttemptErrorKeepsAccount ==
    ASSUME TypeOK, TypeOK', RunsAccounted, NEW c \in Calls, AttemptError(c),
           pc[c] \in {"send", "sent"}
    PROVE  RunsAccounted'
<1>1. CASE Return(c, "error", bodies[c])
  BY <1>1, QuietStep DEF AttemptError, Return, TypeOK
<1>2. CASE waitRetry(c, bodies[c])
  <2>1. attempt' = [attempt EXCEPT ![c] = attempt[c] + 1] /\ pc' = [pc EXCEPT ![c] = "backoff"]
    BY <1>2 DEF waitRetry
  <2>2. /\ attempt' \in [Calls -> Attempts] /\ attempt'[c] = attempt[c] + 1
        /\ \A d \in Calls : d # c => attempt'[d] = attempt[d]
    BY <2>1 DEF TypeOK
  <2> QED BY <2>1, <2>2, QuietStep DEF AttemptError
<1> QED BY <1>1, <1>2 DEF AttemptError

LEMMA AccountCall ==
    ASSUME TypeOK, TypeOK', RunsAccounted, NEW c \in Calls,
           RoundTrip(c) \/ Local(c) \/ ConnectionFails(c)
    PROVE  RunsAccounted'
<1>1. ASSUME NEW what, NEW open, Return(c, what, open), pc[c] # "done", UNCHANGED <<wire, reply, runs>>
      PROVE  RunsAccounted'
  BY <1>1, QuietStep DEF Return, TypeOK
<1>2. ASSUME NEW s \in {"limit", "send"}, pc' = [pc EXCEPT ![c] = s], pc[c] \notin {"sent", "done"},
             UNCHANGED <<attempt, bodies, outcome>>, UNCHANGED <<wire, reply, runs>>
      PROVE  RunsAccounted'
  BY <1>2, QuietStep DEF TypeOK
<1>3. ASSUME NEW open, waitRetry(c, open), pc[c] # "done", UNCHANGED <<wire, reply, runs>>
      PROVE  RunsAccounted'
  <2>1. attempt' = [attempt EXCEPT ![c] = attempt[c] + 1] /\ pc' = [pc EXCEPT ![c] = "backoff"]
    BY <1>3 DEF waitRetry
  <2>2. /\ attempt' \in [Calls -> Attempts] /\ attempt'[c] = attempt[c] + 1
        /\ \A d \in Calls : d # c => attempt'[d] = attempt[d]
    BY <2>1 DEF TypeOK
  <2> QED BY <1>3, <2>1, <2>2, QuietStep
<1>4. afterWait \in {"limit", "send"}
  BY DEF afterWait
<1>5. CASE RoundTrip(c)
  BY <1>1, <1>2, <1>4, <1>5 DEF RoundTrip
<1>6. CASE BackoffOver(c)
  BY <1>2, <1>4, <1>6 DEF BackoffOver
<1>7. CASE LimiterGrants(c)
  BY <1>2, <1>7 DEF LimiterGrants
<1>8. CASE BackoffCancelled(c) \/ LimiterRefuses(c)
  BY <1>1, <1>8 DEF BackoffCancelled, LimiterRefuses
<1>9. CASE NotSent(c) \/ AttemptCancelled(c) \/ ConnectionFails(c)
  BY <1>9, AttemptErrorKeepsAccount DEF NotSent, AttemptCancelled, ConnectionFails
<1>10. CASE Response(c)
  BY <1>1, <1>3, <1>10 DEF Response
<1> QED BY <1>5, <1>6, <1>7, <1>8, <1>9, <1>10, AttemptCounted DEF Local

LEMMA AccountWorld ==
    ASSUME TypeOK, RunsAccounted, NEW c \in Calls, NEW k, <<c, k>> \in wire,
           Runs(c, k) \/ RunsNot(c, k) \/ LostAnswer(c, k)
    PROVE  RunsAccounted'
<1>1. wire' = wire \ {<<c, k>>} /\ UNCHANGED call
  BY DEF Runs, RunsNot, LostAnswer, Answer
<1>2. CASE Runs(c, k)
  <2>1. runs' = [runs EXCEPT ![c] = @ + 1] /\ runs'[c] = runs[c] + 1
    BY <1>2 DEF Runs, TypeOK
  <2>2. \A d \in Calls : d # c => reply'[d] = reply[d]
    BY <1>2 DEF Runs, Answer, TypeOK
  <2>3. \A d \in Calls : reply'[d] = "ok" =>
            reply[d] = "ok" \/ (d = c /\ runs'[c] = runs[c] + 1)
    BY <2>1, <2>2
  <2>4. runs' = [runs EXCEPT ![c] = @ + 1] \/ UNCHANGED runs
    BY <2>1
  <2> QED BY <1>1, <2>3, <2>4, AnswerCounted
<1>3. CASE RunsNot(c, k)
  BY <1>1, <1>3, AnswerCounted DEF RunsNot, Answer, TypeOK
<1>4. CASE LostAnswer(c, k)
  BY <1>1, <1>4, AnswerCounted DEF LostAnswer, TypeOK
<1> QED BY <1>2, <1>3, <1>4

(* The appliance runs a call's request at most once for each attempt begun,  *)
(* whatever is repeated, lost or late, and "ok" is never an empty promise.   *)
THEOREM RunsAreAccounted == Spec => []RunsAccounted
<1>1. LoopInv /\ RunsAccounted /\ [Next]_vars => RunsAccounted'
  <2> SUFFICES ASSUME LoopInv, RunsAccounted, [Next]_vars PROVE RunsAccounted'
    OBVIOUS
  <2>0. TypeOK /\ TypeOK'
    <3>1. LoopInv'
      BY RetryCall, RetryWorld, WorldStep, OptionAssumption DEF Next, vars, LoopInv, TypeOK
    <3> QED BY <3>1 DEF LoopInv
  <2>1. ASSUME UNCHANGED <<call, wire, reply, runs>> PROVE RunsAccounted'
    BY <2>1 DEF call, RunsAccounted, Under
  <2>2. ASSUME NEW a \in wire, Runs(a[1], a[2]) \/ RunsNot(a[1], a[2]) \/ LostAnswer(a[1], a[2])
        PROVE  RunsAccounted'
    <3>1. a[1] \in Calls /\ <<a[1], a[2]>> \in wire
      BY <2>0 DEF TypeOK
    <3> QED BY <2>0, <2>2, <3>1, AccountWorld
  <2>3. CASE UNCHANGED vars
    BY <2>1, <2>3 DEF vars
  <2>4. ASSUME NEW c \in Calls, RoundTrip(c) \/ Local(c) \/ ConnectionFails(c)
        PROVE  RunsAccounted'
    BY <2>0, <2>4, AccountCall
  <2>5. ASSUME NEW c \in Calls, Expire(c) PROVE RunsAccounted'
    BY <2>1, <2>5 DEF Expire
  <2>6. CASE Refill
    BY <2>1, <2>6 DEF Refill
  <2> QED BY <2>2, <2>3, <2>4, <2>5, <2>6 DEF Next
<1> QED BY <1>1, AccountInit, LoopInvariance, PTL DEF Spec

(* What holds in every reachable state, for any number of calls and any      *)
(* setting: no call that waits holds a body or a token, and the runs at the  *)
(* other end are accounted for.                                              *)
THEOREM RetryInvariance == Spec => []Inv
<1>1. LoopInv /\ RunsAccounted => Inv
  BY DEF Inv
<1> QED BY <1>1, LoopInvariance, RunsAreAccounted, PTL

-----------------------------------------------------------------------------
(* RetryTransport implements RemoteCall.                                   *)

(* There is room for one more run while a request is on its way.            *)
LEMMA RoomForARun ==
    ASSUME TypeOK, RunsAccounted, NEW c \in Calls, NEW k, <<c, k>> \in wire
    PROVE  runs[c] < maxAttempts /\ stage[c] # "idle"
<1>1. <<c, k>> \in Under(c) /\ k \in Attempts
  BY DEF Under, TypeOK
<1>2. Cardinality(Under(c)) \in Nat /\ Cardinality(Under(c)) > 0
  BY <1>1, UnderIsFinite, FS_EmptySet
<1>3. runs[c] \in Nat /\ attempt[c] \in 0 .. maxAttempts - 1
  BY DEF TypeOK, Attempts
<1>4. runs[c] + Cardinality(Under(c))
        <= attempt[c] + (IF pc[c] \in {"sent", "done"} THEN 1 ELSE 0)
  BY DEF RunsAccounted
<1>5. pc[c] # "idle"
  <2> SUFFICES ASSUME pc[c] = "idle" PROVE FALSE
    OBVIOUS
  <2>1. attempt[c] = 0
    BY DEF RunsAccounted
  <2> QED BY <1>2, <1>3, <1>4, <2>1
<1>6. stage[c] # "idle"
  BY <1>5 DEF stage
<1> QED BY <1>2, <1>3, <1>4, <1>6, AttemptRange

(* A step of one call's loop that leaves the others alone.                  *)
LEMMA StageStep ==
    ASSUME TypeOK, NEW c \in Calls, NEW s, pc' = [pc EXCEPT ![c] = s],
           NEW o, outcome' = [outcome EXCEPT ![c] = o] \/ (o = outcome[c] /\ UNCHANGED outcome)
    PROVE  stage' = [stage EXCEPT ![c] = IF s = "idle" THEN "idle"
                                         ELSE IF s # "done" THEN "pending"
                                         ELSE IF o = "ok" THEN "ok" ELSE "failed"]
<1>1. \A d \in Calls : pc'[d] = (IF d = c THEN s ELSE pc[d])
                    /\ outcome'[d] = (IF d = c THEN o ELSE outcome[d])
  BY DEF TypeOK
<1> DEFINE ended == IF s = "idle" THEN "idle"
                    ELSE IF s # "done" THEN "pending"
                    ELSE IF o = "ok" THEN "ok" ELSE "failed"
<1>2. \A d \in Calls : stage'[d] = IF d = c THEN ended ELSE stage[d]
  BY <1>1 DEF stage
<1> HIDE DEF ended
<1>3. stage' = [d \in Calls |-> stage'[d]] /\ stage = [d \in Calls |-> stage[d]]
  BY DEF stage
<1>4. stage' = [stage EXCEPT ![c] = ended]
  BY <1>2, <1>3
<1> QED BY <1>4 DEF ended

(* A call that is under way goes on, or returns.                            *)
LEMMA GoesOn ==
    ASSUME TypeOK, NEW c \in Calls, pc[c] \notin {"idle", "done"},
           NEW s \in {"backoff", "limit", "send", "sent"},
           pc' = [pc EXCEPT ![c] = s], UNCHANGED outcome
    PROVE  stage' = stage
<1>1. stage' = [stage EXCEPT ![c] = "pending"]
  BY StageStep
<1>2. stage[c] = "pending" /\ stage = [d \in Calls |-> stage[d]]
  BY DEF stage
<1> QED BY <1>1, <1>2

LEMMA ReturnEnds ==
    ASSUME TypeOK, NEW c \in Calls, pc[c] \notin {"idle", "done"},
           NEW what, NEW open, Return(c, what, open), UNCHANGED runs,
           what = "ok" => runs[c] > 0
    PROVE  Contract!End(c)
<1>1. stage' = [stage EXCEPT ![c] = IF what = "ok" THEN "ok" ELSE "failed"]
  BY StageStep DEF Return
<1>2. stage[c] = "pending"
  BY DEF stage
<1> QED BY <1>1, <1>2 DEF Contract!End

LEMMA ErrorEndsOrGoesOn ==
    ASSUME TypeOK, NEW c \in Calls, pc[c] \in {"send", "sent"}, AttemptError(c)
    PROVE  Contract!End(c) \/ UNCHANGED <<stage, runs>>
<1>1. UNCHANGED runs
  BY DEF AttemptError
<1>2. CASE Return(c, "error", bodies[c])
  BY <1>1, <1>2, ReturnEnds
<1>3. CASE waitRetry(c, bodies[c])
  BY <1>1, <1>3, GoesOn DEF waitRetry
<1> QED BY <1>2, <1>3 DEF AttemptError

LEMMA CallRefines ==
    ASSUME TypeOK, RunsAccounted, NEW c \in Calls,
           RoundTrip(c) \/ Local(c) \/ ConnectionFails(c)
    PROVE  Contract!Next \/ UNCHANGED <<stage, runs>>
<1>1. CASE RoundTrip(c)
  <2>1. stage[c] = "idle" /\ UNCHANGED runs
    BY <1>1 DEF RoundTrip, stage
  <2>2. CASE Return(c, "error", bodies[c])
    <3>1. pc' = [pc EXCEPT ![c] = "done"] /\ outcome' = [outcome EXCEPT ![c] = "error"]
      BY <2>2 DEF Return
    <3>2. stage' = [stage EXCEPT ![c] = IF "done" = "idle" THEN "idle"
                                        ELSE IF "done" # "done" THEN "pending"
                                        ELSE IF "error" = "ok" THEN "ok" ELSE "failed"]
      BY <3>1, StageStep
    <3>3. stage' = [stage EXCEPT ![c] = "failed"]
      BY <3>2
    <3> QED BY <2>1, <3>3 DEF Contract!Next, Contract!Begin
  <2>3. CASE pc' = [pc EXCEPT ![c] = afterWait] /\ UNCHANGED <<attempt, bodies, outcome>>
    <3>1. stage' = [stage EXCEPT ![c] = IF afterWait = "idle" THEN "idle"
                                        ELSE IF afterWait # "done" THEN "pending"
                                        ELSE IF outcome[c] = "ok" THEN "ok" ELSE "failed"]
      BY <2>3, StageStep
    <3>2. afterWait \notin {"idle", "done"}
      BY DEF afterWait
    <3>3. stage' = [stage EXCEPT ![c] = "pending"]
      BY <3>1, <3>2
    <3> QED BY <2>1, <3>3 DEF Contract!Next, Contract!Begin
  <2> QED BY <1>1, <2>2, <2>3 DEF RoundTrip
<1>2. CASE BackoffOver(c)
  BY <1>2, GoesOn DEF BackoffOver, afterWait
<1>3. CASE LimiterGrants(c)
  BY <1>3, GoesOn DEF LimiterGrants
<1>4. CASE Attempt(c)
  BY <1>4, GoesOn DEF Attempt
<1>5. CASE BackoffCancelled(c) \/ LimiterRefuses(c)
  BY <1>5, ReturnEnds DEF BackoffCancelled, LimiterRefuses, Contract!Next
<1>6. CASE NotSent(c) \/ AttemptCancelled(c) \/ ConnectionFails(c)
  BY <1>6, ErrorEndsOrGoesOn DEF NotSent, AttemptCancelled, ConnectionFails, Contract!Next
<1>7. CASE Response(c)
  <2>1. pc[c] = "sent" /\ UNCHANGED runs /\ (reply[c] = "ok" => runs[c] > 0)
    BY <1>7 DEF Response, RunsAccounted
  <2>2. ASSUME NEW open, Return(c, reply[c], open) PROVE Contract!Next
    BY <2>1, <2>2, ReturnEnds DEF Contract!Next
  <2>3. ASSUME NEW open, waitRetry(c, open) PROVE UNCHANGED <<stage, runs>>
    BY <2>1, <2>3, GoesOn DEF waitRetry
  <2> QED BY <1>7, <2>2, <2>3 DEF Response
<1> QED BY <1>1, <1>2, <1>3, <1>4, <1>5, <1>6, <1>7 DEF Local

LEMMA WorldRefines ==
    ASSUME TypeOK, RunsAccounted, NEW c \in Calls, NEW k, <<c, k>> \in wire,
           Runs(c, k) \/ RunsNot(c, k) \/ LostAnswer(c, k)
    PROVE  Contract!Next \/ UNCHANGED <<stage, runs>>
<1>1. UNCHANGED stage
  BY DEF Runs, RunsNot, LostAnswer, Answer, stage, call
<1>2. \/ runs' = [runs EXCEPT ![c] = @ + 1]
      \/ UNCHANGED runs
  BY DEF Runs, RunsNot, LostAnswer
<1> QED BY <1>1, <1>2, RoomForARun DEF Contract!Next, Contract!Run

(* What the tools count on when they send a mutation: the appliance runs it  *)
(* at most maxAttempts times, perhaps after the call has ended, and the call *)
(* ends "ok" only after it ran. That the call ends is left to TLC.           *)
THEOREM Refinement == Spec => Contract!SafeSpec
<1>1. Init => Contract!Init
  BY DEF Init, Contract!Init, stage
<1>2. LoopInv /\ RunsAccounted /\ [Next]_vars => [Contract!Next]_(Contract!vars)
  <2> SUFFICES ASSUME LoopInv, RunsAccounted, [Next]_vars
               PROVE  Contract!Next \/ UNCHANGED <<stage, runs>>
    BY DEF Contract!vars
  <2>0. TypeOK
    BY DEF LoopInv
  <2>1. ASSUME UNCHANGED <<call, runs>> PROVE UNCHANGED <<stage, runs>>
    BY <2>1 DEF call, stage
  <2>2. ASSUME NEW a \in wire, Runs(a[1], a[2]) \/ RunsNot(a[1], a[2]) \/ LostAnswer(a[1], a[2])
        PROVE  Contract!Next \/ UNCHANGED <<stage, runs>>
    <3>1. a[1] \in Calls /\ <<a[1], a[2]>> \in wire
      BY <2>0 DEF TypeOK
    <3> QED BY <2>0, <2>2, <3>1, WorldRefines
  <2>3. CASE UNCHANGED vars
    BY <2>1, <2>3 DEF vars
  <2>4. ASSUME NEW c \in Calls, RoundTrip(c) \/ Local(c) \/ ConnectionFails(c)
        PROVE  Contract!Next \/ UNCHANGED <<stage, runs>>
    BY <2>0, <2>4, CallRefines
  <2>5. ASSUME NEW c \in Calls, Expire(c) PROVE UNCHANGED <<stage, runs>>
    BY <2>1, <2>5 DEF Expire
  <2>6. CASE Refill
    BY <2>1, <2>6 DEF Refill
  <2> QED BY <2>2, <2>3, <2>4, <2>5, <2>6 DEF Next
<1> QED BY <1>1, <1>2, LoopInvariance, RunsAreAccounted, PTL DEF Spec, Contract!SafeSpec

-----------------------------------------------------------------------------
(* Why calls end: each step of a call's own loop, of which fairness forces   *)
(* the next, lowers a number that nothing raises.                            *)

PlaceInLoop(s) ==
    CASE s = "idle" -> 5 [] s = "backoff" -> 4 [] s = "limit" -> 3
      [] s = "send" -> 2 [] s = "sent" -> 1 [] s = "done" -> 0

StepsLeft(c) ==
    IF pc[c] = "done" THEN 0 ELSE 5 * (maxAttempts - 1 - attempt[c]) + PlaceInLoop(pc[c])

LoopGoesDown ==
    \A c \in Calls : UNCHANGED <<pc[c], attempt[c]>> \/ StepsLeft(c)' < StepsLeft(c)

LoopIsShort == \A c \in Calls : StepsLeft(c) \in 0 .. 5 * maxAttempts

LEMMA StepsLeftRange ==
    ASSUME TypeOK, NEW c \in Calls
    PROVE  /\ StepsLeft(c) \in 0 .. 5 * maxAttempts
           /\ pc[c] # "done" => StepsLeft(c) > 0
<1>1. attempt[c] \in 0 .. maxAttempts - 1 /\ maxAttempts \in Nat
  BY AttemptRange DEF TypeOK, Attempts
<1>2. pc[c] \in {"idle", "backoff", "limit", "send", "sent", "done"}
  BY DEF TypeOK
<1>3. CASE pc[c] = "done"
  BY <1>1, <1>3 DEF StepsLeft
<1>4. CASE pc[c] # "done"
  <2>1. PlaceInLoop(pc[c]) \in 1 .. 5
    BY <1>2, <1>4 DEF PlaceInLoop
  <2> QED BY <1>1, <1>4, <2>1 DEF StepsLeft
<1> QED BY <1>3, <1>4

(* A call that goes from one stage of the loop to another: forwards within   *)
(* an attempt, back to the wait with the next attempt, or out.               *)
LEMMA StageLowers ==
    ASSUME TypeOK, TypeOK', NEW c \in Calls, NEW s, pc' = [pc EXCEPT ![c] = s], pc[c] # "done",
           \A d \in Calls : d # c => attempt'[d] = attempt[d],
           \/ s = "done"
           \/ attempt'[c] = attempt[c] /\ PlaceInLoop(s) < PlaceInLoop(pc[c])
           \/ attempt'[c] = attempt[c] + 1 /\ s = "backoff"
    PROVE  LoopGoesDown
<1> SUFFICES ASSUME NEW d \in Calls
             PROVE  UNCHANGED <<pc[d], attempt[d]>> \/ StepsLeft(d)' < StepsLeft(d)
  BY DEF LoopGoesDown
<1>1. pc'[d] = IF d = c THEN s ELSE pc[d]
  BY DEF TypeOK
<1>2. CASE d # c
  BY <1>1, <1>2
<1>3. CASE d = c
  <2>1. attempt[c] \in Nat /\ attempt'[c] \in Nat /\ maxAttempts \in Nat
    BY AttemptRange DEF TypeOK, Attempts
  <2>2. s = pc'[c] /\ s \in {"idle", "backoff", "limit", "send", "sent", "done"}
    BY <1>1, <1>3 DEF TypeOK
  <2>3. pc[c] \in {"idle", "backoff", "limit", "send", "sent", "done"}
    BY DEF TypeOK
  <2>4. PlaceInLoop(s) \in 0 .. 5 /\ PlaceInLoop(pc[c]) \in 1 .. 5
    BY <2>2, <2>3 DEF PlaceInLoop
  <2>5. StepsLeft(c) = 5 * (maxAttempts - 1 - attempt[c]) + PlaceInLoop(pc[c])
    BY DEF StepsLeft
  <2>6. CASE s = "done"
    <3>1. StepsLeft(c)' = 0
      BY <2>2, <2>6 DEF StepsLeft
    <3>2. StepsLeft(c) > 0
      BY StepsLeftRange
    <3> QED BY <1>3, <3>1, <3>2
  <2>7. ASSUME s # "done" PROVE StepsLeft(c)' = 5 * (maxAttempts - 1 - attempt'[c]) + PlaceInLoop(s)
    BY <2>2, <2>7 DEF StepsLeft
  <2>8. CASE s # "done" /\ attempt'[c] = attempt[c] /\ PlaceInLoop(s) < PlaceInLoop(pc[c])
    BY <1>3, <2>1, <2>4, <2>5, <2>7, <2>8
  <2>9. CASE attempt'[c] = attempt[c] + 1 /\ s = "backoff"
    <3>1. PlaceInLoop(s) = 4
      BY <2>9 DEF PlaceInLoop
    <3> QED BY <1>3, <2>1, <2>4, <2>5, <2>7, <2>9, <3>1
  <2> QED BY <2>6, <2>8, <2>9
<1> QED BY <1>2, <1>3

LEMMA LoopLowers ==
    ASSUME TypeOK, TypeOK', NEW c \in Calls, RoundTrip(c) \/ Local(c) \/ ConnectionFails(c)
    PROVE  LoopGoesDown
<1>1. afterWait \in {"limit", "send"}
  BY DEF afterWait
<1>2. ASSUME pc[c] # "done", NEW what, NEW open, Return(c, what, open) PROVE LoopGoesDown
  BY <1>2, StageLowers DEF Return
<1>3. ASSUME pc[c] # "done", NEW open, waitRetry(c, open) PROVE LoopGoesDown
  <2>1. attempt' = [attempt EXCEPT ![c] = attempt[c] + 1] /\ pc' = [pc EXCEPT ![c] = "backoff"]
    BY <1>3 DEF waitRetry
  <2>2. /\ attempt'[c] = attempt[c] + 1
        /\ \A d \in Calls : d # c => attempt'[d] = attempt[d]
    BY <2>1 DEF TypeOK
  <2> QED BY <1>3, <2>1, <2>2, StageLowers
<1>4. ASSUME pc[c] # "done", AttemptError(c) PROVE LoopGoesDown
  BY <1>2, <1>3, <1>4 DEF AttemptError
<1>5. ASSUME NEW s, pc' = [pc EXCEPT ![c] = s], UNCHANGED attempt, pc[c] # "done",
             PlaceInLoop(s) < PlaceInLoop(pc[c])
      PROVE  LoopGoesDown
  BY <1>5, StageLowers
<1>6. CASE RoundTrip(c)
  <2>1. CASE Return(c, "error", bodies[c])
    BY <1>2, <1>6, <2>1 DEF RoundTrip
  <2>2. CASE pc' = [pc EXCEPT ![c] = afterWait] /\ UNCHANGED <<attempt, bodies, outcome>>
    <3>1. PlaceInLoop(afterWait) < PlaceInLoop(pc[c]) /\ pc[c] = "idle"
      BY <1>1, <1>6 DEF RoundTrip, PlaceInLoop
    <3> QED BY <1>5, <2>2, <3>1
  <2> QED BY <1>6, <2>1, <2>2 DEF RoundTrip
<1>7. CASE BackoffOver(c)
  <2>1. PlaceInLoop(afterWait) < PlaceInLoop(pc[c]) /\ pc[c] = "backoff"
    BY <1>1, <1>7 DEF BackoffOver, PlaceInLoop
  <2> QED BY <1>5, <1>7, <2>1 DEF BackoffOver
<1>8. CASE BackoffCancelled(c) \/ LimiterRefuses(c)
  BY <1>2, <1>8 DEF BackoffCancelled, LimiterRefuses
<1>9. CASE LimiterGrants(c)
  <2>1. PlaceInLoop("send") < PlaceInLoop(pc[c]) /\ pc[c] = "limit"
    BY <1>9 DEF LimiterGrants, PlaceInLoop
  <2> QED BY <1>5, <1>9, <2>1 DEF LimiterGrants
<1>10. CASE Attempt(c)
  <2>1. PlaceInLoop("sent") < PlaceInLoop(pc[c]) /\ pc[c] = "send"
    BY <1>10 DEF Attempt, PlaceInLoop
  <2> QED BY <1>5, <1>10, <2>1 DEF Attempt
<1>11. CASE NotSent(c) \/ AttemptCancelled(c) \/ ConnectionFails(c)
  BY <1>4, <1>11 DEF NotSent, AttemptCancelled, ConnectionFails
<1>12. CASE Response(c)
  BY <1>2, <1>3, <1>12 DEF Response
<1> QED BY <1>6, <1>7, <1>8, <1>9, <1>10, <1>11, <1>12 DEF Local

(* A call takes at most five steps of the loop for each attempt it may make, *)
(* and nothing the other calls, the deadline, the limiter's clock or the     *)
(* appliance do gives it a step more. What TLC finds on a small instance,    *)
(* that a call whose goroutine keeps running ends, rests on this.            *)
THEOREM LoopIsBounded == Spec => []LoopIsShort /\ [][LoopGoesDown]_vars
<1>1. LoopInv => LoopIsShort
  BY StepsLeftRange DEF LoopInv, LoopIsShort
<1>2. LoopInv /\ LoopInv' /\ [Next]_vars => [LoopGoesDown]_vars
  <2> SUFFICES ASSUME LoopInv, LoopInv', Next PROVE LoopGoesDown
    OBVIOUS
  <2>1. TypeOK /\ TypeOK'
    BY DEF LoopInv
  <2>2. ASSUME UNCHANGED call PROVE LoopGoesDown
    BY <2>2 DEF call, LoopGoesDown
  <2>3. ASSUME NEW c \in Calls, RoundTrip(c) \/ Local(c) \/ ConnectionFails(c) PROVE LoopGoesDown
    BY <2>1, <2>3, LoopLowers
  <2>4. CASE (\E c \in Calls : Expire(c)) \/ Refill
    BY <2>2, <2>4 DEF Expire, Refill
  <2>5. CASE \E a \in wire : Runs(a[1], a[2]) \/ RunsNot(a[1], a[2]) \/ LostAnswer(a[1], a[2])
    BY <2>2, <2>5 DEF Runs, RunsNot, LostAnswer, Answer
  <2> QED BY <2>3, <2>4, <2>5 DEF Next
<1> QED BY <1>1, <1>2, LoopInvariance, PTL DEF Spec
=============================================================================
