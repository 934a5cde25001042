----------------------------- MODULE RemoteCall -----------------------------
(***************************************************************************)
(* What a tool may count on when it sends a mutation to the appliance: the *)
(* call ends, "ok" only after the mutation ran; the mutation runs a        *)
(* bounded number of times, maybe none, maybe after the call has ended.    *)
(***************************************************************************)
EXTENDS Naturals

CONSTANTS
    Calls,
    MaxRuns  \* how often the appliance may run one mutation

VARIABLES
    stage,   \* "idle", "pending", "ok" or "failed" for each call
    runs     \* how often each call's mutation ran

vars == <<stage, runs>>

Init == stage = [c \in Calls |-> "idle"] /\ runs = [c \in Calls |-> 0]

Begin(c) ==
    /\ stage[c] = "idle"
    /\ \E s \in {"pending", "failed"} : stage' = [stage EXCEPT ![c] = s]
    /\ UNCHANGED runs

Run(c) ==
    /\ stage[c] # "idle" /\ runs[c] < MaxRuns
    /\ runs' = [runs EXCEPT ![c] = @ + 1]
    /\ UNCHANGED stage

End(c) ==
    /\ stage[c] = "pending"
    /\ \/ runs[c] > 0 /\ stage' = [stage EXCEPT ![c] = "ok"]
       \/ stage' = [stage EXCEPT ![c] = "failed"]
    /\ UNCHANGED runs

Next == \E c \in Calls : Begin(c) \/ Run(c) \/ End(c)

SafeSpec == Init /\ [][Next]_vars

Spec == SafeSpec /\ \A c \in Calls : WF_vars(End(c))
=============================================================================
