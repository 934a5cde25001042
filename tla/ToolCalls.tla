------------------------------ MODULE ToolCalls ------------------------------
(***************************************************************************)
(* What the DHCP, DNS and VLAN tools have in common: any number of calls   *)
(* at once, each of which checks its input against the guardrails, may     *)
(* read the appliance once and check what it read, then sends its mutation *)
(* until it is answered. The server keeps nothing of this when it stops;   *)
(* started again, it may have other guardrails, while mutations it sent    *)
(* earlier are still on their way.                                         *)
(*                                                                         *)
(* Every step here leaves the appliance alone; the modules that extend     *)
(* this one add its state. A call refused before its first request is no   *)
(* step.                                                                   *)
(***************************************************************************)
EXTENDS Integers, FiniteSets

CONSTANTS
    Calls,        \* slots for concurrent tool calls
    Guards,       \* guardrail configurations the server may be started with
    MaxInFlight   \* bound: mutations on their way to the appliance at once

ASSUME CallsAssumption == MaxInFlight \in Nat

VARIABLES
    g,      \* the guardrails the server was started with
    pc,     \* each call's progress: "idle", "lookup", "send", "wait"
    req,    \* each call's request, NoReq when idle
    wire,   \* mutations sent and not yet executed or dropped
    raced   \* while a checked mutation was pending, an administrator changed
            \* the appliance or the server was started again

callVars == <<g, pc, req, wire, raced>>

NoReq == [op |-> "none"]

(* Mutations whose guard checks are over and whose execution may be to come. *)
Checked == wire \cup {req[c] : c \in {d \in Calls : pc[d] \in {"send", "wait"}}}

CallsTypeOK(Request) ==
    /\ g \in Guards
    /\ pc \in [Calls -> {"idle", "lookup", "send", "wait"}]
    /\ req \in [Calls -> Request \cup {NoReq}]
    /\ \A c \in Calls : pc[c] # "idle" => req[c] \in Request
    /\ wire \subseteq Request
    /\ raced \in BOOLEAN

CallsInit ==
    /\ g \in Guards
    /\ pc = [c \in Calls |-> "idle"]
    /\ req = [c \in Calls |-> NoReq]
    /\ wire = {}
    /\ raced = FALSE

(* A race is over once no checked mutation is pending.                       *)
Settle == raced' = (raced /\ Checked' # {})

Enter(c, r, stage) ==
    /\ pc[c] = "idle"
    /\ pc' = [pc EXCEPT ![c] = stage]
    /\ req' = [req EXCEPT ![c] = r]
    /\ UNCHANGED <<g, wire>>
    /\ Settle

(* What was read back passed the guards.                                     *)
Pass(c) ==
    /\ pc[c] = "lookup"
    /\ pc' = [pc EXCEPT ![c] = "send"]
    /\ UNCHANGED <<g, req, wire>>
    /\ Settle

(* The reply arrives, a lookup fails or finds something protected, or the    *)
(* call is cancelled; a request already on its way stays on its way.         *)
Return(c) ==
    /\ pc[c] # "idle"
    /\ pc' = [pc EXCEPT ![c] = "idle"]
    /\ req' = [req EXCEPT ![c] = NoReq]
    /\ UNCHANGED <<g, wire>>
    /\ Settle

(* The transport sends the mutation, and again when the answer is lost or    *)
(* asks for a retry.                                                         *)
Send(c) ==
    /\ pc[c] \in {"send", "wait"}
    /\ req[c] \notin wire
    /\ Cardinality(wire) < MaxInFlight
    /\ pc' = [pc EXCEPT ![c] = "wait"]
    /\ wire' = wire \cup {req[c]}
    /\ UNCHANGED <<g, req>>
    /\ Settle

(* The appliance takes a mutation off the wire, to run it or not.            *)
Execute(m) ==
    /\ m \in wire
    /\ wire' = wire \ {m}
    /\ UNCHANGED <<g, pc, req>>
    /\ Settle

(* The server stops, by a signal or a crash, and is started again.           *)
Restart ==
    /\ g' \in Guards
    /\ pc' = [c \in Calls |-> "idle"]
    /\ req' = [c \in Calls |-> NoReq]
    /\ UNCHANGED wire
    /\ raced' = (Checked' # {})

(* An administrator changes the appliance by other means.                    *)
Overtake ==
    /\ raced' = (Checked # {})
    /\ UNCHANGED <<g, pc, req, wire>>

(* Every step of a call and of the appliance for one, none of an             *)
(* administrator's, moves a call or takes a request off the wire.            *)
ToolStep == <<pc, wire>>' # <<pc, wire>>
=============================================================================
