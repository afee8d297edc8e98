------------------------------ MODULE Registry ------------------------------
(***************************************************************************)
(* What `wirebard peer add` and `peer remove` promise their callers about   *)
(* the ledger of one network (docs/design/peer-provisioning.md, 3 and 5):   *)
(* each request takes effect in one step, or not at all.                    *)
(*                                                                          *)
(*   - a known key keeps its address, a new one gets the lowest free host,  *)
(*     and exit 1 is given to an add only when the subnet is full;          *)
(*   - removing an unknown key succeeds and changes nothing;                *)
(*   - exit 3 means that nothing has changed;                               *)
(*   - a process that is killed has served its request or it has not.       *)
(***************************************************************************)
EXTENDS AddressPlan

CONSTANTS Process, Ops

VARIABLES
    members,  \* the peers of the network
    request,  \* the command each process was given
    answer    \* what it has answered

LedgerOps == {"add", "remove"}
NoRequest == [op |-> "none"]

Init ==
    /\ members = {}
    /\ request = [p \in Process |-> NoRequest]
    /\ answer = [p \in Process |-> "none"]

Invoke(p) ==
    /\ request[p] = NoRequest
    /\ \E op \in Ops :
        IF op \in LedgerOps
        THEN \E k \in Key :
               request' = [request EXCEPT ![p] = [op |-> op, key |-> k]]
        ELSE request' = [request EXCEPT ![p] = [op |-> op]]
    /\ UNCHANGED <<members, answer>>

\* The members once the request r is served.
Served(r) ==
    CASE r.op = "add" /\ r.key \notin KeysOf(members) /\ Free(members) # {} ->
             members \cup {[key |-> r.key, addr |-> LowestFree(members)]}
      [] r.op = "remove" -> {a \in members : a.key # r.key}
      [] OTHER -> members

Verdict(r) ==
    CASE r.op = "add" /\ r.key \in KeysOf(members) -> {"present"}
      [] r.op = "add" /\ r.key \notin KeysOf(members) ->
             {IF Free(members) = {} THEN "config" ELSE "added"}
      [] r.op = "remove" ->
             {IF r.key \in KeysOf(members) THEN "removed" ELSE "absent"}
      [] r.op = "apply" -> {"applied", "config"}
      [] r.op = "build" -> {"built", "config"}
      [] r.op \in {"check", "network"} -> {"shown", "config"}

Waiting(p) == request[p] # NoRequest /\ answer[p] = "none"

Serve(p) ==
    /\ Waiting(p)
    /\ \E v \in Verdict(request[p]) : answer' = [answer EXCEPT ![p] = v]
    /\ members' = Served(request[p])
    /\ UNCHANGED request

Refuse(p) ==
    /\ Waiting(p)
    /\ answer' = [answer EXCEPT ![p] = "env"]
    /\ UNCHANGED <<members, request>>

Return(p) ==
    /\ answer[p] # "none"
    /\ answer' = [answer EXCEPT ![p] = "none"]
    /\ request' = [request EXCEPT ![p] = NoRequest]
    /\ UNCHANGED members

\* Processes die; at most one of them has served its request unanswered.
Die ==
    \E dead \in SUBSET Process :
        /\ request' = [p \in Process |-> IF p \in dead THEN NoRequest ELSE request[p]]
        /\ answer' = [p \in Process |-> IF p \in dead THEN "none" ELSE answer[p]]
        /\ \/ UNCHANGED members
           \/ \E p \in dead : Waiting(p) /\ members' = Served(request[p])

Next ==
    \/ \E p \in Process : Invoke(p) \/ Serve(p) \/ Refuse(p) \/ Return(p)
    \/ Die

Spec == Init /\ [][Next]_<<members, request, answer>>
=============================================================================
