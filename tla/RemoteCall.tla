----------------------------- MODULE RemoteCall -----------------------------
(***************************************************************************)
(* What the trunk link promises the layer above (trunk sections 3 and 7,   *)
(* spec SC-004): numbered calls, one open at a time; the addressed node's  *)
(* application runs at most once per call; a call is answered only with    *)
(* the result of its own run; a call that failed may still be run later.   *)
(***************************************************************************)
EXTENDS Naturals

CONSTANT MaxTxn    \* bound: number of calls

VARIABLES
    last,       \* the number of the latest call, 0 before the first
    runs,       \* runs[k]: how often the application ran call k
    outcome     \* outcome[k]: "none", "open", "failed" or "answered"

vars == <<last, runs, outcome>>
Call == 1..MaxTxn

Init ==
    /\ last = 0
    /\ runs = [k \in Call |-> 0]
    /\ outcome = [k \in Call |-> "none"]

Begin ==
    /\ last < MaxTxn
    /\ last > 0 => outcome[last] # "open"
    /\ last' = last + 1
    /\ outcome' = [outcome EXCEPT ![last + 1] = "open"]
    /\ UNCHANGED runs

Execute(k) ==
    /\ outcome[k] # "none" /\ runs[k] = 0
    /\ runs' = [runs EXCEPT ![k] = 1]
    /\ UNCHANGED <<last, outcome>>

Conclude ==
    /\ last > 0 /\ outcome[last] = "open"
    /\ \/ outcome' = [outcome EXCEPT ![last] = "failed"]
       \/ runs[last] = 1 /\ outcome' = [outcome EXCEPT ![last] = "answered"]
    /\ UNCHANGED <<last, runs>>

Next == Begin \/ Conclude \/ \E k \in Call : Execute(k)

Spec == Init /\ [][Next]_vars
=============================================================================
