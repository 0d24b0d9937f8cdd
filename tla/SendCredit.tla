------------------------------ MODULE SendCredit ------------------------------
(***************************************************************************)
(* What a send flow-control window promises the goroutines that share it,  *)
(* whatever lock or condition variable it is built from.  The peer grants  *)
(* credit, a sender takes the credit it asked for in one step or waits for *)
(* it, unused credit goes back, and a closed window turns everyone away.   *)
(* A sender that waits is served as long as its demand stays covered.      *)
(***************************************************************************)
EXTENDS Integers

CONSTANTS
    Senders,        \* the goroutines that ask for credit
    Demands         \* the amounts one request may ask for

VARIABLES
    credit,         \* what may still be taken; negative after a shrunk SETTINGS
    taken,          \* credit taken and neither spent nor given back
    demand,         \* demand[t]: what sender t waits for, 0 when it does not wait
    dead            \* the window is closed for good

vars == <<credit, taken, demand, dead>>

Init ==
    /\ credit \in Int
    /\ taken = 0
    /\ demand = [t \in Senders |-> 0]
    /\ dead = FALSE

\* A request whose credit is there is granted at once ...
Take(t, n) ==
    /\ demand[t] = 0 /\ ~dead /\ credit >= n
    /\ credit' = credit - n
    /\ taken' = taken + n
    /\ UNCHANGED <<demand, dead>>

\* ... and waits otherwise.
Wait(t, n) ==
    /\ demand[t] = 0 /\ ~dead /\ credit < n
    /\ demand' = [demand EXCEPT ![t] = n]
    /\ UNCHANGED <<credit, taken, dead>>

\* A waiting sender leaves with its credit, or with an error once the window is dead.
Serve(t) ==
    /\ demand[t] # 0
    /\ \/ /\ ~dead /\ credit >= demand[t]
          /\ credit' = credit - demand[t]
          /\ taken' = taken + demand[t]
       \/ dead /\ UNCHANGED <<credit, taken>>
    /\ demand' = [demand EXCEPT ![t] = 0]
    /\ UNCHANGED dead

\* The peer adds or (by SETTINGS) withdraws credit.
Adjust ==
    /\ ~dead
    /\ credit' \in Int
    /\ UNCHANGED <<taken, demand, dead>>

GiveBack(n) ==
    /\ n <= taken
    /\ credit' = credit + n
    /\ taken' = taken - n
    /\ UNCHANGED <<demand, dead>>

Spend(n) ==
    /\ n <= taken
    /\ taken' = taken - n
    /\ UNCHANGED <<credit, demand, dead>>

Kill ==
    /\ ~dead /\ dead' = TRUE
    /\ UNCHANGED <<credit, taken, demand>>

Next ==
    \/ \E t \in Senders : Serve(t) \/ \E n \in Demands : Take(t, n) \/ Wait(t, n)
    \/ \E n \in Demands : GiveBack(n) \/ Spend(n)
    \/ Adjust
    \/ Kill

Spec == Init /\ [][Next]_vars /\ \A t \in Senders : WF_vars(Serve(t))
===============================================================================
