------------------------------- MODULE TradeBudget -------------------------------
(***************************************************************************)
(* What the gate of a trading session promises the owner of the session,  *)
(* whatever reservations, windows, rows and change events it keeps to do   *)
(* it: a budget that is committed only while it is open, never beyond the  *)
(* cap of that moment, and that stays closed once it is closed.            *)
(***************************************************************************)
EXTENDS Integers

CONSTANT Caps  \* the caps the owner may set

VARIABLES
    committed,  \* spent in the window, or promised to an execution in flight
    cap,        \* the daily cap in force
    open        \* whether the session is active

budgetVars == <<committed, cap, open>>

Init ==
    /\ committed = 0
    /\ cap \in Caps
    /\ open = TRUE

(* An execution is let through.                                            *)
Commit ==
    /\ open
    /\ committed' > committed
    /\ committed' =< cap
    /\ UNCHANGED <<cap, open>>

(* An execution fills for less or dies, the window ends, the session is    *)
(* revoked or expires.                                                     *)
Release ==
    /\ committed' =< committed
    /\ open' \in {open, FALSE}
    /\ UNCHANGED cap

(* The owner changes the cap of a session that is active.                  *)
SetCap ==
    /\ open
    /\ cap' \in Caps
    /\ UNCHANGED <<committed, open>>

Next == Commit \/ Release \/ SetCap

Spec == Init /\ [][Next]_budgetVars
=============================================================================
