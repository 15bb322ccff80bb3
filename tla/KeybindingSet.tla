--------------------------- MODULE KeybindingSet ---------------------------
(***************************************************************************)
(* What the hotkey service promises the user, without threads, flags or    *)
(* messages: one configuration is in force at a time; hotkeys are taken    *)
(* only for it; and every hotkey it took is given back before another      *)
(* configuration comes into force.                                         *)
(***************************************************************************)
EXTENDS Naturals, Sequences

CONSTANTS Configurations, \* sequences of key combinations
          Nothing         \* no configuration is in force

VARIABLES inForce,    \* the configuration in force, or Nothing
          retiring,   \* it is being withdrawn
          registered  \* the combinations held with the system

vars == <<inForce, retiring, registered>>

Keys(c) == {c[i] : i \in 1 .. Len(c)}

Init ==
    /\ inForce = Nothing
    /\ retiring = FALSE
    /\ registered = {}

\* A configuration comes into force, with no key held.
Adopt(c) ==
    /\ inForce = Nothing
    /\ registered = {}
    /\ inForce' = c
    /\ UNCHANGED <<retiring, registered>>

\* One of its keys is taken.
Take(k) ==
    /\ inForce # Nothing
    /\ ~retiring
    /\ k \in Keys(inForce)
    /\ registered' = registered \union {k}
    /\ UNCHANGED <<inForce, retiring>>

\* Its withdrawal begins.
Retire ==
    /\ inForce # Nothing
    /\ retiring' = TRUE
    /\ UNCHANGED <<inForce, registered>>

\* A key is given back.
GiveBack(k) ==
    /\ retiring
    /\ registered' = registered \ {k}
    /\ UNCHANGED <<inForce, retiring>>

\* With every key given back it is in force no more.
Withdraw ==
    /\ retiring
    /\ registered = {}
    /\ inForce' = Nothing
    /\ retiring' = FALSE
    /\ UNCHANGED registered

Next ==
    \/ \E c \in Configurations : Adopt(c)
    \/ inForce # Nothing /\ \E k \in Keys(inForce) : Take(k)
    \/ Retire
    \/ \E k \in registered : GiveBack(k)
    \/ Withdraw

Spec == Init /\ [][Next]_vars
============================================================================
