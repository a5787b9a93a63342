----------------------------- MODULE Transactions -----------------------------
(***************************************************************************)
(* What a scenario may rely on when it sends transactions one after the    *)
(* other: a transaction takes effect at most once, and what it is told     *)
(* about it is true. Only of a transaction whose answer got lost it knows   *)
(* nothing, and that one may still take effect.                             *)
(***************************************************************************)
EXTENDS Naturals

CONSTANT MaxTransactions
VARIABLES
    done,   \* the transactions that took effect
    told    \* what the scenario was told of each
vars == <<done, told>>

Transaction == 1..MaxTransactions
Init == done = {} /\ told = [n \in Transaction |-> "nothing"]

Tell(n, what) == told[n] = "nothing" /\ told' = [told EXCEPT ![n] = what]
Succeed(n) == Tell(n, "success") /\ done' = done \cup {n}
Refuse(n) == Tell(n, "no success") /\ UNCHANGED done
Lose(n) == Tell(n, "lost") /\ UNCHANGED done
TakeEffectLate(n) ==
    told[n] = "lost" /\ n \notin done /\ done' = done \cup {n} /\ UNCHANGED told
\* A dry run tells of success, and does nothing.
Pretend(n) == Tell(n, "dry run") /\ UNCHANGED done

Next == \E n \in Transaction :
    Succeed(n) \/ Refuse(n) \/ Lose(n) \/ TakeEffectLate(n) \/ Pretend(n)
Spec == Init /\ [][Next]_vars
===============================================================================
