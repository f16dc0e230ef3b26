----------------------------- MODULE SingleFlight -----------------------------
(* What the mutation lease promises to its callers: each operation runs at  *)
(* most once, alone, and one that has ended does not go on.                 *)
CONSTANTS Ops,
          Reusable      \* a call that has ended leaves its slot to another

VARIABLE stage

vars == stage

Init == stage = [o \in Ops |-> "before"]

\* The operation starts only when no other one is running.
Enter(op) ==
  /\ stage[op] = "before"
  /\ \A o \in Ops : stage[o] # "inside"
  /\ stage' = [stage EXCEPT ![op] = "inside"]

\* Calls end, with their operation or before it has started: one alone, or all
\* of a tab or of a promise together.
End(ops) ==
  /\ \A o \in ops : stage[o] \in {"before", "inside"}
  /\ stage' = [o \in Ops |-> IF o \notin ops THEN stage[o]
                             ELSE IF Reusable THEN "before" ELSE "after"]

Next == (\E op \in Ops : Enter(op)) \/ \E ops \in SUBSET Ops : End(ops)

Spec == Init /\ [][Next]_vars
=============================================================================
