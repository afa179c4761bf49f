---- MODULE StageLedger ----
(* What a long-horizon plan promises the outside world: its stages finish in    *)
(* order, the effect of a mutating stage is sent at most once at a time and     *)
(* takes place at most once, a stage finishes only with its effect in place,    *)
(* and a plan that has ended sends and finishes nothing more.                   *)
EXTENDS Naturals

CONSTANTS N, Mutating

VARIABLES effect, done, outcome

ledger == <<effect, done, outcome>>
Init == effect = [s \in 1..N |-> "absent"] /\ done = 0 /\ outcome = "open"

\* A stage's effect is let go: only the next stage's, only while the plan is open.
Send(s) == /\ outcome = "open" /\ s = done + 1 /\ effect[s] = "absent"
           /\ effect' = [effect EXCEPT ![s] = "sent"]
           /\ UNCHANGED <<done, outcome>>
\* The world's answer may come at any time after.
Land(s) == /\ effect[s] = "sent" /\ effect' = [effect EXCEPT ![s] = "landed"]
           /\ UNCHANGED <<done, outcome>>
Lose(s) == /\ effect[s] = "sent" /\ effect' = [effect EXCEPT ![s] = "absent"]
           /\ UNCHANGED <<done, outcome>>
Finish == /\ outcome = "open" /\ done < N
          /\ (done + 1) \in Mutating => effect[done + 1] = "landed"
          /\ done' = done + 1 /\ UNCHANGED <<effect, outcome>>
Complete == outcome = "open" /\ done = N /\ outcome' = "complete" /\ UNCHANGED <<effect, done>>
Stop == outcome = "open" /\ outcome' = "ended" /\ UNCHANGED <<effect, done>>

Next == (\E s \in 1..N : Send(s) \/ Land(s) \/ Lose(s)) \/ Finish \/ Complete \/ Stop
Spec == Init /\ [][Next]_ledger
====
