----------------------------- MODULE WorkQueue -----------------------------
(***************************************************************************)
(* What a queue of work promises, without its dispatcher, threads,         *)
(* requests or restarts.  A task works only on a permit it was given       *)
(* before, and rivals never work at the same time; completed work gets no  *)
(* further permit.  A store that has failed once (sound is FALSE) may lose *)
(* what a task had come to, but grants no permit and starts no work.       *)
(***************************************************************************)
EXTENDS Integers

CONSTANTS
    Tasks,
    Rivals      \* the pairs of tasks that must not work together

VARIABLES
    phase,      \* what each task has come to
    permits,    \* the starts it has been permitted and not made
    sound       \* the store has not failed yet

vars == <<phase, permits, sound>>

Phases == {"idle", "working", "completed", "gone"}

Init ==
    /\ phase = [t \in Tasks |-> "idle"]
    /\ permits = [t \in Tasks |-> 0]
    /\ sound = TRUE

Becomes(t, p) == phase'[t] = p /\ permits'[t] = permits[t]

Keep(t) == Becomes(t, phase[t])

Permit(t) ==
    /\ phase[t] \notin {"completed", "gone"} /\ phase'[t] = phase[t]
    /\ permits'[t] = permits[t] + 1

Start(t) ==
    /\ permits[t] > 0 /\ permits'[t] = permits[t] - 1
    /\ phase[t] # "working" /\ phase'[t] = "working"
    /\ sound => phase[t] # "completed"
    /\ \A u \in Tasks : <<t, u>> \in Rivals => phase'[u] # "working"

End(t) == phase[t] = "working" /\ \E p \in Phases \ {"working"} : Becomes(t, p)

Remove(t) == phase[t] # "working" /\ Becomes(t, "gone")

Disturb(t) == ~sound /\ phase[t] = "completed" /\ Becomes(t, "idle")

Next ==
    /\ phase' \in [Tasks -> Phases] /\ permits' \in [Tasks -> Nat]
    /\ sound' \in BOOLEAN /\ (sound' => sound)
    /\ \A t \in Tasks :
         Keep(t) \/ Permit(t) \/ Start(t) \/ End(t) \/ Remove(t) \/ Disturb(t)

Spec == Init /\ [][Next]_vars
=============================================================================
