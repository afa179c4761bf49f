---------------------------- MODULE EventFollower ----------------------------
(***************************************************************************)
(* What a follower of an event stream promises, without workers, leases,   *)
(* batches or crashes: one reader that consumes the events in order and    *)
(* without a gap into the generation it follows, halts where it may not go *)
(* on, and can be set to any generation by replaying it from the start.    *)
(***************************************************************************)
EXTENDS Naturals

CONSTANTS Stream, Generations

VARIABLES
    log,        \* events that exist, 1..log
    opened,     \* generations that exist, 1..opened
    wanted,     \* the events each generation projects
    refused,    \* the events each generation does not accept
    active,     \* the generation that follows the stream
    position,   \* and how far it is
    state,      \* "following", or what it has halted for: an "event" or the "reader"
    contents,   \* what each generation has projected
    hidden      \* events whose item is suppressed

progress == <<active, position, state>>
terms == <<opened, wanted, refused>>
vars == <<log, terms, progress, contents, hidden>>

Init ==
    /\ log = 0 /\ opened = 1
    /\ wanted \in [Generations -> SUBSET Stream] /\ refused \in [Generations -> SUBSET Stream]
    /\ active = 1 /\ position = 0 /\ state = "following"
    /\ contents = [g \in Generations |-> {}] /\ hidden = {}

Within(S, from, to) == {e \in S : from < e /\ e <= to}

Hear == log' = log + 1 /\ UNCHANGED <<terms, progress, contents, hidden>>

Advance(to) ==
    /\ state = "following" /\ position < to /\ to <= log
    /\ Within(refused[active], position, to) = {}
    /\ position' = to
    /\ contents' = [contents EXCEPT ![active] = @ \cup (Within(wanted[active], position, to) \ hidden)]
    /\ UNCHANGED <<log, terms, active, state, hidden>>

Halt ==
    /\ state = "following"
    /\ \/ state' = "reader"
       \/ state' = "event" /\ Within(refused[active], position, log) # {}
    /\ UNCHANGED <<log, terms, active, position, contents, hidden>>

Resume ==
    /\ state # "following" /\ state' = "following"
    /\ UNCHANGED <<log, terms, active, position, contents, hidden>>

Admit(g) ==
    /\ UNCHANGED <<log, opened, progress, contents, hidden>>
    /\ refused'[g] \subseteq refused[g]
    /\ refused' = [refused EXCEPT ![g] = refused'[g]]
    /\ UNCHANGED wanted

Hide(e) ==
    /\ hidden' = hidden \cup {e}
    /\ UNCHANGED <<log, terms, progress, contents>>

\* Generation g is made anew from the first events up to one, all of them accepted.
MadeOf(g, to) ==
    /\ active' = g /\ position' = to /\ state' = "following"
    /\ to <= log /\ Within(refused'[g], 0, to) = {}
    /\ contents' = [contents EXCEPT ![g] = Within(wanted'[g], 0, to) \ hidden]

Replay(g, to) == g <= opened /\ MadeOf(g, to) /\ UNCHANGED <<log, terms, hidden>>

Open(to) ==
    /\ opened' = opened + 1 /\ opened' \in Generations
    /\ MadeOf(opened', to) /\ UNCHANGED <<log, hidden>>
    /\ \E W \in SUBSET Stream : wanted' = [wanted EXCEPT ![opened'] = W]
    /\ \E R \in SUBSET Stream : refused' = [refused EXCEPT ![opened'] = R]

Next ==
    \/ Hear \/ Halt \/ Resume
    \/ \E e \in Stream : Hide(e)
    \/ \E g \in Generations : Admit(g)
    \/ \E to \in Stream \cup {0} :
         \/ Advance(to) \/ Open(to)
         \/ \E g \in Generations : Replay(g, to)

Spec == Init /\ [][Next]_vars
=============================================================================
