-------------------------- MODULE StandingConsent --------------------------
(***************************************************************************)
(* What foreground approvals promise, without rows, ids or fingerprints:   *)
(* an exact call goes through in a scope only on a consent the operator    *)
(* gave by answering a request, either once, or for that scope until it    *)
(* lapses or is revoked, or everywhere until it is revoked.                *)
(***************************************************************************)
CONSTANTS Calls, Scopes
VARIABLES asked,    \* <<call, scope>> pairs with an undecided request
          once,     \* <<call, scope>> pairs that may go through one time
          session,  \* <<call, scope>> pairs that may go through repeatedly
          always,   \* calls that may go through in every scope
          ran       \* flips each time a pair goes through

consentVars == <<asked, once, session, always, ran>>
Keys == Calls \X Scopes

ConsentInit ==
    /\ asked = {} /\ once = {} /\ session = {} /\ always = {}
    /\ ran = [k \in Keys |-> FALSE]

Ask(k) ==
    /\ k \notin asked \cup once
    /\ asked' = asked \cup {k}
    /\ UNCHANGED <<once, session, always, ran>>

\* Each decision uses a request up and adds at most one consent.
Answer(k) ==
    /\ k \in asked
    /\ asked' = asked \ {k}
    /\ \/ UNCHANGED <<once, session, always>>
       \/ /\ once' = once \cup {k}
          /\ UNCHANGED <<session, always>>
       \/ /\ session' = session \cup {k}
          /\ UNCHANGED <<once, always>>
       \/ /\ always' = always \cup {k[1]}
          /\ UNCHANGED <<once, session>>
    /\ UNCHANGED ran

Run(k) ==
    /\ \/ (k[1] \in always \/ k \in session) /\ UNCHANGED once
       \/ k \in once /\ once' = once \ {k}
    /\ ran' = [ran EXCEPT ![k] = ~@]
    /\ UNCHANGED <<asked, session, always>>

\* Time passing, a revocation and the deletion of a scope only take away.
TakeAway ==
    /\ asked' \in SUBSET asked /\ once' \in SUBSET once
    /\ session' \in SUBSET session /\ always' \in SUBSET always
    /\ UNCHANGED ran

ConsentNext == TakeAway \/ \E k \in Keys : Ask(k) \/ Answer(k) \/ Run(k)
ConsentSpec == ConsentInit /\ [][ConsentNext]_consentVars
=============================================================================
