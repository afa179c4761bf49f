--------------------------- MODULE ConsentLedger ---------------------------
(***************************************************************************)
(* What the approval table promises, without rows, ids or lookups: each    *)
(* exact call has one current request; the call runs only while that       *)
(* request is granted, and running it uses the grant up.                   *)
(***************************************************************************)
EXTENDS Naturals

CONSTANT Calls      \* exact (scope, fingerprint) pairs
VARIABLES request,  \* the state of each call's current request
          runs      \* how often each call has been let through

ledgerVars == <<request, runs>>

RequestStates == {"none", "asked", "granted", "refused", "used", "lapsed"}

LedgerInit ==
    /\ request = [c \in Calls |-> "none"]
    /\ runs = [c \in Calls |-> 0]

\* A call without a standing request asks the operator.
Ask(c) ==
    /\ request[c] \notin {"asked", "granted"}
    /\ request' = [request EXCEPT ![c] = "asked"]
    /\ UNCHANGED runs

Decide(c, verdict) ==
    /\ request[c] = "asked"
    /\ request' = [request EXCEPT ![c] = verdict]
    /\ UNCHANGED runs

Use(c) ==
    /\ request[c] = "granted"
    /\ request' = [request EXCEPT ![c] = "used"]
    /\ runs' = [runs EXCEPT ![c] = @ + 1]

\* Time runs out, for any set of grants at once.
Lapse ==
    /\ \A c \in Calls : request'[c] # request[c]
                          => request[c] = "granted" /\ request'[c] = "lapsed"
    /\ request' \in [Calls -> RequestStates]
    /\ UNCHANGED runs

LedgerNext ==
    \/ Lapse
    \/ \E c \in Calls : Ask(c) \/ Use(c) \/ \E v \in {"granted", "refused"} : Decide(c, v)

LedgerSpec == LedgerInit /\ [][LedgerNext]_ledgerVars
=============================================================================
