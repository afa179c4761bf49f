---------------------------- MODULE MemoryBridge ----------------------------
(***************************************************************************)
(* The replay bridge (memory_bridge.py): workers copy the event stream of  *)
(* the multi-agent runtime into projections of the memory database, batch  *)
(* by batch behind one cursor, under a lease another worker may take over. *)
(* What the stream holds that the bridge cannot accept halts it until the  *)
(* operator resumes; the operator may also rebuild a generation or open a  *)
(* new one, which replay history from its first event.  Timestamps are     *)
(* countdowns; the events are 1, 2, 3, ... in the order of the stream.     *)
(***************************************************************************)
EXTENDS Integers

CONSTANTS
    Workers,              \* processes that may run an ingest pass
    Families, Projects,   \* event types and runtime projects
    Family, Project,      \* those of each event (envelope and record: one project)
    Malformed,            \* events whose envelope is not accepted
    FirstContract,        \* the types the first generation projects
    MaxEvents, MaxGenerations, Batch, LeaseLength,
    Asks, Troubles,       \* requests of the operator; failed reads and crashes
    Nobody, Dead, NoProject

Events == 1..MaxEvents
Generations == 1..MaxGenerations

ASSUME BridgeAssumption ==
    /\ MaxEvents \in Nat /\ MaxGenerations \in Nat \ {0}
    /\ Batch \in Nat \ {0} /\ LeaseLength \in Nat \ {0} /\ Asks \in Nat /\ Troubles \in Nat
    /\ Family \in [Events -> Families] /\ Project \in [Events -> Projects \cup {NoProject}]
    /\ FirstContract \subseteq Families /\ Malformed \subseteq Events
    /\ NoProject \notin Projects /\ Nobody \notin Workers /\ Dead \notin Workers /\ Nobody # Dead

VARIABLES
    log,         \* events the runtime has accepted
    opened,      \* generations opened
    contract,    \* the types each generation projects
    mapped,      \* the runtime projects each generation maps
    cursor,      \* memory_bridge_cursor
    rows,        \* the events each generation has projected
    suppressed,  \* events whose item is suppressed
    lease,       \* memory_bridge_lease
    pass,        \* what each worker has read in its current pass
    budget       \* requests and troubles left (bounds)

tables == <<opened, contract, mapped, rows>>
vars == <<log, tables, cursor, suppressed, lease, pass, budget>>

HaltCodes == {"sequence_gap", "malformed_event", "unmapped_project", "reader"}
Phases == {"idle", "looking", "more", "read", "failed", "ending"}
Idle == [phase |-> "idle", at |-> 0, upto |-> 0]

TypeOK ==
    /\ log \in 0..MaxEvents
    /\ opened \in Generations
    /\ contract \in [Generations -> SUBSET Families]
    /\ mapped \in [Generations -> SUBSET Projects]
    /\ cursor \in [gen : 1..opened, seq : 0..log, status : {"active", "halted"},
                   code : HaltCodes \cup {"none"}]
    /\ cursor.status = "halted" <=> cursor.code # "none"
    /\ rows \in [Generations -> SUBSET (1..log)]
    /\ suppressed \subseteq Events
    /\ lease \in [owner : Workers \cup {Nobody, Dead}, left : 0..LeaseLength]
    /\ pass \in [Workers -> [phase : Phases, at : 0..log, upto : 0..log]]
    /\ \A w \in Workers : pass[w].phase = "read" => pass[w].at < pass[w].upto
    /\ budget \in [asks : 0..Asks, troubles : 0..Troubles]

Active(gen, seq) == [gen |-> gen, seq |-> seq, status |-> "active", code |-> "none"]

Init ==
    /\ log = 0
    /\ opened = 1
    /\ contract = [g \in Generations |-> IF g = 1 THEN FirstContract ELSE {}]
    /\ mapped = [g \in Generations |-> {}]
    /\ cursor = Active(1, 0)
    /\ rows = [g \in Generations |-> {}]
    /\ suppressed = {}
    /\ lease = [owner |-> Nobody, left |-> 0]
    /\ pass = [w \in Workers |-> Idle]
    /\ budget = [asks |-> Asks, troubles |-> Troubles]

-----------------------------------------------------------------------------
(* What a generation makes of an event.                                     *)

Reduced(types, e) == Family[e] \in types
Unmapped(map, e) == Project[e] \notin map \cup {NoProject}
Refused(types, map, e) == e \in Malformed \/ (Reduced(types, e) /\ Unmapped(map, e))
\* Mutant: a suppressed item comes back.
ItemsAll(types, from, to) == {e \in Events : from < e /\ e <= to /\ Reduced(types, e)}
Items(types, from, to) ==
    {e \in Events : from < e /\ e <= to /\ Reduced(types, e) /\ e \notin suppressed}

\* The first event of a batch that is refused decides the code of the halt.
FirstRefused(from, to) ==
    CHOOSE e \in Events :
        /\ from < e /\ e <= to /\ Refused(contract[cursor.gen], mapped[cursor.gen], e)
        /\ \A d \in Events : from < d /\ d < e => ~Refused(contract[cursor.gen], mapped[cursor.gen], d)
Accepted(types, map, from, to) == \A e \in Events : from < e /\ e <= to => ~Refused(types, map, e)
Verdict(from, to) ==
    IF from # cursor.seq THEN "sequence_gap"
    ELSE IF Accepted(contract[cursor.gen], mapped[cursor.gen], from, to) THEN "none"
    ELSE IF FirstRefused(from, to) \in Malformed THEN "malformed_event" ELSE "unmapped_project"

-----------------------------------------------------------------------------
(* The runtime and the clock.                                               *)

Append ==
    /\ log < MaxEvents
    /\ log' = log + 1
    /\ UNCHANGED <<tables, cursor, suppressed, lease, pass, budget>>

Tick ==
    /\ lease.left > 0
    /\ lease' = [lease EXCEPT !.left = @ - 1]
    /\ UNCHANGED <<log, tables, cursor, suppressed, pass, budget>>

-----------------------------------------------------------------------------
(* An ingest pass (ingest_once).                                            *)

Goes(w, phase) == pass' = [pass EXCEPT ![w] = [Idle EXCEPT !.phase = phase]]
Trouble == budget.troubles > 0 /\ budget' = [budget EXCEPT !.troubles = @ - 1]
Holds(w) == lease.owner = w

\* Mutant: a lease that ran out is not reclaimed.
FreeOnceReleased(w) == lease.owner \in {Nobody, w}
Free(w) == lease.owner \in {Nobody, w} \/ lease.left = 0

Acquire(w) ==
    /\ pass[w].phase = "idle"
    /\ cursor.status = "active"
    /\ Free(w)
    /\ lease' = [owner |-> w, left |-> LeaseLength]
    /\ Goes(w, "looking")
    /\ UNCHANGED <<log, tables, cursor, suppressed, budget>>

Looks(w) == pass[w].phase \in {"looking", "more"}
\* Nothing left to read, or a halt; after a batch the pass may also be full.
EndPass(w) ==
    /\ Looks(w)
    /\ pass[w].phase = "more" \/ cursor.status = "halted" \/ cursor.seq = log
    /\ Goes(w, "ending")
    /\ UNCHANGED <<log, tables, cursor, suppressed, lease, budget>>

Reach(seq) == IF log < seq + Batch THEN log ELSE seq + Batch
Read(w) ==
    /\ Looks(w)
    /\ cursor.status = "active"
    /\ cursor.seq < log
    /\ pass' = [pass EXCEPT ![w] = [phase |-> "read", at |-> cursor.seq, upto |-> Reach(cursor.seq)]]
    /\ UNCHANGED <<log, tables, cursor, suppressed, lease, budget>>

\* The reader says that its history cannot serve the cursor, or it fails in a
\* way that only ends the pass.
ReadFails(w) ==
    /\ Looks(w)
    /\ cursor.status = "active"
    /\ Trouble
    /\ \/ Goes(w, "ending")
       \/ pass' = [pass EXCEPT ![w] = [phase |-> "failed", at |-> cursor.seq, upto |-> 0]]
    /\ UNCHANGED <<log, tables, cursor, suppressed, lease>>

\* Renewal of the lease and import are one transaction; losing it undoes both.
LosesLease(w) ==
    /\ pass[w].phase = "read"
    /\ ~Holds(w)
    /\ Goes(w, "idle")
    /\ UNCHANGED <<log, tables, cursor, suppressed, lease, budget>>

\* Mutant: the batch is not compared with the cursor it was read at.
CurrentIfActive(w) == cursor.status = "active"
Current(w) == cursor.status = "active" /\ cursor.seq = pass[w].at

Bounces(w) ==
    /\ pass[w].phase = "read"
    /\ Holds(w) /\ ~Current(w)
    /\ Goes(w, "ending")
    /\ UNCHANGED <<log, tables, cursor, suppressed, lease, budget>>

\* Mutant: the reason of the halt is not recorded.
HaltedMutely(code) == [cursor EXCEPT !.status = "halted"]
Halted(code) == [cursor EXCEPT !.status = "halted", !.code = code]
Renewed == [lease EXCEPT !.left = LeaseLength]

Import(w) ==
    /\ pass[w].phase = "read"
    /\ Holds(w) /\ Current(w)
    /\ LET code == Verdict(pass[w].at, pass[w].upto)
           types == contract[cursor.gen]
       IN  IF code = "none"
           THEN /\ cursor' = [cursor EXCEPT !.seq = pass[w].upto]
                /\ rows' = [rows EXCEPT ![cursor.gen] = @ \cup Items(types, pass[w].at, pass[w].upto)]
                /\ Goes(w, "more")
           ELSE /\ cursor' = Halted(code)
                /\ Goes(w, "ending")
                /\ UNCHANGED rows
    /\ lease' = Renewed
    /\ UNCHANGED <<log, opened, contract, mapped, suppressed, budget>>

\* halt_for_reader_failure: the lease is not renewed first and may be over.
ReportFailure(w) ==
    /\ pass[w].phase = "failed"
    /\ IF cursor.status = "active" /\ Holds(w) /\ lease.left > 0 /\ Current(w)
       THEN cursor' = Halted("reader")
       ELSE UNCHANGED cursor
    /\ Goes(w, IF cursor.status = "active" /\ ~(Holds(w) /\ lease.left > 0) THEN "idle" ELSE "ending")
    /\ UNCHANGED <<log, tables, suppressed, lease, budget>>

GivenBack(w) == IF Holds(w) THEN [owner |-> Nobody, left |-> 0] ELSE lease

Release(w) ==
    /\ pass[w].phase = "ending"
    /\ lease' = GivenBack(w)
    /\ Goes(w, "idle")
    /\ UNCHANGED <<log, tables, cursor, suppressed, budget>>

\* The row of the lease keeps the name of a process that is gone; the next
\* process has a name of its own.
Crash(w) ==
    /\ pass[w].phase # "idle"
    /\ Trouble
    /\ lease' = IF Holds(w) THEN [lease EXCEPT !.owner = Dead] ELSE lease
    /\ Goes(w, "idle")
    /\ UNCHANGED <<log, tables, cursor, suppressed>>

-----------------------------------------------------------------------------
(* The operator.                                                            *)

Ask == budget.asks > 0 /\ budget' = [budget EXCEPT !.asks = @ - 1]

Resume ==
    /\ Ask
    /\ cursor.status = "halted"
    /\ cursor' = Active(cursor.gen, cursor.seq)
    /\ UNCHANGED <<log, tables, suppressed, lease, pass>>

MapProject(g, p) ==
    /\ Ask
    /\ g <= opened /\ p \notin mapped[g]
    /\ mapped' = [mapped EXCEPT ![g] = @ \cup {p}]
    /\ UNCHANGED <<log, opened, contract, rows, cursor, suppressed, lease, pass>>

\* The row names any event, also one that has not come yet (a malformed one has
\* no item to suppress); nothing in the code releases a suppression.
Suppress(e) ==
    /\ Ask
    /\ e \notin suppressed \cup Malformed
    /\ suppressed' = suppressed \cup {e}
    /\ UNCHANGED <<log, tables, cursor, lease, pass>>

\* A replay that is refused changes nothing.
\* Mutant: the cursor stays reset although the replay was refused.
ReplayKeepsReset(g, types, map, n) ==
    [cursor |-> Active(g, IF Accepted(types, map, 0, n) THEN n ELSE 0),
     rows |-> IF Accepted(types, map, 0, n) THEN Items(types, 0, n) ELSE rows[g]]
Replay(g, types, map, n) ==
    IF Accepted(types, map, 0, n)
    THEN [cursor |-> Active(g, n), rows |-> Items(types, 0, n)]
    ELSE [cursor |-> cursor, rows |-> rows[g]]

\* The operator hands over the first n events, read some time before.
Rebuild(g, n) ==
    /\ Ask
    /\ g <= opened /\ n <= log
    /\ LET result == Replay(g, contract[g], mapped[g], n)
       IN  cursor' = result.cursor /\ rows' = [rows EXCEPT ![g] = result.rows]
    /\ UNCHANGED <<log, opened, contract, mapped, suppressed, lease, pass>>

OpenGeneration(types, carry, n) ==
    /\ Ask
    /\ opened < MaxGenerations /\ n <= log
    /\ LET g == opened + 1
           map == IF carry THEN mapped[cursor.gen] ELSE {}
       IN  /\ Accepted(types, map, 0, n)
           /\ opened' = g
           /\ contract' = [contract EXCEPT ![g] = types]
           /\ mapped' = [mapped EXCEPT ![g] = map]
           /\ cursor' = Active(g, n)
           /\ rows' = [rows EXCEPT ![g] = Items(types, 0, n)]
    /\ UNCHANGED <<log, suppressed, lease, pass>>

-----------------------------------------------------------------------------
Pass(w) ==
    \/ Acquire(w) \/ EndPass(w) \/ Read(w) \/ LosesLease(w) \/ Bounces(w) \/ Import(w)
    \/ ReportFailure(w) \/ Release(w)
Operator ==
    \/ Resume
    \/ \E g \in Generations, p \in Projects : MapProject(g, p)
    \/ \E e \in Events : Suppress(e)
    \/ \E g \in Generations, n \in 0..MaxEvents : Rebuild(g, n)
    \/ \E types \in SUBSET Families, carry \in BOOLEAN, n \in 0..MaxEvents : OpenGeneration(types, carry, n)

Next ==
    \/ Append \/ Tick \/ Operator
    \/ \E w \in Workers : Pass(w) \/ ReadFails(w) \/ Crash(w)

Spec == Init /\ [][Next]_vars

\* Workers go on with their passes, and time goes on; readers need not fail,
\* and the operator need not do anything.
FairSpec == Spec /\ WF_vars(Tick) /\ \A w \in Workers : WF_vars(Pass(w))

-----------------------------------------------------------------------------
(* Every generation holds exactly what a replay of a prefix of the stream   *)
(* gives, the active one the prefix up to the cursor: nothing is skipped,   *)
(* nothing is ahead of the cursor, whatever workers lose their lease and    *)
(* whatever is rebuilt meanwhile.  Only suppressed items may be missing     *)
(* (memory_bridge.py:1684, "commit together or not at all").                *)
Prefix(types, n) == {e \in Events : e <= n /\ Reduced(types, e)}
RowsAreReplay ==
    \A g \in Generations :
        \E n \in 0..log :
            /\ g = cursor.gen => n = cursor.seq
            /\ rows[g] \subseteq Prefix(contract[g], n)
            /\ Prefix(contract[g], n) \ suppressed \subseteq rows[g]

(* Workers that take the lease from each other, hold stale batches, fail    *)
(* and die are together one reader of the stream: each step of the bridge   *)
(* is at most one step of EventFollower.  In particular no batch is halted  *)
(* for a gap, which is what a stale one would be taken for.                 *)
Halts(code) ==
    CASE code = "none" -> "following"
      [] code \in {"malformed_event", "unmapped_project"} -> "event"
      [] OTHER -> code

Follower == INSTANCE EventFollower WITH
    Stream <- Events,
    wanted <- [g \in Generations |-> {e \in Events : Reduced(contract[g], e)}],
    refused <- [g \in Generations |-> {e \in Events : Refused(contract[g], mapped[g], e)}],
    active <- cursor.gen, position <- cursor.seq, state <- Halts(cursor.code),
    contents <- rows, hidden <- suppressed
FollowsTheStream == Follower!Spec

(* A halt is recorded only for an event that the stream really holds after  *)
(* the cursor or for a failing reader, never for a batch that the cursor    *)
(* has left behind; and it stays, with the cursor and the rows, until it is *)
(* resumed in place or a whole replay succeeds (resume, _write_halt).       *)
HaltsAreEarned ==
    [][/\ cursor.status = "active" /\ cursor'.status = "halted" =>
             \/ cursor'.code = "reader"
             \/ \E e \in Events : /\ cursor.seq < e /\ e <= log
                                  /\ Refused(contract[cursor.gen], mapped[cursor.gen], e)
       /\ cursor.status = "halted" /\ cursor' # cursor =>
             /\ cursor'.status = "active"
             /\ \/ cursor'.gen = cursor.gen /\ cursor'.seq = cursor.seq /\ rows' = rows
                \/ rows'[cursor'.gen] = Prefix(contract'[cursor'.gen], cursor'.seq) \ suppressed]_vars

(* What is suppressed before it is projected never comes in, not by a       *)
(* rebuild and not in a generation opened later (suppress_item).            *)
SuppressedStaysOut ==
    [][\A g \in Generations, e \in Events :
          e \in suppressed /\ e \notin rows[g] => e \notin rows'[g]]_vars

(* Unless workers take the lease from each other again and again, every     *)
(* event of the runtime is consumed or the bridge halts: no dead worker, no *)
(* reader that fails once and no refused rebuild leaves it standing.        *)
LeasesLast == ~[]<><<\E w \in Workers : LosesLease(w)>>_vars
FollowsOrHalts ==
    LeasesLast => \A e \in Events : (log >= e) ~> (cursor.seq >= e \/ cursor.status = "halted")
=============================================================================
