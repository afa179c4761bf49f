------------------------- MODULE MemoryBridgeProofs -------------------------
(***************************************************************************)
(* Proofs about MemoryBridge for every stream of events, every contract    *)
(* and project map, and any number of workers, generations, requests and   *)
(* troubles.                                                               *)
(***************************************************************************)
EXTENDS MemoryBridge, TLAPS

LEMMA Bounds ==
    /\ MaxEvents \in Nat /\ MaxGenerations \in Nat /\ Batch \in Nat /\ Batch > 0
    /\ LeaseLength \in Nat /\ Asks \in Nat /\ Troubles \in Nat
BY BridgeAssumption

-----------------------------------------------------------------------------
(* Types.                                                                   *)

Cursors == [gen : 1..opened, seq : 0..log, status : {"active", "halted"},
            code : HaltCodes \cup {"none"}]
Passes == [phase : Phases, at : 0..log, upto : 0..log]
Leases == [owner : Workers \cup {Nobody, Dead}, left : 0..LeaseLength]
Budgets == [asks : 0..Asks, troubles : 0..Troubles]

LEMMA TroubleType == ASSUME TypeOK, Trouble PROVE budget' \in Budgets
<1>1. budget \in Budgets
    BY DEF TypeOK, Budgets
<1>2. budget.troubles - 1 \in 0..Troubles
    BY <1>1, Bounds DEF Budgets, Trouble
<1> QED BY <1>1, <1>2 DEF Budgets, Trouble

LEMMA AskType == ASSUME TypeOK, Ask PROVE budget' \in Budgets
<1>1. budget \in Budgets
    BY DEF TypeOK, Budgets
<1>2. budget.asks - 1 \in 0..Asks
    BY <1>1, Bounds DEF Budgets, Ask
<1> QED BY <1>1, <1>2 DEF Budgets, Ask

ReadsAhead == \A w \in Workers : pass[w].phase = "read" => pass[w].at < pass[w].upto

LEMMA GoesType ==
    ASSUME TypeOK, NEW w \in Workers, NEW phase \in Phases \ {"read"}, Goes(w, phase)
    PROVE  pass' \in [Workers -> Passes] /\ ReadsAhead'
<1>1. pass \in [Workers -> Passes] /\ ReadsAhead /\ log \in Nat
    BY Bounds DEF TypeOK, Passes, ReadsAhead
<1>2. [Idle EXCEPT !.phase = phase] \in Passes
    BY <1>1 DEF Idle, Passes
<1>3. pass' \in [Workers -> Passes]
    BY <1>1, <1>2 DEF Goes
<1>4. \A v \in Workers : pass'[v] = IF v = w THEN [Idle EXCEPT !.phase = phase] ELSE pass[v]
    BY <1>1 DEF Goes
<1>5. [Idle EXCEPT !.phase = phase].phase = phase
    BY DEF Idle
<1> QED BY <1>1, <1>3, <1>4, <1>5 DEF ReadsAhead

LEMMA LeaseType ==
    ASSUME TypeOK, NEW w \in Workers
    PROVE  /\ [owner |-> w, left |-> LeaseLength] \in Leases
           /\ Renewed \in Leases
           /\ GivenBack(w) \in Leases
           /\ [lease EXCEPT !.owner = Dead] \in Leases
<1>1. lease \in Leases /\ LeaseLength \in 0..LeaseLength /\ 0 \in 0..LeaseLength
    BY Bounds DEF TypeOK, Leases
<1> QED BY <1>1 DEF Leases, Renewed, GivenBack

LEMMA HaltedType ==
    ASSUME TypeOK, NEW code \in HaltCodes
    PROVE  /\ Halted(code) \in Cursors
           /\ Halted(code).status = "halted" /\ Halted(code).code = code
           /\ Halted(code).gen = cursor.gen /\ Halted(code).seq = cursor.seq
BY DEF TypeOK, Cursors, Halted

LEMMA VerdictType ==
    ASSUME NEW from, NEW to
    PROVE  Verdict(from, to) \in HaltCodes \cup {"none"}
BY DEF Verdict, HaltCodes

LEMMA PassTypes ==
    ASSUME TypeOK, NEW w \in Workers, Pass(w) \/ ReadFails(w) \/ Crash(w)
    PROVE  TypeOK'
<1> USE DEF Phases
<1>0. log \in Nat /\ pass[w] \in Passes /\ cursor \in Cursors /\ "none" \notin HaltCodes
    BY Bounds DEF TypeOK, Passes, Cursors, HaltCodes
<1>1. CASE Acquire(w)
    BY <1>1, GoesType, LeaseType DEF Acquire, TypeOK, tables, Passes, ReadsAhead, Leases
<1>2. CASE EndPass(w)
    BY <1>2, GoesType DEF EndPass, TypeOK, tables, Passes, ReadsAhead
<1>3. CASE Read(w)
  <2>1. Reach(cursor.seq) \in 0..log /\ cursor.seq < Reach(cursor.seq) /\ cursor.seq \in 0..log
      BY <1>0, <1>3, Bounds DEF Read, Reach, Cursors
  <2>2. pass' = [pass EXCEPT ![w] = [phase |-> "read", at |-> cursor.seq, upto |-> Reach(cursor.seq)]]
      BY <1>3 DEF Read
  <2>3. pass' \in [Workers -> Passes]
      BY <2>1, <2>2 DEF TypeOK, Passes
  <2>4. ReadsAhead'
      BY <2>1, <2>2 DEF TypeOK, ReadsAhead
  <2> QED BY <1>3, <2>3, <2>4 DEF Read, TypeOK, tables, Passes, ReadsAhead
<1>4. CASE ReadFails(w)
  <2>1. CASE Goes(w, "ending")
      BY <1>4, <2>1, GoesType, TroubleType DEF ReadFails, TypeOK, tables, Passes, ReadsAhead, Budgets
  <2>2. CASE pass' = [pass EXCEPT ![w] = [phase |-> "failed", at |-> cursor.seq, upto |-> 0]]
    <3>1. pass' \in [Workers -> Passes]
        BY <1>0, <2>2 DEF TypeOK, Passes, Cursors
    <3>2. ReadsAhead'
        BY <2>2 DEF TypeOK, ReadsAhead
    <3> QED BY <1>4, <3>1, <3>2, TroubleType DEF ReadFails, TypeOK, tables, Passes, ReadsAhead, Budgets
  <2> QED BY <1>4, <2>1, <2>2 DEF ReadFails
<1>5. CASE LosesLease(w)
    BY <1>5, GoesType DEF LosesLease, TypeOK, tables, Passes, ReadsAhead
<1>6. CASE Bounces(w)
    BY <1>6, GoesType DEF Bounces, TypeOK, tables, Passes, ReadsAhead
<1>7. CASE Import(w)
  <2> DEFINE code == Verdict(pass[w].at, pass[w].upto)
  <2>1. pass[w].upto \in 0..log /\ lease' \in Leases
      BY <1>0, <1>7, LeaseType DEF Import, Passes
  <2>2. CASE code = "none"
    <3>1. cursor' = [cursor EXCEPT !.seq = pass[w].upto] /\ Goes(w, "more")
          /\ rows' = [rows EXCEPT ![cursor.gen] =
                        @ \cup Items(contract[cursor.gen], pass[w].at, pass[w].upto)]
        BY <1>7, <2>2 DEF Import
    <3>2. cursor' \in Cursors /\ cursor'.status = cursor.status /\ cursor'.code = cursor.code
        BY <1>0, <2>1, <3>1 DEF Cursors
    <3>3. Items(contract[cursor.gen], pass[w].at, pass[w].upto) \subseteq 1..log
        BY <1>0, Bounds DEF Items, Events, Passes
    <3>4. rows' \in [Generations -> SUBSET (1..log)]
        BY <3>1, <3>3 DEF TypeOK
    <3> QED BY <1>7, <2>1, <3>1, <3>2, <3>4, GoesType
            DEF Import, TypeOK, Cursors, Leases, Passes, ReadsAhead
  <2>3. CASE code # "none"
    <3>1. cursor' = Halted(code) /\ Goes(w, "ending") /\ UNCHANGED rows
        BY <1>7, <2>3 DEF Import
    <3>2. code \in HaltCodes
        BY <2>3, VerdictType
    <3>3. cursor' \in Cursors /\ cursor'.status = "halted" /\ cursor'.code # "none"
        BY <1>0, <3>1, <3>2, HaltedType
    <3> QED BY <1>7, <2>1, <3>1, <3>3, GoesType
            DEF Import, TypeOK, Cursors, Leases, Passes, ReadsAhead
  <2> QED BY <2>2, <2>3
<1>8. CASE ReportFailure(w)
  <2>1. cursor' \in Cursors /\ (cursor'.status = "halted" <=> cursor'.code # "none")
    <3>1. "reader" \in HaltCodes
        BY DEF HaltCodes
    <3> QED BY <1>0, <1>8, <3>1, HaltedType DEF ReportFailure, TypeOK
  <2>2. pass' \in [Workers -> Passes] /\ ReadsAhead'
      BY <1>8, GoesType DEF ReportFailure
  <2> QED BY <1>8, <2>1, <2>2 DEF ReportFailure, TypeOK, tables, Cursors, Passes, ReadsAhead
<1>9. CASE Release(w)
    BY <1>9, GoesType, LeaseType DEF Release, TypeOK, tables, Passes, ReadsAhead, Leases
<1>10. CASE Crash(w)
  <2>1. lease' \in Leases
      BY <1>10, LeaseType DEF Crash, TypeOK, Leases
  <2> QED BY <1>10, <2>1, GoesType, TroubleType
          DEF Crash, TypeOK, tables, Passes, ReadsAhead, Leases, Budgets
<1> QED BY <1>1, <1>2, <1>3, <1>4, <1>5, <1>6, <1>7, <1>8, <1>9, <1>10 DEF Pass

LEMMA ReplayType ==
    ASSUME TypeOK, NEW g \in Generations, NEW types \in SUBSET Families, NEW map \in SUBSET Projects,
           NEW n \in 0..log
    PROVE  /\ Items(types, 0, n) \subseteq 1..log
           /\ Replay(g, types, map, n).rows \subseteq 1..log
<1>1. Items(types, 0, n) \subseteq 1..log
    BY Bounds DEF TypeOK, Items, Events
<1> QED BY <1>1 DEF Replay, TypeOK

LEMMA OperatorTypes == ASSUME TypeOK, Operator PROVE TypeOK'
<1>0. log \in Nat /\ cursor \in Cursors /\ opened \in 1..MaxGenerations
    BY Bounds DEF TypeOK, Cursors, Generations
<1>1. CASE Resume
    BY <1>0, <1>1, AskType DEF Resume, Active, TypeOK, tables, Cursors, Budgets, HaltCodes
<1>2. ASSUME NEW g \in Generations, NEW p \in Projects, MapProject(g, p) PROVE TypeOK'
  <2>1. mapped' \in [Generations -> SUBSET Projects]
      BY <1>2 DEF MapProject, TypeOK
  <2> QED BY <1>2, <2>1, AskType DEF MapProject, TypeOK, Budgets
<1>3. ASSUME NEW e \in Events, Suppress(e) PROVE TypeOK'
  <2>1. suppressed' \subseteq Events
      BY <1>0, <1>3 DEF Suppress, TypeOK
  <2> QED BY <1>3, <2>1, AskType DEF Suppress, TypeOK, tables, Budgets
<1>4. ASSUME NEW g \in Generations, NEW n \in 0..MaxEvents, Rebuild(g, n) PROVE TypeOK'
  <2> DEFINE result == Replay(g, contract[g], mapped[g], n)
  <2>1. n \in 0..log /\ g \in 1..opened /\ contract[g] \in SUBSET Families /\ mapped[g] \in SUBSET Projects
      BY <1>0, <1>4 DEF Rebuild, TypeOK, Generations
  <2>2. cursor' = result.cursor /\ rows' = [rows EXCEPT ![g] = result.rows]
      BY <1>4 DEF Rebuild
  <2>3. rows' \in [Generations -> SUBSET (1..log)]
      BY <2>1, <2>2, ReplayType DEF TypeOK
  <2>4. cursor' \in Cursors /\ (cursor'.status = "halted" <=> cursor'.code # "none")
    <3>1. result.cursor = Active(g, n) \/ result.cursor = cursor
        BY DEF Replay
    <3>2. Active(g, n) \in Cursors /\ Active(g, n).status # "halted" /\ Active(g, n).code = "none"
        BY <2>1 DEF Active, Cursors
    <3> QED BY <1>0, <2>2, <3>1, <3>2 DEF TypeOK
  <2> QED BY <1>4, <2>3, <2>4, AskType DEF Rebuild, TypeOK, Cursors, Budgets
<1>5. ASSUME NEW types \in SUBSET Families, NEW carry \in BOOLEAN, NEW n \in 0..MaxEvents,
             OpenGeneration(types, carry, n)
      PROVE  TypeOK'
  <2>1. n \in 0..log /\ opened' = opened + 1 /\ opened + 1 \in Generations
      BY <1>0, <1>5, Bounds DEF OpenGeneration, Generations
  <2>2. contract' \in [Generations -> SUBSET Families] /\ mapped' \in [Generations -> SUBSET Projects]
    <3>1. contract' = [contract EXCEPT ![opened + 1] = types]
          /\ mapped' = [mapped EXCEPT ![opened + 1] = IF carry THEN mapped[cursor.gen] ELSE {}]
        BY <1>5 DEF OpenGeneration
    <3>2. cursor.gen \in Generations
        BY <1>0, Bounds DEF Cursors, Generations
    <3>3. (IF carry THEN mapped[cursor.gen] ELSE {}) \in SUBSET Projects
        BY <3>2 DEF TypeOK
    <3> QED BY <3>1, <3>3 DEF TypeOK
  <2>3. Items(types, 0, n) \subseteq 1..log
      BY <2>1, Bounds DEF TypeOK, Items, Events
  <2>4. rows' \in [Generations -> SUBSET (1..log)]
      BY <1>5, <2>3 DEF OpenGeneration, TypeOK
  <2>5. cursor' = Active(opened + 1, n)
      BY <1>5 DEF OpenGeneration
  <2>6. cursor' \in [gen : 1..opened', seq : 0..log, status : {"active", "halted"},
                     code : HaltCodes \cup {"none"}] /\ cursor'.status # "halted" /\ cursor'.code = "none"
      BY <1>0, <2>1, <2>5 DEF Active
  <2> QED BY <1>5, <2>1, <2>2, <2>4, <2>6, AskType DEF OpenGeneration, TypeOK, Budgets
<1> QED BY <1>1, <1>2, <1>3, <1>4, <1>5 DEF Operator

LEMMA TypesStep == ASSUME TypeOK, [Next]_vars PROVE TypeOK'
<1>1. CASE Append
  <2>1. log' = log + 1 /\ log \in Nat /\ log' \in 0..MaxEvents
      BY <1>1, Bounds DEF Append, TypeOK
  <2>2. 0..log \subseteq 0..log' /\ 1..log \subseteq 1..log'
      BY <2>1
  <2>3. cursor' \in [gen : 1..opened', seq : 0..log', status : {"active", "halted"},
                     code : HaltCodes \cup {"none"}]
      BY <1>1, <2>2 DEF Append, TypeOK, tables
  <2>4. rows' \in [Generations -> SUBSET (1..log')] /\ suppressed' \subseteq Events
      BY <1>1, <2>2 DEF Append, TypeOK, tables
  <2>5. pass' \in [Workers -> [phase : Phases, at : 0..log', upto : 0..log']]
      BY <1>1, <2>2 DEF Append, TypeOK
  <2> QED BY <1>1, <2>1, <2>3, <2>4, <2>5 DEF Append, TypeOK, tables
<1>2. CASE Tick
  <2>1. lease' \in Leases
      BY <1>2, Bounds DEF Tick, TypeOK, Leases
  <2> QED BY <1>2, <2>1 DEF Tick, TypeOK, tables, Leases
<1>3. CASE UNCHANGED vars
    BY <1>3 DEF vars, tables, TypeOK
<1> QED BY <1>1, <1>2, <1>3, PassTypes, OperatorTypes DEF Next

LEMMA TypesInit == Init => TypeOK
<1> SUFFICES ASSUME Init PROVE TypeOK
    OBVIOUS
<1>1. pass \in [Workers -> [phase : Phases, at : 0..log, upto : 0..log]]
    BY Bounds DEF Init, Idle, Phases
<1>2. \A w \in Workers : pass[w].phase # "read"
    BY DEF Init, Idle
<1> QED BY <1>1, <1>2, Bounds, BridgeAssumption DEF Init, TypeOK, Active, Generations, HaltCodes

(* Every table and every worker keeps its type; the cursor never passes the *)
(* end of the stream and says why it is halted exactly when it is.          *)
THEOREM BridgeTypes == Spec => []TypeOK
BY TypesInit, TypesStep, PTL DEF Spec

-----------------------------------------------------------------------------
(* The rows of a generation are a replay.                                   *)

IsReplay(found, types, out, n) ==
    found \subseteq Prefix(types, n) /\ Prefix(types, n) \ out \subseteq found

\* An import adds exactly what lies between the cursor and the end of the batch.
LEMMA ImportExtends ==
    ASSUME TypeOK, RowsAreReplay, NEW w \in Workers, Import(w), rows' # rows \/ cursor' # cursor
    PROVE  \/ /\ cursor'.status = "halted" /\ cursor'.gen = cursor.gen /\ cursor'.seq = cursor.seq
              /\ rows' = rows
           \/ /\ cursor' = [cursor EXCEPT !.seq = pass[w].upto]
              /\ rows' = [rows EXCEPT ![cursor.gen] =
                            @ \cup Items(contract[cursor.gen], cursor.seq, pass[w].upto)]
              /\ cursor.seq < pass[w].upto /\ pass[w].upto \in 0..log
<1>1. pass[w].at = cursor.seq /\ pass[w].at < pass[w].upto /\ pass[w].upto \in 0..log
    BY DEF Import, Current, TypeOK
<1>2. CASE Verdict(pass[w].at, pass[w].upto) = "none"
    BY <1>1, <1>2 DEF Import
<1>3. CASE Verdict(pass[w].at, pass[w].upto) # "none"
    BY <1>3, VerdictType, HaltedType DEF Import
<1> QED BY <1>2, <1>3

\* What a batch or a replay adds to a replay of the events before it.
LEMMA ItemsExtend ==
    ASSUME NEW found, NEW types, NEW m \in Nat, NEW n \in Nat, m <= n, IsReplay(found, types, suppressed, m)
    PROVE  IsReplay(found \cup Items(types, m, n), types, suppressed, n)
<1>1. Prefix(types, n) = Prefix(types, m) \cup {e \in Events : m < e /\ e <= n /\ Reduced(types, e)}
    BY DEF Prefix, Events
<1>2. Items(types, m, n) = {e \in Events : m < e /\ e <= n /\ Reduced(types, e)} \ suppressed
    BY DEF Items
<1> QED BY <1>1, <1>2 DEF IsReplay

LEMMA ItemsAreReplay ==
    ASSUME NEW types, NEW n \in Nat
    PROVE  /\ IsReplay(Items(types, 0, n), types, suppressed, n)
           /\ Items(types, 0, n) = Prefix(types, n) \ suppressed
<1>1. Items(types, 0, n) = Prefix(types, n) \ suppressed
    BY Bounds DEF Items, Prefix, Events
<1> QED BY <1>1 DEF IsReplay

HasReplay(g, last, found, types, out, at) ==
    \E n \in 0..last : (g = at.gen => n = at.seq) /\ IsReplay(found[g], types[g], out, n)

LEMMA RowsAreReplayMeans ==
    RowsAreReplay <=> \A g \in Generations : HasReplay(g, log, rows, contract, suppressed, cursor)
BY DEF RowsAreReplay, HasReplay, IsReplay

LEMMA ReplayInit == Init => RowsAreReplay
<1> SUFFICES ASSUME Init, NEW g \in Generations
             PROVE  HasReplay(g, log, rows, contract, suppressed, cursor)
    BY RowsAreReplayMeans
<1>1. cursor.seq = 0 /\ log = 0 /\ rows[g] = {} /\ 0 \in 0..log
    BY DEF Init, Active
<1>2. IsReplay(rows[g], contract[g], suppressed, 0)
    BY <1>1, Bounds DEF IsReplay, Prefix, Events
<1> QED BY <1>1, <1>2 DEF HasReplay

\* A step that leaves the rows of a generation alone.
LEMMA ReplayStays ==
    ASSUME TypeOK, NEW g \in Generations, HasReplay(g, log, rows, contract, suppressed, cursor),
           rows'[g] = rows[g], contract'[g] = contract[g], suppressed \subseteq suppressed',
           log' = log \/ log' = log + 1,
           g = cursor'.gen => g = cursor.gen /\ cursor'.seq = cursor.seq
    PROVE  HasReplay(g, log', rows', contract', suppressed', cursor')
<1>1. PICK n \in 0..log : (g = cursor.gen => n = cursor.seq) /\ IsReplay(rows[g], contract[g], suppressed, n)
    BY DEF HasReplay
<1>2. n \in 0..log'
    BY Bounds DEF TypeOK
<1> QED BY <1>1, <1>2 DEF HasReplay, IsReplay

LEMMA ReplayStep ==
    ASSUME TypeOK, RowsAreReplay, [Next]_vars, NEW g \in Generations
    PROVE  HasReplay(g, log', rows', contract', suppressed', cursor')
<1>0. log \in Nat /\ cursor \in Cursors /\ cursor.seq \in 0..log
    BY Bounds DEF TypeOK, Cursors
<1>1. HasReplay(g, log, rows, contract, suppressed, cursor)
    BY RowsAreReplayMeans
<1>2. CASE UNCHANGED <<rows, contract, suppressed, log>> /\ cursor'.gen = cursor.gen /\ cursor'.seq = cursor.seq
    BY <1>1, <1>2, ReplayStays
<1>3. CASE Append
    BY <1>1, <1>3, ReplayStays DEF Append, tables
<1>4. ASSUME NEW w \in Workers, Import(w)
      PROVE  HasReplay(g, log', rows', contract', suppressed', cursor')
  <2>0. UNCHANGED <<log, contract, suppressed>>
      BY <1>4 DEF Import
  <2>1. CASE cursor'.gen = cursor.gen /\ cursor'.seq = cursor.seq /\ rows' = rows
      BY <1>2, <2>0, <2>1
  <2>2. CASE /\ cursor' = [cursor EXCEPT !.seq = pass[w].upto]
             /\ rows' = [rows EXCEPT ![cursor.gen] =
                            @ \cup Items(contract[cursor.gen], cursor.seq, pass[w].upto)]
             /\ cursor.seq < pass[w].upto /\ pass[w].upto \in 0..log
    <3>1. cursor'.gen = cursor.gen /\ cursor'.seq = pass[w].upto
        BY <1>0, <2>2 DEF Cursors
    <3>2. CASE g = cursor.gen
      <4>1. IsReplay(rows[g], contract[g], suppressed, cursor.seq)
          BY <1>1, <3>2 DEF HasReplay
      <4>2. rows'[g] = rows[g] \cup Items(contract[g], cursor.seq, pass[w].upto)
          BY <2>2, <3>2 DEF TypeOK
      <4>3. cursor.seq \in Nat /\ pass[w].upto \in Nat /\ cursor.seq <= pass[w].upto
          BY <1>0, <2>2
      <4>4. IsReplay(rows'[g], contract[g], suppressed, pass[w].upto)
          BY <4>1, <4>2, <4>3, ItemsExtend
      <4> QED BY <2>0, <2>2, <3>1, <4>4 DEF HasReplay
    <3>3. CASE g # cursor.gen
        BY <1>1, <2>0, <2>2, <3>1, <3>3, ReplayStays DEF TypeOK
    <3> QED BY <3>2, <3>3
  <2> QED BY <1>4, <2>1, <2>2, ImportExtends, <2>0, <1>1
<1>5. ASSUME NEW w \in Workers, Pass(w) \/ ReadFails(w) \/ Crash(w), ~Import(w)
      PROVE  HasReplay(g, log', rows', contract', suppressed', cursor')
  <2>1. UNCHANGED <<rows, contract, suppressed, log>>
      BY <1>5 DEF Pass, ReadFails, Crash, Acquire, EndPass, Read, LosesLease, Bounces, ReportFailure,
                  Release, tables
  <2>2. cursor'.gen = cursor.gen /\ cursor'.seq = cursor.seq
      BY <1>5, HaltedType DEF Pass, ReadFails, Crash, Acquire, EndPass, Read, LosesLease, Bounces,
                              ReportFailure, Release, HaltCodes
  <2> QED BY <1>2, <2>1, <2>2
<1>6. CASE Operator
  <2>1. CASE Resume
      BY <1>0, <1>2, <2>1 DEF Resume, Active, tables
  <2>2. ASSUME NEW h \in Generations, NEW p \in Projects, MapProject(h, p)
        PROVE  HasReplay(g, log', rows', contract', suppressed', cursor')
      BY <1>2, <2>2 DEF MapProject
  <2>3. ASSUME NEW e \in Events, Suppress(e)
        PROVE  HasReplay(g, log', rows', contract', suppressed', cursor')
      BY <1>1, <2>3, ReplayStays DEF Suppress, tables
  <2>4. ASSUME NEW h \in Generations, NEW n \in 0..MaxEvents, Rebuild(h, n)
        PROVE  HasReplay(g, log', rows', contract', suppressed', cursor')
    <3>0. UNCHANGED <<log, contract, suppressed>> /\ n \in 0..log /\ n \in Nat
        BY <1>0, <2>4, Bounds DEF Rebuild
    <3>1. CASE Accepted(contract[h], mapped[h], 0, n)
      <4>1. cursor' = Active(h, n) /\ rows' = [rows EXCEPT ![h] = Items(contract[h], 0, n)]
          BY <2>4, <3>1 DEF Rebuild, Replay
      <4>2. cursor'.gen = h /\ cursor'.seq = n
          BY <4>1 DEF Active
      <4>3. CASE g = h
          BY <3>0, <4>1, <4>2, <4>3, ItemsAreReplay DEF HasReplay, TypeOK
      <4>4. CASE g # h
          BY <1>1, <3>0, <4>1, <4>2, <4>4, ReplayStays DEF TypeOK
      <4> QED BY <4>3, <4>4
    <3>2. CASE ~Accepted(contract[h], mapped[h], 0, n)
      <4>1. cursor' = cursor /\ rows' = [rows EXCEPT ![h] = rows[h]]
          BY <2>4, <3>2 DEF Rebuild, Replay
      <4> QED BY <1>2, <3>0, <4>1 DEF TypeOK
    <3> QED BY <3>1, <3>2
  <2>5. ASSUME NEW types \in SUBSET Families, NEW carry \in BOOLEAN, NEW n \in 0..MaxEvents,
               OpenGeneration(types, carry, n)
        PROVE  HasReplay(g, log', rows', contract', suppressed', cursor')
    <3>0. UNCHANGED <<log, suppressed>> /\ n \in 0..log /\ n \in Nat
        BY <1>0, <2>5, Bounds DEF OpenGeneration
    <3>1. /\ cursor' = Active(opened + 1, n)
          /\ rows' = [rows EXCEPT ![opened + 1] = Items(types, 0, n)]
          /\ contract' = [contract EXCEPT ![opened + 1] = types]
        BY <2>5 DEF OpenGeneration
    <3>2. cursor'.gen = opened + 1 /\ cursor'.seq = n
        BY <3>1 DEF Active
    <3>3. CASE g = opened + 1
        BY <3>0, <3>1, <3>2, <3>3, ItemsAreReplay DEF HasReplay, TypeOK
    <3>4. CASE g # opened + 1
        BY <1>1, <3>0, <3>1, <3>2, <3>4, ReplayStays DEF TypeOK
    <3> QED BY <3>3, <3>4
  <2> QED BY <1>6, <2>1, <2>2, <2>3, <2>4, <2>5 DEF Operator
<1>7. CASE Tick
    BY <1>2, <1>7 DEF Tick, tables
<1>8. CASE UNCHANGED vars
    BY <1>2, <1>8 DEF vars, tables
<1> QED BY <1>3, <1>4, <1>5, <1>6, <1>7, <1>8 DEF Next

LEMMA BridgeInvariant == Spec => [](TypeOK /\ RowsAreReplay)
<1>1. TypeOK /\ RowsAreReplay /\ [Next]_vars => (TypeOK /\ RowsAreReplay)'
  <2> SUFFICES ASSUME TypeOK, RowsAreReplay, [Next]_vars PROVE TypeOK' /\ RowsAreReplay'
      OBVIOUS
  <2>1. \A g \in Generations : HasReplay(g, log', rows', contract', suppressed', cursor')
      BY ReplayStep
  <2> QED BY <2>1, TypesStep DEF RowsAreReplay, HasReplay, IsReplay
<1> QED BY <1>1, TypesInit, ReplayInit, PTL DEF Spec

(* Every generation holds a replay of a prefix of the stream, the active    *)
(* one that of the prefix up to the cursor, less what is suppressed.        *)
THEOREM BridgeRowsAreReplay == Spec => []RowsAreReplay
BY BridgeInvariant, PTL

-----------------------------------------------------------------------------
(* What one step may do.                                                    *)

(* A suppressed item that is not projected stays out, whatever is imported, *)
(* rebuilt or opened.                                                       *)
THEOREM BridgeKeepsSuppressed == Spec => SuppressedStaysOut
<1>1. TypeOK /\ [Next]_vars =>
        [\A g \in Generations, e \in Events : e \in suppressed /\ e \notin rows[g] => e \notin rows'[g]]_vars
  <2> SUFFICES ASSUME TypeOK, Next, NEW g \in Generations, NEW e \in Events,
                      e \in suppressed, e \notin rows[g]
               PROVE  e \notin rows'[g]
      BY DEF vars, tables
  <2>0. \A types, m, n : e \notin Items(types, m, n)
      BY DEF Items
  <2>1. ASSUME NEW w \in Workers, Import(w) PROVE e \notin rows'[g]
      BY <2>0, <2>1 DEF Import, TypeOK
  <2>2. ASSUME NEW h \in Generations, NEW n \in 0..MaxEvents, Rebuild(h, n) PROVE e \notin rows'[g]
    <3>1. e \notin Replay(h, contract[h], mapped[h], n).rows \/ (g # h \/ rows'[g] = rows[g])
        BY <2>0, <2>2 DEF Replay, Rebuild, TypeOK
    <3> QED BY <2>2, <3>1 DEF Rebuild, TypeOK
  <2>3. ASSUME NEW types \in SUBSET Families, NEW carry \in BOOLEAN, NEW n \in 0..MaxEvents,
               OpenGeneration(types, carry, n)
        PROVE  e \notin rows'[g]
      BY <2>0, <2>3 DEF OpenGeneration, TypeOK
  <2> QED BY <2>1, <2>2, <2>3 DEF Next, Operator, Pass, ReadFails, Crash, Acquire, EndPass, Read, LosesLease,
          Bounces, ReportFailure, Release, Append, Tick, Resume, MapProject, Suppress, tables
<1> QED BY <1>1, BridgeTypes, PTL DEF Spec, SuppressedStaysOut

Earned ==
    /\ cursor.status = "active" /\ cursor'.status = "halted" =>
          \/ cursor'.code = "reader"
          \/ \E e \in Events : /\ cursor.seq < e /\ e <= log
                               /\ Refused(contract[cursor.gen], mapped[cursor.gen], e)
    /\ cursor.status = "halted" /\ cursor' # cursor =>
          /\ cursor'.status = "active"
          /\ \/ cursor'.gen = cursor.gen /\ cursor'.seq = cursor.seq /\ rows' = rows
             \/ rows'[cursor'.gen] = Prefix(contract'[cursor'.gen], cursor'.seq) \ suppressed

LEMMA RefusedAhead ==
    ASSUME TypeOK, NEW w \in Workers, pass[w].phase = "read", Current(w),
           Verdict(pass[w].at, pass[w].upto) # "none"
    PROVE  \E e \in Events : /\ cursor.seq < e /\ e <= log
                             /\ Refused(contract[cursor.gen], mapped[cursor.gen], e)
<1>1. pass[w].at = cursor.seq /\ pass[w].upto \in 0..log /\ log \in Nat
    BY Bounds DEF TypeOK, Current
<1>2. ~Accepted(contract[cursor.gen], mapped[cursor.gen], pass[w].at, pass[w].upto)
    BY <1>1 DEF Verdict
<1>3. PICK e \in Events : /\ pass[w].at < e /\ e <= pass[w].upto
                          /\ Refused(contract[cursor.gen], mapped[cursor.gen], e)
    BY <1>2 DEF Accepted
<1>4. e <= log
    BY <1>1, <1>3 DEF Events
<1> QED BY <1>1, <1>3, <1>4

LEMMA EarnedStep == ASSUME TypeOK, Next PROVE Earned
<1>0. cursor \in Cursors
    BY DEF TypeOK, Cursors
<1>1. CASE UNCHANGED cursor
    BY <1>1 DEF Earned
<1>2. ASSUME NEW w \in Workers, Import(w) PROVE Earned
  <2>1. pass[w].phase = "read" /\ Current(w) /\ cursor.status = "active"
      BY <1>2 DEF Import, Current
  <2>2. CASE Verdict(pass[w].at, pass[w].upto) = "none"
      BY <1>0, <1>2, <2>1, <2>2 DEF Import, Earned, Cursors
  <2>3. CASE Verdict(pass[w].at, pass[w].upto) # "none"
      BY <2>1, <2>3, RefusedAhead DEF Earned
  <2> QED BY <2>2, <2>3
<1>3. ASSUME NEW w \in Workers, ReportFailure(w) PROVE Earned
  <2>1. "reader" \in HaltCodes
      BY DEF HaltCodes
  <2>2. cursor' = cursor \/ (cursor.status = "active" /\ cursor' = Halted("reader"))
      BY <1>3 DEF ReportFailure
  <2> QED BY <2>1, <2>2, HaltedType DEF Earned
<1>4. CASE Resume
    BY <1>4 DEF Resume, Active, Earned, tables
<1>5. ASSUME NEW h \in Generations, NEW n \in 0..MaxEvents, Rebuild(h, n) PROVE Earned
  <2>1. CASE Accepted(contract[h], mapped[h], 0, n)
    <3>1. cursor' = Active(h, n) /\ rows' = [rows EXCEPT ![h] = Items(contract[h], 0, n)]
          /\ contract' = contract
        BY <1>5, <2>1 DEF Rebuild, Replay
    <3>2. cursor'.gen = h /\ cursor'.seq = n /\ cursor'.status = "active" /\ n \in Nat
        BY <3>1, Bounds DEF Active
    <3>3. rows'[h] = Prefix(contract'[h], n) \ suppressed
        BY <3>1, <3>2, ItemsAreReplay DEF TypeOK
    <3> QED BY <3>2, <3>3 DEF Earned
  <2>2. CASE ~Accepted(contract[h], mapped[h], 0, n)
      BY <1>1, <1>5, <2>2 DEF Rebuild, Replay
  <2> QED BY <2>1, <2>2
<1>6. ASSUME NEW types \in SUBSET Families, NEW carry \in BOOLEAN, NEW n \in 0..MaxEvents,
             OpenGeneration(types, carry, n)
      PROVE  Earned
  <2>1. /\ cursor' = Active(opened + 1, n)
        /\ rows' = [rows EXCEPT ![opened + 1] = Items(types, 0, n)]
        /\ contract' = [contract EXCEPT ![opened + 1] = types]
      BY <1>6 DEF OpenGeneration
  <2>2. cursor'.gen = opened + 1 /\ cursor'.seq = n /\ cursor'.status = "active" /\ n \in Nat
      BY <2>1, Bounds DEF Active
  <2>3. opened + 1 \in Generations
      BY <1>6, Bounds DEF OpenGeneration, TypeOK, Generations
  <2>4. rows'[opened + 1] = Prefix(contract'[opened + 1], n) \ suppressed
      BY <2>1, <2>2, <2>3, ItemsAreReplay DEF TypeOK
  <2> QED BY <2>2, <2>4 DEF Earned
<1> QED BY <1>1, <1>2, <1>3, <1>4, <1>5, <1>6 DEF Next, Operator, Pass, ReadFails, Crash, Acquire, EndPass,
        Read, LosesLease, Bounces, Release, Append, Tick, MapProject, Suppress

(* The bridge halts only for a failing reader or for an event ahead of the  *)
(* cursor that its generation refuses, and is put in motion again only from *)
(* where it stopped or by a replay that was accepted as a whole.            *)
THEOREM BridgeHaltsAreEarned == Spec => HaltsAreEarned
<1>1. TypeOK /\ [Next]_vars => [Earned]_vars
    BY EarnedStep
<1> QED BY <1>1, BridgeTypes, PTL DEF Spec, HaltsAreEarned, Earned

-----------------------------------------------------------------------------
(* The bridge implements EventFollower.                                     *)

Wanted == [g \in Generations |-> {e \in Events : Reduced(contract[g], e)}]
Barred == [g \in Generations |-> {e \in Events : Refused(contract[g], mapped[g], e)}]

\* What a generation takes of a stretch of the stream.
LEMMA Stretch ==
    ASSUME NEW g \in Generations, NEW m, NEW n
    PROVE  /\ Follower!Within(Wanted[g], m, n) \ suppressed = Items(contract[g], m, n)
           /\ Accepted(contract[g], mapped[g], m, n) <=> Follower!Within(Barred[g], m, n) = {}
BY DEF Follower!Within, Wanted, Barred, Items, Accepted

LEMMA FollowerInit == Init => Follower!Init
<1> SUFFICES ASSUME Init PROVE Follower!Init
    OBVIOUS
<1>1. Halts(cursor.code) = "following"
    BY DEF Init, Active, Halts
<1> QED BY <1>1 DEF Init, Active, Follower!Init, Reduced, Refused, Unmapped

\* The projections and terms of every generation stay as they are.
LEMMA TermsStay ==
    ASSUME UNCHANGED <<contract, mapped>>
    PROVE  Wanted' = Wanted /\ Barred' = Barred
BY DEF Wanted, Barred, Reduced, Refused, Unmapped

LEMMA QuietStep ==
    ASSUME UNCHANGED <<log, tables, cursor, suppressed>>
    PROVE  UNCHANGED Follower!vars
BY TermsStay DEF tables, Follower!vars, Follower!terms, Follower!progress, Wanted, Barred

LEMMA ImportFollows ==
    ASSUME TypeOK, NEW w \in Workers, Import(w)
    PROVE  Follower!Next
<1> DEFINE code == Verdict(pass[w].at, pass[w].upto)
           g == cursor.gen
<1>0. /\ cursor \in Cursors /\ g \in Generations /\ Wanted' = Wanted /\ Barred' = Barred
      /\ pass[w].at = cursor.seq /\ cursor.status = "active" /\ cursor.code = "none"
      /\ cursor.seq < pass[w].upto /\ pass[w].upto <= log /\ pass[w].upto \in Events
    BY Bounds, TermsStay DEF TypeOK, Cursors, Import, Current, Events, Generations
<1>1. Halts(cursor.code) = "following"
    BY <1>0 DEF Halts
<1>2. CASE code = "none"
  <2>1. cursor' = [cursor EXCEPT !.seq = pass[w].upto]
        /\ rows' = [rows EXCEPT ![g] = @ \cup Items(contract[g], cursor.seq, pass[w].upto)]
      BY <1>0, <1>2 DEF Import
  <2>2. Accepted(contract[g], mapped[g], cursor.seq, pass[w].upto)
      BY <1>0, <1>2 DEF Verdict
  <2>3. /\ rows' = [rows EXCEPT ![g] = @ \cup (Follower!Within(Wanted[g], cursor.seq, pass[w].upto) \ suppressed)]
        /\ Follower!Within(Barred[g], cursor.seq, pass[w].upto) = {}
      BY <1>0, <2>1, <2>2, Stretch
  <2>4. /\ cursor'.gen = g /\ cursor'.seq = pass[w].upto /\ cursor'.code = cursor.code
        /\ UNCHANGED <<log, opened, suppressed>>
      BY <1>0, <2>1, <1>2 DEF Cursors, Import
  <2>5. Follower!Advance(pass[w].upto)
      BY <1>0, <1>1, <2>3, <2>4 DEF Follower!Advance, Follower!terms, Wanted, Barred
  <2> QED BY <1>0, <2>5 DEF Follower!Next
<1>3. CASE code # "none"
  <2>1. cursor' = [cursor EXCEPT !.status = "halted", !.code = code]
        /\ UNCHANGED <<log, opened, contract, mapped, suppressed, rows>>
      BY <1>3 DEF Import, Halted
  <2>2. code \in {"malformed_event", "unmapped_project"}
      BY <1>0, <1>3 DEF Verdict
  <2>3. ~Accepted(contract[g], mapped[g], cursor.seq, log)
    <3>1. PICK e \in Events : cursor.seq < e /\ e <= log /\ Refused(contract[g], mapped[g], e)
        BY <1>3, RefusedAhead DEF Import
    <3> QED BY <3>1 DEF Accepted
  <2>4. Halts(cursor'.code) = "event" /\ cursor'.gen = g /\ cursor'.seq = cursor.seq
      BY <1>0, <2>1, <2>2 DEF Halts, Cursors
  <2>5. Follower!Halt
      BY <1>0, <1>1, <2>1, <2>3, <2>4, Stretch
         DEF Follower!Halt, Follower!terms, Wanted, Barred
  <2> QED BY <2>5 DEF Follower!Next
<1> QED BY <1>2, <1>3

\* A whole replay of a generation, into the one it becomes.
LEMMA MadeFollows ==
    ASSUME TypeOK, NEW g \in Generations, NEW n, n <= log,
           Accepted(contract'[g], mapped'[g], 0, n), cursor' = Active(g, n),
           rows' = [rows EXCEPT ![g] = Items(contract'[g], 0, n)]
    PROVE  Follower!MadeOf(g, n)
<1>1. Follower!Within(Wanted'[g], 0, n) \ suppressed = Items(contract'[g], 0, n)
    BY DEF Follower!Within, Wanted, Reduced, Items
<1>2. Follower!Within(Barred'[g], 0, n) = {}
    BY DEF Follower!Within, Barred, Refused, Unmapped, Reduced, Accepted
<1>3. cursor'.gen = g /\ cursor'.seq = n /\ Halts(cursor'.code) = "following"
    BY DEF Active, Halts
<1> QED BY <1>1, <1>2, <1>3 DEF Follower!MadeOf, Wanted, Barred

LEMMA OperatorFollows ==
    ASSUME TypeOK, Operator
    PROVE  [Follower!Next]_Follower!vars
<1>0. cursor \in Cursors /\ opened \in Generations /\ MaxGenerations \in Nat
    BY Bounds DEF TypeOK, Cursors
<1>1. CASE Resume
  <2>1. /\ cursor.status = "halted" /\ cursor' = Active(cursor.gen, cursor.seq)
        /\ UNCHANGED <<log, tables, suppressed>>
      BY <1>1 DEF Resume
  <2>2. cursor.code \in HaltCodes
      BY <2>1 DEF TypeOK
  <2>3. Halts(cursor.code) # "following" /\ Halts(cursor'.code) = "following"
        /\ cursor'.gen = cursor.gen /\ cursor'.seq = cursor.seq
      BY <2>1, <2>2 DEF Halts, HaltCodes, Active
  <2>4. Follower!Resume
      BY <2>1, <2>3, TermsStay DEF tables, Follower!Resume, Follower!terms, Wanted, Barred
  <2> QED BY <2>4 DEF Follower!Next
<1>2. ASSUME NEW g \in Generations, NEW p \in Projects, MapProject(g, p)
      PROVE  Follower!Next
  <2>1. mapped' = [mapped EXCEPT ![g] = @ \cup {p}] /\ mapped \in [Generations -> SUBSET Projects]
        /\ UNCHANGED <<log, opened, contract, rows, cursor, suppressed>>
      BY <1>2 DEF MapProject, TypeOK
  <2>2. Barred'[g] \subseteq Barred[g]
      BY <2>1 DEF Barred, Refused, Unmapped, Reduced
  <2>3. Barred' = [Barred EXCEPT ![g] = Barred'[g]] /\ Wanted' = Wanted
      BY <2>1 DEF Barred, Refused, Unmapped, Reduced, Wanted
  <2>4. Follower!Admit(g)
      BY <2>1, <2>2, <2>3 DEF Follower!Admit, Follower!progress, Wanted, Barred
  <2> QED BY <2>4 DEF Follower!Next
<1>3. ASSUME NEW e \in Events, Suppress(e)
      PROVE  Follower!Next
  <2>1. suppressed' = suppressed \cup {e} /\ UNCHANGED <<log, tables, cursor>>
      BY <1>3 DEF Suppress
  <2>2. Follower!Hide(e)
      BY <2>1, TermsStay DEF tables, Follower!Hide, Follower!terms, Follower!progress, Wanted, Barred
  <2> QED BY <2>2 DEF Follower!Next
<1>4. ASSUME NEW g \in Generations, NEW n \in 0..MaxEvents, Rebuild(g, n)
      PROVE  [Follower!Next]_Follower!vars
  <2>1. g <= opened /\ n <= log /\ UNCHANGED <<log, opened, contract, mapped, suppressed>>
        /\ Wanted' = Wanted /\ Barred' = Barred
      BY <1>4, TermsStay DEF Rebuild
  <2>2. CASE Accepted(contract[g], mapped[g], 0, n)
    <3>1. cursor' = Active(g, n) /\ rows' = [rows EXCEPT ![g] = Items(contract[g], 0, n)]
        BY <1>4, <2>2 DEF Rebuild, Replay
    <3>2. Follower!MadeOf(g, n)
        BY <2>1, <2>2, <3>1, MadeFollows
    <3>3. Follower!Replay(g, n) /\ n \in Events \cup {0}
        BY <2>1, <3>2, Bounds DEF Follower!Replay, Follower!terms, Wanted, Barred, Events
    <3> QED BY <3>3 DEF Follower!Next
  <2>3. CASE ~Accepted(contract[g], mapped[g], 0, n)
    <3>1. cursor' = cursor /\ rows' = rows
        BY <1>4, <2>3 DEF Rebuild, Replay, TypeOK
    <3> QED BY <2>1, <3>1, QuietStep DEF tables
  <2> QED BY <2>2, <2>3
<1>5. ASSUME NEW types \in SUBSET Families, NEW carry \in BOOLEAN, NEW n \in 0..MaxEvents,
             OpenGeneration(types, carry, n)
      PROVE  Follower!Next
  <2> DEFINE g == opened + 1
             map == IF carry THEN mapped[cursor.gen] ELSE {}
  <2>1. /\ g \in Generations /\ opened' = g /\ n <= log /\ UNCHANGED <<log, suppressed>>
        /\ contract' = [contract EXCEPT ![g] = types] /\ mapped' = [mapped EXCEPT ![g] = map]
        /\ Accepted(types, map, 0, n) /\ cursor' = Active(g, n)
        /\ rows' = [rows EXCEPT ![g] = Items(types, 0, n)]
      BY <1>0, <1>5 DEF OpenGeneration, Generations
  <2>2. contract'[g] = types /\ mapped'[g] = map
      BY <2>1 DEF TypeOK
  <2>3. Follower!MadeOf(g, n)
    <3> HIDE DEF g, map
    <3> QED BY <2>1, <2>2, MadeFollows
  <2>4. /\ Wanted' = [Wanted EXCEPT ![g] = Wanted'[g]] /\ Wanted'[g] \in SUBSET Events
        /\ Barred' = [Barred EXCEPT ![g] = Barred'[g]] /\ Barred'[g] \in SUBSET Events
    <3>1. \A h \in Generations \ {g} : contract'[h] = contract[h] /\ mapped'[h] = mapped[h]
        BY <2>1 DEF TypeOK
    <3> HIDE DEF g
    <3> QED BY <2>1, <3>1 DEF Wanted, Barred, Reduced, Refused, Unmapped
  <2>5. Follower!Open(n)
    <3> HIDE DEF map
    <3> QED BY <2>1, <2>3, <2>4 DEF Follower!Open, Wanted, Barred
  <2>6. n \in Events \cup {0}
      BY Bounds DEF Events
  <2> QED BY <2>5, <2>6 DEF Follower!Next
<1> QED BY <1>1, <1>2, <1>3, <1>4, <1>5 DEF Operator

LEMMA FollowerStep == TypeOK /\ [Next]_vars => [Follower!Next]_Follower!vars
<1> SUFFICES ASSUME TypeOK, [Next]_vars PROVE [Follower!Next]_Follower!vars
    OBVIOUS
<1>1. CASE Append
  <2>1. log' = log + 1 /\ UNCHANGED <<tables, cursor, suppressed>>
      BY <1>1 DEF Append
  <2>2. Follower!Hear
      BY <2>1, TermsStay DEF tables, Follower!Hear, Follower!terms, Follower!progress, Wanted, Barred
  <2> QED BY <2>2 DEF Follower!Next
<1>2. ASSUME NEW w \in Workers, ReportFailure(w) PROVE [Follower!Next]_Follower!vars
  <2>1. CASE cursor' = cursor
      BY <1>2, <2>1, QuietStep DEF ReportFailure
  <2>2. CASE cursor' # cursor
    <3>1. /\ cursor.status = "active" /\ cursor' = [cursor EXCEPT !.status = "halted", !.code = "reader"]
          /\ UNCHANGED <<log, tables, suppressed>>
        BY <1>2, <2>2 DEF ReportFailure, Halted
    <3>2. /\ cursor \in Cursors /\ Halts(cursor.code) = "following"
        BY <3>1 DEF TypeOK, Cursors, Halts
    <3>3. cursor'.gen = cursor.gen /\ cursor'.seq = cursor.seq /\ Halts(cursor'.code) = "reader"
        BY <3>1, <3>2 DEF Cursors, Halts
    <3>4. Follower!Halt
        BY <3>1, <3>2, <3>3, TermsStay DEF tables, Follower!Halt, Follower!terms, Wanted, Barred
    <3> QED BY <3>4 DEF Follower!Next
  <2> QED BY <2>1, <2>2
<1>3. ASSUME NEW w \in Workers,
             \/ Acquire(w) \/ EndPass(w) \/ Read(w) \/ ReadFails(w) \/ LosesLease(w) \/ Bounces(w)
             \/ Release(w) \/ Crash(w)
      PROVE  UNCHANGED Follower!vars
  <2>1. UNCHANGED <<log, tables, cursor, suppressed>>
      BY <1>3 DEF Acquire, EndPass, Read, ReadFails, LosesLease, Bounces, Release, Crash
  <2> QED BY <2>1, QuietStep
<1>4. CASE Tick \/ UNCHANGED vars
  <2>1. UNCHANGED <<log, tables, cursor, suppressed>>
      BY <1>4 DEF Tick, vars
  <2> QED BY <2>1, QuietStep
<1> QED BY <1>1, <1>2, <1>3, <1>4, ImportFollows, OperatorFollows DEF Next, Pass

(* The bridge implements EventFollower: any number of workers with leases   *)
(* that run out, stale batches and crashes are one reader that consumes the *)
(* stream in order and halts only for what it really met.                   *)
THEOREM BridgeFollowsTheStream == Spec => FollowsTheStream
<1>1. TypeOK /\ [Next]_vars => [Follower!Next]_Follower!vars
    BY FollowerStep
<1> QED BY <1>1, FollowerInit, BridgeTypes, PTL DEF Spec, FollowsTheStream, Follower!Spec
=============================================================================
