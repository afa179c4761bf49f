------------------------ MODULE ApprovalGrantsProofs ------------------------
(***************************************************************************)
(* Proofs about ApprovalGrants for every number of calls, turns,           *)
(* conversations and requests, every validity and every scan limit.        *)
(***************************************************************************)
EXTENDS ApprovalGrants, FiniteSetTheorems, TLAPS

LEMMA Numbers ==
    /\ ChatIds \in Nat \ {0} /\ MaxChats \in Nat \ {0} /\ MaxRequests \in Nat \ {0}
    /\ OnceTTL \in Nat \ {0} /\ SessionTTL \in Nat \ {0} /\ ScanLimit \in Nat \ {0}
    /\ NoCall \notin Calls
BY GrantsAssumption

RowType == [status : RowStates, call : Calls \cup {NoCall}, id : 0..ChatIds, ttl : 0..OnceTTL, by : Owners]
SessionType == [status : GrantStates, source : 0..MaxRequests, ttl : 0..SessionTTL]

-----------------------------------------------------------------------------
(* What a step can do to a row of approvals.                                *)

SameRequest(a) ==
    row'[a].call = row[a].call /\ row'[a].id = row[a].id /\ row'[a].by = row[a].by
Keeps(a) ==
    /\ SameRequest(a) /\ row'[a].status = row[a].status /\ spentIn'[a] = spentIn[a]
    /\ row'[a].ttl <= row[a].ttl
IsDecided(a) ==
    /\ SameRequest(a) /\ row[a].status = "pending" /\ spentIn'[a] = spentIn[a]
    /\ row'[a].status \in {"approved", "denied", "consumed"}
IsSpent(a) ==
    /\ SameRequest(a) /\ Granted(a) /\ row'[a].status = "consumed"
Expires(a) ==
    /\ SameRequest(a) /\ row[a].status = "approved" /\ row[a].ttl = 0
    /\ row'[a].status = "expired" /\ spentIn'[a] = spentIn[a]
Appears(a) ==
    /\ row[a].status = "absent" /\ spentIn'[a] = spentIn[a]
    /\ \E t \in Turns, c \in Calls : Request(t, c, a)
RowMoves(a) == Keeps(a) \/ IsDecided(a) \/ IsSpent(a) \/ Expires(a) \/ Appears(a)

LEMMA RowFacts ==
    ASSUME TypeOK, NEW a \in Rows
    PROVE  row[a] \in RowType /\ row[a].ttl \in Nat
BY Numbers DEF TypeOK, RowType

LEMMA ExpireRow ==
    ASSUME TypeOK, NEW a \in Rows, NEW S
    PROVE  /\ Expire(S)[a] \in RowType
           /\ Expire(S)[a].call = row[a].call /\ Expire(S)[a].id = row[a].id
           /\ Expire(S)[a].by = row[a].by /\ Expire(S)[a].ttl = row[a].ttl
           /\ \/ Expire(S)[a].status = row[a].status
              \/ row[a].status = "approved" /\ row[a].ttl = 0 /\ Expire(S)[a].status = "expired"
BY RowFacts DEF Expire, RowType, RowStates

-----------------------------------------------------------------------------
(* Types.                                                                   *)

LEMMA TypeInit == Init => TypeOK
<1>1. 0 \in 0..ChatIds /\ 0 \in Owners /\ 0 \in 0..OnceTTL /\ 0 \in 0..SessionTTL /\ 0 \in 0..MaxRequests
    BY Numbers DEF Owners
<1> QED BY <1>1 DEF Init, TypeOK, Blank, NoGrant, RowStates, GrantStates

LEMMA ThroughType ==
    ASSUME TypeOK, NEW t, NEW c, Through(t, c)
    PROVE  ran' \in [Keys -> BOOLEAN]
BY DEF TypeOK, Through

LEMMA TypeStep == TypeOK /\ [Next]_vars => TypeOK'
<1> SUFFICES ASSUME TypeOK, [Next]_vars PROVE TypeOK'
    OBVIOUS
<1> USE DEF chatVars, turnVars, grantVars
<1>1. CASE Tick
  <2>1. row' \in [Rows -> RowType]
    <3>1. \A a \in Rows : [row[a] EXCEPT !.ttl = Lowered(@)] \in RowType
      <4> SUFFICES ASSUME NEW a \in Rows PROVE [row[a] EXCEPT !.ttl = Lowered(@)] \in RowType
          OBVIOUS
      <4>1. row[a] \in RowType /\ Lowered(row[a].ttl) \in 0..OnceTTL
          BY RowFacts, Numbers DEF RowType, Lowered
      <4> QED BY <4>1 DEF RowType
    <3> QED BY <1>1, <3>1 DEF Tick
  <2>2. session' \in [Keys -> SessionType]
    <3>1. \A k \in Keys : [session[k] EXCEPT !.ttl = Lowered(@)] \in SessionType
      <4> SUFFICES ASSUME NEW k \in Keys PROVE [session[k] EXCEPT !.ttl = Lowered(@)] \in SessionType
          OBVIOUS
      <4>1. session[k] \in SessionType /\ Lowered(session[k].ttl) \in 0..SessionTTL
          BY Numbers DEF TypeOK, SessionType, Lowered
      <4> QED BY <4>1 DEF SessionType
    <3> QED BY <1>1, <3>1 DEF Tick
  <2> QED BY <1>1, <2>1, <2>2 DEF TypeOK, Tick, RowType, SessionType
<1>2. ASSUME NEW i \in Ids, NewChat(i) PROVE TypeOK'
  <2>1. made + 1 \in Owners
      BY <1>2, Numbers DEF TypeOK, NewChat, Owners
  <2> QED BY <1>2, <2>1 DEF TypeOK, NewChat
<1>3. ASSUME NEW i \in Ids, DeleteChat(i) PROVE TypeOK'
  <2>1. row' \in [Rows -> RowType]
      BY <1>3, RowFacts DEF DeleteChat, DenyPending, RowType, RowStates
  <2>2. session' \in [Keys -> SessionType]
      BY <1>3 DEF TypeOK, DeleteChat, RevokeSessions, SessionType, GrantStates
  <2>3. chat' \in [Ids -> Owners]
    <3>1. 0 \in Owners
        BY Numbers DEF Owners
    <3> QED BY <1>3, <3>1 DEF TypeOK, DeleteChat
  <2> QED BY <1>3, <2>1, <2>2, <2>3 DEF TypeOK, DeleteChat, RowType, SessionType
<1>4. ASSUME NEW t \in Turns, EndTurn(t) PROVE TypeOK'
  <2>1. 0 \in Owners /\ 0 \in 0..ChatIds
      BY Numbers DEF Owners
  <2> QED BY <1>4, <2>1 DEF TypeOK, EndTurn
<1>5. ASSUME NEW t \in Turns, NEW i \in Ids, StartTurn(t, i) PROVE TypeOK'
  <2>1. i \in 0..ChatIds /\ chat[i] \in Owners
      BY Numbers DEF Ids, TypeOK
  <2> QED BY <1>5, <2>1 DEF TypeOK, StartTurn
<1>6. ASSUME NEW t \in Turns, NEW c \in Calls, RunOnGrant(t, c) PROVE TypeOK'
    BY <1>6, ThroughType DEF TypeOK, RunOnGrant
<1>7. ASSUME NEW t \in Turns, NEW c \in Calls, NEW a \in Rows, Consume(t, c, a) PROVE TypeOK'
  <2>1. Spent(a) \in RowType
      BY RowFacts DEF Spent, RowType, RowStates
  <2>2. row' \in [Rows -> RowType]
    <3>1. Expire(Newer(a, Scanned(t, c))) \in [Rows -> RowType]
        BY ExpireRow DEF Expire
    <3> QED BY <1>7, <2>1, <3>1 DEF Consume
  <2>3. spentIn' \in [Rows -> Owners]
      BY <1>7 DEF TypeOK, Consume
  <2>4. ran' \in [Keys -> BOOLEAN]
      BY <1>7, ThroughType DEF Consume
  <2> QED BY <1>7, <2>2, <2>3, <2>4 DEF TypeOK, Consume, RowType
<1>8. ASSUME NEW t \in Turns, NEW c \in Calls, NEW a \in Rows, MeetPending(t, c, a) PROVE TypeOK'
  <2>1. row' \in [Rows -> RowType]
      BY <1>8, ExpireRow DEF MeetPending, Expire
  <2> QED BY <1>8, <2>1 DEF TypeOK, MeetPending, RowType
<1>9. ASSUME NEW t \in Turns, NEW c \in Calls, NEW a \in Rows, Request(t, c, a) PROVE TypeOK'
  <2>1. [status |-> "pending", call |-> c, id |-> scope[t], ttl |-> 0, by |-> home[t]] \in RowType
      BY Numbers DEF TypeOK, RowType, RowStates
  <2>2. Expire(Scanned(t, c)) \in [Rows -> RowType]
      BY ExpireRow DEF Expire
  <2>3. row' \in [Rows -> RowType]
      BY <1>9, <2>1, <2>2 DEF Request
  <2> QED BY <1>9, <2>3 DEF TypeOK, Request, RowType
<1>10. ASSUME NEW a \in Rows, NEW approve \in BOOLEAN, DecideOnce(a, approve) PROVE TypeOK'
  <2>1. row' \in [Rows -> RowType]
    <3>1. /\ [row[a] EXCEPT !.status = "approved", !.ttl = OnceTTL] \in RowType
          /\ [row[a] EXCEPT !.status = "denied"] \in RowType
      <4>1. row[a] \in RowType /\ OnceTTL \in 0..OnceTTL
          BY RowFacts, Numbers
      <4>2. {"approved", "denied"} \subseteq RowStates
          BY DEF RowStates
      <4> QED BY <4>1, <4>2 DEF RowType
    <3>2. \/ row' = [row EXCEPT ![a] = [row[a] EXCEPT !.status = "approved", !.ttl = OnceTTL]]
          \/ row' = [row EXCEPT ![a] = [row[a] EXCEPT !.status = "denied"]]
        BY <1>10 DEF DecideOnce, TypeOK
    <3>3. row \in [Rows -> RowType]
        BY DEF TypeOK, RowType
    <3> QED BY <3>1, <3>2, <3>3
  <2> QED BY <1>10, <2>1 DEF TypeOK, DecideOnce, RowType
<1>11. ASSUME NEW a \in Rows, UsedUp(a) = row' PROVE row' \in [Rows -> RowType]
    BY <1>11, RowFacts DEF TypeOK, UsedUp, RowType, RowStates
<1>12. ASSUME NEW a \in Rows, DecideAlways(a) PROVE TypeOK'
  <2>1. Upsert(always[row[a].call], a, 0) \in [status : GrantStates, source : 0..MaxRequests, ttl : {0}]
      BY Numbers DEF Upsert, GrantStates, Rows
  <2>2. always' \in [Calls -> [status : GrantStates, source : 0..MaxRequests, ttl : {0}]]
      BY <1>12, <2>1 DEF TypeOK, DecideAlways
  <2>3. row' \in [Rows -> RowType]
      BY <1>11, <1>12 DEF DecideAlways
  <2> QED BY <1>12, <2>2, <2>3 DEF TypeOK, DecideAlways, RowType
<1>13. ASSUME NEW a \in Rows, DecideForSession(a) PROVE TypeOK'
  <2>1. Upsert(session[<<row[a].call, row[a].id>>], a, SessionTTL) \in SessionType
      BY Numbers DEF Upsert, GrantStates, SessionType, Rows
  <2>2. session' \in [Keys -> SessionType]
      BY <1>13, <2>1 DEF TypeOK, DecideForSession, SessionType
  <2>3. row' \in [Rows -> RowType]
      BY <1>11, <1>13 DEF DecideForSession
  <2> QED BY <1>13, <2>2, <2>3 DEF TypeOK, DecideForSession, RowType, SessionType
<1>14. ASSUME NEW c \in Calls, RevokeAlways(c) PROVE TypeOK'
    BY <1>14 DEF TypeOK, RevokeAlways, GrantStates
<1>15. ASSUME NEW k \in Keys, RevokeSession(k) PROVE TypeOK'
    BY <1>15 DEF TypeOK, RevokeSession, GrantStates
<1>16. CASE UNCHANGED vars
    BY <1>16 DEF TypeOK, vars
<1> QED BY <1>1, <1>2, <1>3, <1>4, <1>5, <1>6, <1>7, <1>8, <1>9, <1>10, <1>12, <1>13, <1>14,
           <1>15, <1>16 DEF Next

(* The tables keep their types.                                             *)
THEOREM GrantTypes == Spec => []TypeOK
BY TypeInit, TypeStep, PTL DEF Spec

-----------------------------------------------------------------------------
(* Every step moves each row in one of five ways.                           *)

LEMMA Untouched ==
    ASSUME TypeOK, NEW a \in Rows, row'[a] = row[a], spentIn'[a] = spentIn[a]
    PROVE  Keeps(a)
BY RowFacts DEF Keeps, SameRequest

LEMMA ExpireMoves ==
    ASSUME TypeOK, NEW a \in Rows, NEW S, row'[a] = Expire(S)[a], spentIn'[a] = spentIn[a]
    PROVE  Keeps(a) \/ Expires(a)
BY ExpireRow, RowFacts DEF Keeps, Expires, SameRequest

LEMMA RequestRows ==
    ASSUME TypeOK, NEW t \in Turns, NEW c \in Calls, NEW a \in Rows, Request(t, c, a)
    PROVE  /\ row'[a] = [status |-> "pending", call |-> c, id |-> scope[t], ttl |-> 0, by |-> home[t]]
           /\ \A b \in Rows \ {a} : Keeps(b) \/ Expires(b)
<1>1. Expire(Scanned(t, c)) \in [Rows -> RowType]
    BY ExpireRow DEF Expire
<1>2. /\ row'[a] = [status |-> "pending", call |-> c, id |-> scope[t], ttl |-> 0, by |-> home[t]]
      /\ \A b \in Rows \ {a} : row'[b] = Expire(Scanned(t, c))[b] /\ spentIn'[b] = spentIn[b]
    BY <1>1 DEF Request
<1> QED BY <1>2, ExpireMoves

LEMMA AllRowsMove ==
    ASSUME TypeOK, [Next]_vars, NEW a \in Rows
    PROVE  RowMoves(a)
<1>0. row[a] \in RowType /\ row[a].ttl \in Nat /\ row \in [Rows -> RowType]
    BY RowFacts DEF TypeOK, RowType
<1>1. CASE UNCHANGED <<row, spentIn>>
    BY <1>1, Untouched DEF RowMoves
<1>2. CASE Tick
  <2>1. row'[a] = [row[a] EXCEPT !.ttl = Lowered(@)] /\ spentIn'[a] = spentIn[a]
      BY <1>2 DEF Tick
  <2>2. Lowered(row[a].ttl) <= row[a].ttl
      BY <1>0 DEF Lowered
  <2> QED BY <1>0, <2>1, <2>2 DEF RowMoves, Keeps, SameRequest, RowType
<1>3. ASSUME NEW i \in Ids, DeleteChat(i) PROVE RowMoves(a)
  <2>1. CASE row[a].id = i /\ row[a].status = "pending"
    <3>1. row'[a] = [row[a] EXCEPT !.status = "denied"] /\ spentIn'[a] = spentIn[a]
        BY <1>3, <2>1 DEF DeleteChat, DenyPending
    <3> QED BY <1>0, <2>1, <3>1 DEF RowMoves, IsDecided, SameRequest, RowType
  <2>2. CASE ~(row[a].id = i /\ row[a].status = "pending")
      BY <1>3, <2>2, Untouched DEF DeleteChat, DenyPending, RowMoves
  <2> QED BY <2>1, <2>2
<1>4. ASSUME NEW t \in Turns, NEW c \in Calls, NEW b \in Rows, Consume(t, c, b) PROVE RowMoves(a)
  <2>0. Expire(Newer(b, Scanned(t, c))) \in [Rows -> RowType]
      BY ExpireRow DEF Expire
  <2>1. CASE a = b
    <3>1. row'[a] = [row[a] EXCEPT !.status = "consumed"] /\ Granted(a)
        BY <1>4, <2>0, <2>1 DEF Consume, Spent
    <3> QED BY <1>0, <3>1 DEF RowMoves, IsSpent, SameRequest, RowType
  <2>2. CASE a # b
    <3>1. row'[a] = Expire(Newer(b, Scanned(t, c)))[a] /\ spentIn'[a] = spentIn[a]
        BY <1>4, <2>0, <2>2 DEF Consume, TypeOK
    <3> QED BY <3>1, ExpireMoves DEF RowMoves
  <2> QED BY <2>1, <2>2
<1>5. ASSUME NEW t \in Turns, NEW c \in Calls, NEW b \in Rows, MeetPending(t, c, b) PROVE RowMoves(a)
    BY <1>5, ExpireMoves DEF MeetPending, RowMoves
<1>6. ASSUME NEW t \in Turns, NEW c \in Calls, NEW b \in Rows, Request(t, c, b) PROVE RowMoves(a)
  <2>1. CASE a = b
      BY <1>6, <2>1 DEF RowMoves, Appears, Request
  <2>2. CASE a # b
      BY <1>6, <2>2, RequestRows DEF RowMoves
  <2> QED BY <2>1, <2>2
<1>7. ASSUME NEW b \in Rows, Undecided(b), spentIn' = spentIn,
             \/ row' = [row EXCEPT ![b] = [row[b] EXCEPT !.status = "approved", !.ttl = OnceTTL]]
             \/ row' = [row EXCEPT ![b] = [row[b] EXCEPT !.status = "denied"]]
             \/ row' = [row EXCEPT ![b] = [row[b] EXCEPT !.status = "consumed"]]
      PROVE  RowMoves(a)
  <2>1. CASE a = b
    <3>1. \/ row'[a] = [row[a] EXCEPT !.status = "approved", !.ttl = OnceTTL]
          \/ row'[a] = [row[a] EXCEPT !.status = "denied"]
          \/ row'[a] = [row[a] EXCEPT !.status = "consumed"]
        BY <1>0, <1>7, <2>1
    <3> QED BY <1>0, <1>7, <2>1, <3>1 DEF RowMoves, IsDecided, SameRequest, Undecided, RowType
  <2>2. CASE a # b
      BY <1>7, <2>2, <1>0, Untouched DEF RowMoves
  <2> QED BY <2>1, <2>2
<1>8. ASSUME NEW b \in Rows, DecideAlways(b) \/ DecideForSession(b) \/ \E approve \in BOOLEAN : DecideOnce(b, approve)
      PROVE  RowMoves(a)
    BY <1>0, <1>7, <1>8 DEF DecideAlways, DecideForSession, DecideOnce, UsedUp
<1>9. CASE \/ \E i \in Ids : NewChat(i)
           \/ \E t \in Turns : EndTurn(t) \/ \E i \in Ids : StartTurn(t, i)
           \/ \E t \in Turns, c \in Calls : RunOnGrant(t, c)
           \/ \E c \in Calls : RevokeAlways(c)
           \/ \E k \in Keys : RevokeSession(k)
           \/ UNCHANGED vars
    BY <1>1, <1>9 DEF NewChat, EndTurn, StartTurn, RunOnGrant, RevokeAlways, RevokeSession, vars
<1> QED BY <1>2, <1>3, <1>4, <1>5, <1>6, <1>8, <1>9 DEF Next

(* What is decided stays decided.                                           *)
THEOREM DecisionsAreFinal == Spec => DecidedOnce
<1> DEFINE Final(a) ==
          /\ row[a].status \in {"denied", "consumed", "expired"}
                => row'[a].status = row[a].status /\ spentIn'[a] = spentIn[a]
          /\ row[a].status = "approved" => row'[a].status \in {"approved", "consumed", "expired"}
          /\ row'[a].status = "approved" /\ row[a].status # "approved" => Undecided(a)
<1>1. ASSUME TypeOK, [Next]_vars, NEW a \in Rows PROVE Final(a)
  <2>1. CASE Appears(a)
    <3>1. row'[a].status = "pending"
      <4>1. PICK t \in Turns, c \in Calls : Request(t, c, a)
          BY <2>1 DEF Appears
      <4>2. row'[a] = [status |-> "pending", call |-> c, id |-> scope[t], ttl |-> 0, by |-> home[t]]
          BY <1>1, <4>1, RequestRows
      <4> QED BY <4>2
    <3> QED BY <2>1, <3>1 DEF Appears
  <2>2. CASE ~Appears(a)
      BY <1>1, <2>2, AllRowsMove DEF RowMoves, Keeps, IsDecided, IsSpent, Expires, Undecided, Granted
  <2> QED BY <2>1, <2>2
<1>2. TypeOK /\ [Next]_vars => [\A a \in Rows : Final(a)]_vars
    BY <1>1
<1> QED BY <1>2, GrantTypes, PTL DEF Spec, DecidedOnce

-----------------------------------------------------------------------------
(* Standing grants and the requests behind them.                            *)

Unspent == \A a \in Rows : row[a].status # "consumed" => spentIn[a] = 0
SourceInv == Unspent /\ GrantsHaveSource

LEMMA UsedUpStands ==
    ASSUME TypeOK, [Next]_vars, NEW a \in Rows, row[a].status = "consumed"
    PROVE  SameRequest(a) /\ row'[a].status = "consumed" /\ spentIn'[a] = spentIn[a]
BY AllRowsMove DEF RowMoves, Keeps, IsDecided, IsSpent, Expires, Appears, Granted

LEMMA UnspentStep ==
    ASSUME TypeOK, [Next]_vars, Unspent
    PROVE  Unspent'
<1> SUFFICES ASSUME NEW a \in Rows, row'[a].status # "consumed" PROVE spentIn'[a] = 0
    BY DEF Unspent
<1> QED BY AllRowsMove DEF Unspent, RowMoves, Keeps, IsDecided, IsSpent, Expires, Appears

(* A grant that is live after a step was live before it, on the same        *)
(* request, or is given by this step on a request that was still waiting.   *)
LEMMA AlwaysMoves ==
    ASSUME TypeOK, [Next]_vars, NEW c \in Calls, always'[c].status = "live"
    PROVE  \/ always[c] = always'[c]
           \/ \E a \in Rows : DecideAlways(a) /\ c = row[a].call /\ always'[c].source = a
<1>1. CASE UNCHANGED always
    BY <1>1
<1>2. ASSUME NEW a \in Rows, DecideAlways(a) PROVE
         \/ always[c] = always'[c]
         \/ c = row[a].call /\ always'[c].source = a
    BY <1>2 DEF TypeOK, DecideAlways, Upsert
<1>3. ASSUME NEW d \in Calls, RevokeAlways(d) PROVE always[c] = always'[c]
    BY <1>3 DEF TypeOK, RevokeAlways
<1> QED BY <1>1, <1>2, <1>3 DEF Next, Tick, NewChat, DeleteChat, EndTurn, StartTurn, RunOnGrant, Consume,
           MeetPending, Request, DecideForSession, DecideOnce, RevokeSession, vars, grantVars

LEMMA SessionMoves ==
    ASSUME TypeOK, [Next]_vars, NEW k \in Keys, session'[k].status = "live"
    PROVE  \/ session[k].status = "live" /\ session'[k].source = session[k].source
              /\ \A i \in Ids : DeleteChat(i) => k[2] # i
           \/ \E a \in Rows : DecideForSession(a) /\ k = <<row[a].call, row[a].id>> /\ session'[k].source = a
<1> DEFINE Stays == session[k].status = "live" /\ session'[k].source = session[k].source
<1>0. session \in [Keys -> SessionType]
    BY DEF TypeOK, SessionType
<1>1. CASE UNCHANGED session
  <2>1. \A i \in Ids : DeleteChat(i) => k[2] # i
      BY <1>0, <1>1 DEF DeleteChat, RevokeSessions, SessionType
  <2> QED BY <1>1, <2>1
<1>2. CASE Tick
  <2>1. session'[k] = [session[k] EXCEPT !.ttl = Lowered(@)]
      BY <1>2 DEF Tick
  <2>2. Stays
      BY <1>0, <2>1 DEF SessionType
  <2>3. UNCHANGED chat
      BY <1>2 DEF Tick, chatVars
  <2>4. \A i \in Ids : ~DeleteChat(i)
      BY <2>3, Numbers DEF DeleteChat, TypeOK
  <2> QED BY <2>2, <2>4
<1>3. ASSUME NEW i \in Ids, DeleteChat(i) PROVE
         session[k].status = "live" /\ session'[k].source = session[k].source /\ k[2] # i
    BY <1>0, <1>3 DEF DeleteChat, RevokeSessions, SessionType
<1>4. ASSUME NEW i \in Ids, DeleteChat(i) PROVE
         Stays /\ \A j \in Ids : DeleteChat(j) => k[2] # j
    BY <1>3, <1>4
<1>5. ASSUME NEW a \in Rows, DecideForSession(a) PROVE
         \/ Stays /\ \A i \in Ids : DeleteChat(i) => k[2] # i
         \/ k = <<row[a].call, row[a].id>> /\ session'[k].source = a
  <2>1. UNCHANGED chat
      BY <1>5 DEF DecideForSession, chatVars
  <2>2. \A i \in Ids : ~DeleteChat(i)
      BY <2>1, Numbers DEF DeleteChat, TypeOK
  <2>3. Stays \/ (k = <<row[a].call, row[a].id>> /\ session'[k].source = a)
      BY <1>0, <1>5 DEF DecideForSession, Upsert
  <2> QED BY <2>2, <2>3
<1>6. ASSUME NEW l \in Keys, RevokeSession(l) PROVE
         Stays /\ \A i \in Ids : DeleteChat(i) => k[2] # i
  <2>1. UNCHANGED chat
      BY <1>6 DEF RevokeSession, chatVars
  <2>2. \A i \in Ids : ~DeleteChat(i)
      BY <2>1, Numbers DEF DeleteChat, TypeOK
  <2>3. Stays
      BY <1>0, <1>6 DEF RevokeSession, SessionType
  <2> QED BY <2>2, <2>3
<1>7. UNCHANGED session \/ Tick \/ (\E i \in Ids : DeleteChat(i))
      \/ (\E a \in Rows : DecideForSession(a)) \/ (\E l \in Keys : RevokeSession(l))
    BY DEF Next, NewChat, EndTurn, StartTurn, RunOnGrant, Consume, MeetPending, Request, DecideAlways,
           DecideOnce, RevokeAlways, vars, grantVars
<1> QED BY <1>1, <1>2, <1>4, <1>5, <1>6, <1>7

LEMMA UsedUpNow ==
    ASSUME TypeOK, Unspent, NEW a \in Rows, Undecided(a), row' = UsedUp(a), spentIn' = spentIn
    PROVE  SameRequest(a) /\ row'[a].status = "consumed" /\ spentIn'[a] = 0
BY RowFacts DEF TypeOK, Unspent, Undecided, UsedUp, SameRequest, RowType

LEMMA SourceStep == TypeOK /\ TypeOK' /\ SourceInv /\ [Next]_vars => SourceInv'
<1> SUFFICES ASSUME TypeOK, TypeOK', SourceInv, [Next]_vars PROVE SourceInv'
    OBVIOUS
<1>1. ASSUME NEW c \in Calls, always'[c].status = "live"
      PROVE  LET a == always'[c].source
             IN  a # 0 /\ row'[a].call = c /\ row'[a].status = "consumed" /\ spentIn'[a] = 0
  <2>1. CASE always[c] = always'[c]
    <3>1. always[c].source \in Rows
        BY <1>1, <2>1, Numbers DEF SourceInv, GrantsHaveSource, TypeOK, Rows
    <3> QED BY <1>1, <2>1, <3>1, UsedUpStands DEF SourceInv, GrantsHaveSource, SameRequest
  <2>2. ASSUME NEW a \in Rows, DecideAlways(a), c = row[a].call, always'[c].source = a
        PROVE  a # 0 /\ row'[a].call = c /\ row'[a].status = "consumed" /\ spentIn'[a] = 0
      BY <2>2, UsedUpNow DEF SourceInv, DecideAlways, SameRequest, Rows
  <2> QED BY <1>1, <2>1, <2>2, AlwaysMoves
<1>2. ASSUME NEW k \in Keys, session'[k].status = "live"
      PROVE  LET a == session'[k].source
             IN  a # 0 /\ row'[a].call = k[1] /\ row'[a].id = k[2]
                 /\ row'[a].status = "consumed" /\ spentIn'[a] = 0
  <2>1. CASE session[k].status = "live" /\ session'[k].source = session[k].source
    <3>1. session[k].source \in Rows
        BY <2>1, Numbers DEF SourceInv, GrantsHaveSource, TypeOK, Rows
    <3> QED BY <2>1, <3>1, UsedUpStands DEF SourceInv, GrantsHaveSource, SameRequest
  <2>2. ASSUME NEW a \in Rows, DecideForSession(a), k = <<row[a].call, row[a].id>>, session'[k].source = a
        PROVE  a # 0 /\ row'[a].call = k[1] /\ row'[a].id = k[2]
               /\ row'[a].status = "consumed" /\ spentIn'[a] = 0
    <3>1. k[1] = row[a].call /\ k[2] = row[a].id
        BY <2>2
    <3> QED BY <2>2, <3>1, UsedUpNow DEF SourceInv, DecideForSession, SameRequest, Rows
  <2> QED BY <1>2, <2>1, <2>2, SessionMoves
<1>3. Unspent'
    BY UnspentStep DEF SourceInv
<1> QED BY <1>1, <1>2, <1>3 DEF SourceInv, GrantsHaveSource

LEMMA SourceInit == Init => SourceInv
BY DEF Init, SourceInv, Unspent, GrantsHaveSource, NoGrant, Blank

LEMMA SourcesHold == Spec => [](TypeOK /\ SourceInv)
<1>1. TypeOK /\ SourceInv /\ [Next]_vars => (TypeOK /\ SourceInv)'
    BY TypeStep, SourceStep
<1> QED BY <1>1, TypeInit, SourceInit, PTL DEF Spec

(* A live standing grant stands on a used-up request for the same call, and *)
(* in the same scope.                                                       *)
THEOREM GrantSources == Spec => []GrantsHaveSource
BY SourcesHold, PTL DEF SourceInv

-----------------------------------------------------------------------------
(* Conversations and what is granted in them, when every turn is a job of   *)
(* Presence: a conversation is not deleted under a turn, so what a turn     *)
(* asks for belongs to the conversation that holds the id.                  *)

TurnsAtHome == \A t \in Turns : scope[t] # 0 => chat[scope[t]] # 0 /\ home[t] = chat[scope[t]]
PendingOwned ==
    \A a \in Rows : Undecided(a) =>
        row[a].id \in Ids /\ chat[row[a].id] # 0 /\ row[a].by = chat[row[a].id]
SessionOwned ==
    \A k \in Keys : session[k].status = "live" =>
        chat[k[2]] # 0 /\ row[session[k].source].by = chat[k[2]]
OwnInv == SourceInv /\ TurnsAtHome /\ PendingOwned /\ SessionOwned

LEMMA ChatStays ==
    ASSUME TypeOK, [Next]_vars, NEW i \in Ids, chat[i] # 0
    PROVE  chat'[i] = chat[i] \/ DeleteChat(i)
<1>1. CASE UNCHANGED chat
    BY <1>1
<1>2. ASSUME NEW j \in Ids, NewChat(j) PROVE chat'[i] = chat[i]
    BY <1>2 DEF TypeOK, NewChat, Fresh, Ids
<1>3. ASSUME NEW j \in Ids, DeleteChat(j) PROVE chat'[i] = chat[i] \/ DeleteChat(i)
    BY <1>3 DEF TypeOK, DeleteChat
<1> QED BY <1>1, <1>2, <1>3 DEF Next, Tick, EndTurn, StartTurn, RunOnGrant, Consume, MeetPending, Request,
           DecideAlways, DecideForSession, DecideOnce, RevokeAlways, RevokeSession, vars, chatVars

LEMMA HomeStep ==
    ASSUME TypeOK, TurnsAtHome, [Next]_vars, Direct = {}
    PROVE  TurnsAtHome'
<1> SUFFICES ASSUME NEW t \in Turns, scope'[t] # 0
             PROVE  chat'[scope'[t]] # 0 /\ home'[t] = chat'[scope'[t]]
    BY DEF TurnsAtHome
<1>1. CASE UNCHANGED turnVars
  <2>1. scope[t] \in Ids /\ chat[scope[t]] # 0 /\ home[t] = chat[scope[t]]
      BY <1>1, Numbers DEF TypeOK, TurnsAtHome, Ids, turnVars
  <2>2. ~DeleteChat(scope[t])
      BY <2>1 DEF DeleteChat, Busy
  <2> QED BY <1>1, <2>1, <2>2, ChatStays DEF turnVars
<1>2. ASSUME NEW u \in Turns, EndTurn(u) PROVE chat'[scope'[t]] # 0 /\ home'[t] = chat'[scope'[t]]
    BY <1>2 DEF TypeOK, TurnsAtHome, EndTurn, chatVars
<1>3. ASSUME NEW u \in Turns, NEW i \in Ids, StartTurn(u, i)
      PROVE  chat'[scope'[t]] # 0 /\ home'[t] = chat'[scope'[t]]
    BY <1>3 DEF TypeOK, TurnsAtHome, StartTurn, chatVars
<1> QED BY <1>1, <1>2, <1>3 DEF Next, Tick, NewChat, DeleteChat, RunOnGrant, Consume, MeetPending, Request,
           DecideAlways, DecideForSession, DecideOnce, RevokeAlways, RevokeSession, vars

LEMMA PendingStep ==
    ASSUME TypeOK, TurnsAtHome, PendingOwned, [Next]_vars
    PROVE  PendingOwned'
<1> SUFFICES ASSUME NEW a \in Rows, row'[a].status = "pending"
             PROVE  row'[a].id \in Ids /\ chat'[row'[a].id] # 0 /\ row'[a].by = chat'[row'[a].id]
    BY DEF PendingOwned, Undecided
<1>1. CASE Appears(a)
  <2>1. PICK t \in Turns, c \in Calls : Request(t, c, a)
      BY <1>1 DEF Appears
  <2>2. row'[a] = [status |-> "pending", call |-> c, id |-> scope[t], ttl |-> 0, by |-> home[t]]
      BY <2>1, RequestRows
  <2>3. scope[t] \in Ids /\ UNCHANGED chat
      BY <2>1, Numbers DEF Request, TypeOK, Ids, chatVars
  <2> QED BY <2>1, <2>2, <2>3 DEF TurnsAtHome, Request
<1>2. CASE ~Appears(a)
  <2>1. SameRequest(a) /\ row[a].status = "pending"
      BY <1>2, AllRowsMove DEF RowMoves, Keeps, IsDecided, IsSpent, Expires
  <2>2. row[a].id \in Ids /\ chat[row[a].id] # 0 /\ row[a].by = chat[row[a].id]
      BY <2>1 DEF PendingOwned, Undecided
  <2>3. ~DeleteChat(row[a].id)
    <3>1. DeleteChat(row[a].id) => row'[a].status = "denied"
        BY <2>1, RowFacts DEF DeleteChat, DenyPending, RowType
    <3> QED BY <3>1
  <2> QED BY <2>1, <2>2, <2>3, ChatStays DEF SameRequest
<1> QED BY <1>1, <1>2

LEMMA SessionStep ==
    ASSUME TypeOK, SourceInv, PendingOwned, SessionOwned, [Next]_vars
    PROVE  SessionOwned'
<1> SUFFICES ASSUME NEW k \in Keys, session'[k].status = "live"
             PROVE  chat'[k[2]] # 0 /\ row'[session'[k].source].by = chat'[k[2]]
    BY DEF SessionOwned
<1>1. CASE session[k].status = "live" /\ session'[k].source = session[k].source
           /\ \A i \in Ids : DeleteChat(i) => k[2] # i
  <2>1. session[k].source \in Rows /\ row[session[k].source].status = "consumed"
      BY <1>1, Numbers DEF SourceInv, GrantsHaveSource, TypeOK, Rows
  <2>2. k[2] \in Ids /\ chat[k[2]] # 0 /\ row[session[k].source].by = chat[k[2]]
      BY <1>1 DEF SessionOwned, Keys
  <2> QED BY <1>1, <2>1, <2>2, UsedUpStands, ChatStays DEF SameRequest
<1>2. ASSUME NEW a \in Rows, DecideForSession(a), k = <<row[a].call, row[a].id>>, session'[k].source = a
      PROVE  chat'[k[2]] # 0 /\ row'[session'[k].source].by = chat'[k[2]]
  <2>1. k[2] = row[a].id /\ chat[k[2]] # 0 /\ row[a].by = chat[k[2]] /\ UNCHANGED chat
      BY <1>2 DEF DecideForSession, PendingOwned, chatVars
  <2>2. SameRequest(a)
      BY <1>2, UsedUpNow DEF DecideForSession, SourceInv
  <2> QED BY <1>2, <2>1, <2>2 DEF SameRequest
<1> QED BY <1>1, <1>2, SessionMoves

(* When every turn is a presence job, what waits and what is granted under  *)
(* an id belongs to the conversation that holds it now.                     *)
THEOREM ChatGrantsOwned == (Direct = {}) => (Spec => []ChatOwnsItsGrants)
<1> SUFFICES ASSUME Direct = {} PROVE Spec => []ChatOwnsItsGrants
    OBVIOUS
<1>1. Init => OwnInv
  <2>1. Init => TurnsAtHome /\ PendingOwned /\ SessionOwned
      BY DEF Init, TurnsAtHome, PendingOwned, SessionOwned, NoGrant, Blank, Undecided
  <2> QED BY <2>1, SourceInit DEF OwnInv
<1>2. TypeOK /\ OwnInv /\ [Next]_vars => (TypeOK /\ OwnInv)'
    BY TypeStep, SourceStep, HomeStep, PendingStep, SessionStep DEF OwnInv
<1>3. OwnInv => ChatOwnsItsGrants
    BY DEF OwnInv, PendingOwned, SessionOwned, ChatOwnsItsGrants
<1> QED BY <1>1, <1>2, <1>3, TypeInit, PTL DEF Spec

-----------------------------------------------------------------------------
(* The tables implement StandingConsent.  A request that can still let a    *)
(* call through is the newest of its call and scope, so the lookup always   *)
(* reads it, whatever its limit.                                            *)

RowsPrefix == \A a, b \in Rows : a < b /\ row[b].status # "absent" => row[a].status # "absent"
RowsScoped == \A a \in Rows : row[a].status # "absent" => KeyOf(a) \in Keys
NewestLives ==
    \A a, b \in Rows : a < b /\ row[b].status # "absent" /\ KeyOf(a) = KeyOf(b) => ~Live(a)
ConsentInv == RowsPrefix /\ RowsScoped /\ NewestLives

LEMMA LiveIsScanned ==
    ASSUME TypeOK, NewestLives, NEW t \in Turns, NEW c \in Calls,
           NEW a \in Rows, Live(a), KeyOf(a) = <<c, scope[t]>>
    PROVE  a \in Scanned(t, c)
<1>1. row[a].call = c /\ row[a].id = scope[t] /\ row[a].status # "absent"
    BY DEF KeyOf, Live, Granted
<1>2. {b \in SameCall(t, c) : b > a} = {}
  <2> SUFFICES ASSUME NEW b \in SameCall(t, c), b > a PROVE FALSE
      OBVIOUS
  <2>1. b \in Rows /\ row[b].status # "absent" /\ KeyOf(a) = KeyOf(b)
      BY DEF SameCall, KeyOf
  <2>2. a < b
      BY <2>1 DEF Rows
  <2> QED BY <2>1, <2>2 DEF NewestLives
<1>3. Cardinality({}) = 0
    BY FS_EmptySet
<1> QED BY <1>1, <1>2, <1>3, Numbers DEF Scanned, SameCall

LEMMA RequestIsNew ==
    ASSUME TypeOK, NewestLives, NEW t \in Turns, NEW c \in Calls, NoAnswer(t, c), NEW a \in Rows,
           KeyOf(a) = <<c, scope[t]>>
    PROVE  ~Live(a)
BY LiveIsScanned DEF NoAnswer

LEMMA NotFresh ==
    ASSUME TypeOK, [Next]_vars, NEW a \in Rows, ~Appears(a)
    PROVE  /\ (KeyOf(a))' = KeyOf(a)
           /\ row'[a].status = "absent" <=> row[a].status = "absent"
           /\ Live(a)' => Live(a)
<1>1. row[a].ttl \in Nat /\ row'[a].ttl \in Nat
    BY RowFacts, TypeStep, RowFacts DEF TypeOK
<1> QED BY <1>1, AllRowsMove DEF RowMoves, Keeps, IsDecided, IsSpent, Expires, SameRequest, KeyOf, Live, Granted

LEMMA AppearsFacts ==
    ASSUME TypeOK, [Next]_vars, NEW a \in Rows, Appears(a)
    PROVE  /\ (KeyOf(a))' \in Keys
           /\ \A b \in Rows : b < a => row[b].status # "absent"
           /\ \A b \in Rows \ {a} : ~Appears(b)
           /\ NewestLives => \A b \in Rows : KeyOf(b) = (KeyOf(a))' => ~Live(b)
<1>1. PICK t \in Turns, c \in Calls : Request(t, c, a)
    BY DEF Appears
<1>2. /\ row'[a] = [status |-> "pending", call |-> c, id |-> scope[t], ttl |-> 0, by |-> home[t]]
      /\ \A b \in Rows \ {a} : Keeps(b) \/ Expires(b)
    BY <1>1, RequestRows
<1>3. (KeyOf(a))' = <<c, scope[t]>> /\ scope[t] \in Ids
    BY <1>1, <1>2, Numbers DEF KeyOf, Request, TypeOK, Ids
<1>4. \A b \in Rows \ {a} : ~Appears(b)
  <2> SUFFICES ASSUME NEW b \in Rows \ {a}, Appears(b) PROVE FALSE
      OBVIOUS
  <2>1. row'[b].status = "absent"
      BY <1>2 DEF Appears, Keeps, Expires
  <2>2. PICK u \in Turns, d \in Calls : Request(u, d, b)
      BY DEF Appears
  <2>3. row'[b] = [status |-> "pending", call |-> d, id |-> scope[u], ttl |-> 0, by |-> home[u]]
      BY <2>2, RequestRows
  <2> QED BY <2>1, <2>3
<1>5. NewestLives => \A b \in Rows : KeyOf(b) = (KeyOf(a))' => ~Live(b)
    BY <1>1, <1>3, RequestIsNew DEF Request
<1> QED BY <1>1, <1>3, <1>4, <1>5 DEF Request, Keys

LEMMA ConsentInvStep == TypeOK /\ ConsentInv /\ [Next]_vars => ConsentInv'
<1> SUFFICES ASSUME TypeOK, ConsentInv, [Next]_vars PROVE ConsentInv'
    OBVIOUS
<1> USE DEF ConsentInv
<1>1. RowsPrefix'
  <2> SUFFICES ASSUME NEW a \in Rows, NEW b \in Rows, a < b, row'[b].status # "absent"
               PROVE  row'[a].status # "absent"
      BY DEF RowsPrefix
  <2>1. row[a].status # "absent"
    <3>1. CASE Appears(b)
        BY <3>1, AppearsFacts
    <3>2. CASE ~Appears(b)
        BY <3>2, NotFresh DEF RowsPrefix
    <3> QED BY <3>1, <3>2
  <2> QED BY <2>1, NotFresh DEF Appears
<1>2. RowsScoped'
  <2> SUFFICES ASSUME NEW a \in Rows, row'[a].status # "absent" PROVE (KeyOf(a))' \in Keys
      BY DEF RowsScoped
  <2>1. CASE Appears(a)
      BY <2>1, AppearsFacts
  <2>2. CASE ~Appears(a)
      BY <2>2, NotFresh DEF RowsScoped
  <2> QED BY <2>1, <2>2
<1>3. NewestLives'
  <2> SUFFICES ASSUME NEW a \in Rows, NEW b \in Rows, a < b, row'[b].status # "absent",
                      (KeyOf(a))' = (KeyOf(b))', (Live(a))'
               PROVE  FALSE
      BY DEF NewestLives
  <2>1. CASE Appears(a)
    <3>1. a # b
        BY DEF Rows
    <3>2. ~Appears(b)
        BY <2>1, <3>1, AppearsFacts
    <3>3. row[b].status # "absent"
        BY <3>2, NotFresh
    <3> QED BY <2>1, <3>3 DEF RowsPrefix, Appears
  <2>2. CASE ~Appears(a)
    <3>1. KeyOf(a) = (KeyOf(b))' /\ Live(a)
        BY <2>2, NotFresh
    <3>2. CASE Appears(b)
        BY <3>1, <3>2, AppearsFacts
    <3>3. CASE ~Appears(b)
        BY <3>1, <3>3, NotFresh DEF NewestLives
    <3> QED BY <3>2, <3>3
  <2> QED BY <2>1, <2>2
<1> QED BY <1>1, <1>2, <1>3

LEMMA ConsentInvInit == Init => ConsentInv
BY DEF Init, ConsentInv, RowsPrefix, RowsScoped, NewestLives, Blank

-----------------------------------------------------------------------------
(* Each step of the tables is a step of the consents.                       *)

\* Two rows of one key are never both waiting or usable.
LEMMA OneLive ==
    ASSUME NewestLives, NEW a \in Rows, NEW b \in Rows, Live(a), Live(b), KeyOf(a) = KeyOf(b)
    PROVE  a = b
<1>1. a < b \/ b < a \/ a = b
    BY Numbers DEF Rows
<1>2. row[a].status # "absent" /\ row[b].status # "absent"
    BY DEF Live, Granted
<1> QED BY <1>1, <1>2 DEF NewestLives

LEMMA Lessens ==
    ASSUME \A a \in Rows : /\ (KeyOf(a))' = KeyOf(a)
                           /\ row'[a].status = "pending" => row[a].status = "pending"
                           /\ (Granted(a))' => Granted(a),
           sessionKeys' \subseteq sessionKeys, alwaysCalls' \subseteq alwaysCalls, ran' = ran
    PROVE  Consent!TakeAway
<1>1. askedKeys' \subseteq askedKeys
    BY DEF askedKeys, Undecided
<1>2. onceKeys' \subseteq onceKeys
    BY DEF onceKeys
<1> QED BY <1>1, <1>2 DEF Consent!TakeAway

LEMMA SameStanding ==
    ASSUME UNCHANGED grantVars
    PROVE  sessionKeys' = sessionKeys /\ alwaysCalls' = alwaysCalls
BY DEF grantVars, sessionKeys, alwaysCalls

LEMMA SameRows ==
    ASSUME UNCHANGED row
    PROVE  /\ askedKeys' = askedKeys /\ onceKeys' = onceKeys
           /\ \A a \in Rows : /\ (KeyOf(a))' = KeyOf(a)
                              /\ row'[a].status = "pending" => row[a].status = "pending"
                              /\ (Granted(a))' => Granted(a)
BY DEF askedKeys, onceKeys, KeyOf, Undecided, Granted

\* A row that only keeps or expires asks and allows what it did.
LEMMA ExpireKeeps ==
    ASSUME TypeOK, NEW a \in Rows, NEW S, row'[a] = Expire(S)[a]
    PROVE  /\ (KeyOf(a))' = KeyOf(a)
           /\ row'[a].status = "pending" <=> row[a].status = "pending"
           /\ (Granted(a))' <=> Granted(a)
BY ExpireRow, RowFacts DEF KeyOf, Granted

LEMMA ConsumeRuns ==
    ASSUME TypeOK, ConsentInv, NEW t \in Turns, NEW c \in Calls, NEW a \in Rows, Consume(t, c, a)
    PROVE  \E k \in Keys : Consent!Run(k)
<1> DEFINE k == <<c, scope[t]>>
<1>0. Expire(Newer(a, Scanned(t, c))) \in [Rows -> RowType]
    BY ExpireRow DEF Expire
<1>1. k \in Keys
    BY Numbers DEF Consume, TypeOK, Keys, Ids
<1>2. KeyOf(a) = k /\ Granted(a) /\ row'[a] = [row[a] EXCEPT !.status = "consumed"]
    BY <1>0 DEF Consume, Answers, Scanned, SameCall, KeyOf, Spent
<1>3. (KeyOf(a))' = KeyOf(a) /\ row'[a].status = "consumed"
    BY <1>2, RowFacts DEF KeyOf, RowType
<1>4. \A b \in Rows \ {a} : /\ (KeyOf(b))' = KeyOf(b)
                            /\ row'[b].status = "pending" <=> row[b].status = "pending"
                            /\ (Granted(b))' <=> Granted(b)
  <2>1. \A b \in Rows \ {a} : row'[b] = Expire(Newer(a, Scanned(t, c)))[b]
      BY <1>0 DEF Consume
  <2> QED BY <2>1, ExpireKeeps
<1>5. askedKeys' = askedKeys
  <2>1. \A b \in Rows : (KeyOf(b))' = KeyOf(b) /\ ((Undecided(b))' <=> Undecided(b))
      BY <1>2, <1>3, <1>4 DEF Undecided, Granted
  <2> QED BY <2>1 DEF askedKeys
<1>6. \A b \in Rows : Granted(b) /\ KeyOf(b) = k => b = a
    BY <1>2, OneLive DEF ConsentInv, Live
<1>7. k \in onceKeys
    BY <1>2 DEF onceKeys
<1>8. onceKeys' = onceKeys \ {k}
  <2>1. \A b \in Rows : (Granted(b))' <=> Granted(b) /\ b # a
      BY <1>3, <1>4 DEF Granted
  <2> QED BY <1>2, <1>3, <1>4, <1>6, <2>1 DEF onceKeys
<1>9. ran' = [ran EXCEPT ![k] = ~@]
    BY DEF Consume, Through
<1>10. sessionKeys' = sessionKeys /\ alwaysCalls' = alwaysCalls
    BY SameStanding DEF Consume
<1>11. Consent!Run(k)
    BY <1>5, <1>7, <1>8, <1>9, <1>10 DEF Consent!Run
<1> QED BY <1>1, <1>11

LEMMA GrantRuns ==
    ASSUME TypeOK, NEW t \in Turns, NEW c \in Calls, RunOnGrant(t, c)
    PROVE  \E k \in Keys : Consent!Run(k)
<1> DEFINE k == <<c, scope[t]>>
<1>1. k \in Keys /\ k[1] = c
    BY Numbers DEF RunOnGrant, TypeOK, Keys, Ids
<1>2. c \in alwaysCalls \/ k \in sessionKeys
    BY <1>1 DEF RunOnGrant, Standing, AlwaysAnswers, SessionAnswers, alwaysCalls, sessionKeys
<1>3. askedKeys' = askedKeys /\ onceKeys' = onceKeys /\ sessionKeys' = sessionKeys /\ alwaysCalls' = alwaysCalls
    BY SameStanding, SameRows DEF RunOnGrant
<1>4. ran' = [ran EXCEPT ![k] = ~@]
    BY DEF RunOnGrant, Through
<1>5. Consent!Run(k)
    BY <1>1, <1>2, <1>3, <1>4 DEF Consent!Run
<1> QED BY <1>1, <1>5

LEMMA RequestAsks ==
    ASSUME TypeOK, ConsentInv, NEW t \in Turns, NEW c \in Calls, NEW a \in Rows, Request(t, c, a)
    PROVE  \E k \in Keys : Consent!Ask(k)
<1> DEFINE k == <<c, scope[t]>>
<1>1. k \in Keys
    BY Numbers DEF Request, TypeOK, Keys, Ids
<1>2. \A b \in Rows : KeyOf(b) = k => ~Live(b)
    BY RequestIsNew DEF Request, ConsentInv
<1>3. k \notin askedKeys \cup onceKeys
    BY <1>2 DEF askedKeys, onceKeys, Undecided, Live
<1>4. row'[a] = [status |-> "pending", call |-> c, id |-> scope[t], ttl |-> 0, by |-> home[t]]
    BY RequestRows
<1>5. (KeyOf(a))' = k /\ row'[a].status = "pending" /\ row[a].status = "absent"
    BY <1>4 DEF KeyOf, Request
<1>6. \A b \in Rows \ {a} : /\ (KeyOf(b))' = KeyOf(b)
                            /\ row'[b].status = "pending" <=> row[b].status = "pending"
                            /\ (Granted(b))' <=> Granted(b)
  <2>0. Expire(Scanned(t, c)) \in [Rows -> RowType]
      BY ExpireRow DEF Expire
  <2>1. \A b \in Rows \ {a} : row'[b] = Expire(Scanned(t, c))[b]
      BY <2>0 DEF Request
  <2> QED BY <2>1, ExpireKeeps
<1>7. askedKeys' = askedKeys \cup {k}
    BY <1>5, <1>6 DEF askedKeys, Undecided
<1>8. onceKeys' = onceKeys
    BY <1>5, <1>6 DEF onceKeys, Granted
<1>9. sessionKeys' = sessionKeys /\ alwaysCalls' = alwaysCalls /\ ran' = ran
    BY SameStanding DEF Request
<1>10. Consent!Ask(k)
    BY <1>3, <1>7, <1>8, <1>9 DEF Consent!Ask
<1> QED BY <1>1, <1>10

\* A decision closes the request, and no other request of that key waits.
LEMMA Answered ==
    ASSUME TypeOK, ConsentInv, NEW a \in Rows, Undecided(a),
           row' = [row EXCEPT ![a] = row'[a]], SameRequest(a), row'[a].status # "pending"
    PROVE  /\ KeyOf(a) \in Keys /\ KeyOf(a) \in askedKeys
           /\ askedKeys' = askedKeys \ {KeyOf(a)}
           /\ ~(Granted(a))' => onceKeys' = onceKeys
           /\ (Granted(a))' => onceKeys' = onceKeys \cup {KeyOf(a)}
<1>0. row \in [Rows -> RowType]
    BY DEF TypeOK, RowType
<1>1. \A b \in Rows \ {a} : row'[b] = row[b]
    BY <1>0
<1>2. \A b \in Rows : (KeyOf(b))' = KeyOf(b)
    BY <1>1 DEF KeyOf, SameRequest
<1>3. \A b \in Rows : Undecided(b) /\ KeyOf(b) = KeyOf(a) => b = a
    BY OneLive DEF ConsentInv, Live, Undecided
<1>4. \A b \in Rows : (Undecided(b))' <=> Undecided(b) /\ b # a
    BY <1>1 DEF Undecided
<1>5. KeyOf(a) \in Keys /\ KeyOf(a) \in askedKeys
    BY DEF ConsentInv, RowsScoped, Undecided, askedKeys
<1>6. askedKeys' = askedKeys \ {KeyOf(a)}
    BY <1>2, <1>3, <1>4 DEF askedKeys
<1>7. \A b \in Rows : (Granted(b))' <=> Granted(b) \/ (b = a /\ (Granted(a))')
    BY <1>1 DEF Granted, Undecided
<1>8. ~(Granted(a))' => onceKeys' = onceKeys
    BY <1>2, <1>7 DEF onceKeys
<1>9. (Granted(a))' => onceKeys' = onceKeys \cup {KeyOf(a)}
    BY <1>2, <1>7 DEF onceKeys
<1> QED BY <1>5, <1>6, <1>8, <1>9

LEMMA UsedUpAnswers ==
    ASSUME TypeOK, ConsentInv, NEW a \in Rows, Undecided(a), row' = UsedUp(a)
    PROVE  /\ KeyOf(a) \in Keys /\ KeyOf(a) \in askedKeys
           /\ askedKeys' = askedKeys \ {KeyOf(a)} /\ onceKeys' = onceKeys
<1>0. row \in [Rows -> RowType]
    BY DEF TypeOK, RowType
<1>1. row'[a] = [row[a] EXCEPT !.status = "consumed"] /\ row' = [row EXCEPT ![a] = row'[a]]
    BY <1>0 DEF UsedUp
<1>2. SameRequest(a) /\ row'[a].status = "consumed"
    BY <1>0, <1>1 DEF SameRequest, RowType
<1>3. ~(Granted(a))'
    BY <1>2 DEF Granted
<1> QED BY <1>1, <1>2, <1>3, Answered

LEMMA OnceAnswers ==
    ASSUME TypeOK, ConsentInv, NEW a \in Rows, NEW approve \in BOOLEAN, DecideOnce(a, approve)
    PROVE  \E k \in Keys : Consent!Answer(k)
<1>0. row \in [Rows -> RowType]
    BY DEF TypeOK, RowType
<1>1. sessionKeys' = sessionKeys /\ alwaysCalls' = alwaysCalls /\ ran' = ran
    BY SameStanding DEF DecideOnce
<1>2. \/ row'[a] = [row[a] EXCEPT !.status = "approved", !.ttl = OnceTTL]
      \/ row'[a] = [row[a] EXCEPT !.status = "denied"]
    BY <1>0 DEF DecideOnce
<1>3. row' = [row EXCEPT ![a] = row'[a]]
    BY <1>0 DEF DecideOnce
<1>4. SameRequest(a) /\ row'[a].status # "pending"
    BY <1>0, <1>2 DEF SameRequest, RowType
<1>5. Consent!Answer(KeyOf(a))
    BY <1>1, <1>3, <1>4, Answered DEF DecideOnce, Consent!Answer
<1> QED BY <1>3, <1>4, <1>5, Answered DEF DecideOnce

LEMMA AlwaysAnswersOne ==
    ASSUME TypeOK, ConsentInv, NEW a \in Rows, DecideAlways(a)
    PROVE  \E k \in Keys : Consent!Answer(k)
<1>1. /\ KeyOf(a) \in Keys /\ KeyOf(a) \in askedKeys
      /\ askedKeys' = askedKeys \ {KeyOf(a)} /\ onceKeys' = onceKeys
    BY UsedUpAnswers DEF DecideAlways
<1>2. row[a].call \in Calls /\ KeyOf(a)[1] = row[a].call
    BY <1>1 DEF KeyOf, Keys
<1>3. always' = [always EXCEPT ![row[a].call] = Upsert(always[row[a].call], a, 0)]
    BY DEF DecideAlways
<1>4. always'[row[a].call].status = "live" /\ \A c \in Calls \ {row[a].call} : always'[c] = always[c]
    BY <1>2, <1>3 DEF TypeOK, Upsert
<1>5. alwaysCalls' = alwaysCalls \cup {KeyOf(a)[1]}
    BY <1>2, <1>4 DEF alwaysCalls
<1>6. sessionKeys' = sessionKeys /\ ran' = ran
    BY DEF DecideAlways, sessionKeys
<1> QED BY <1>1, <1>5, <1>6 DEF Consent!Answer

LEMMA SessionAnswersOne ==
    ASSUME TypeOK, ConsentInv, NEW a \in Rows, DecideForSession(a)
    PROVE  \E k \in Keys : Consent!Answer(k)
<1>1. /\ KeyOf(a) \in Keys /\ KeyOf(a) \in askedKeys
      /\ askedKeys' = askedKeys \ {KeyOf(a)} /\ onceKeys' = onceKeys
    BY UsedUpAnswers DEF DecideForSession
<1>2. session' = [session EXCEPT ![KeyOf(a)] = Upsert(session[KeyOf(a)], a, SessionTTL)]
    BY DEF DecideForSession, KeyOf
<1>3. /\ session'[KeyOf(a)].status = "live" /\ session'[KeyOf(a)].ttl = SessionTTL
      /\ \A k \in Keys \ {KeyOf(a)} : session'[k] = session[k]
    BY <1>1, <1>2 DEF TypeOK, Upsert
<1>4. sessionKeys' = sessionKeys \cup {KeyOf(a)}
    BY <1>1, <1>3, Numbers DEF sessionKeys
<1>5. alwaysCalls' = alwaysCalls /\ ran' = ran
    BY DEF DecideForSession, alwaysCalls
<1> QED BY <1>1, <1>4, <1>5 DEF Consent!Answer

LEMMA TickLessens == ASSUME TypeOK, Tick PROVE Consent!TakeAway
<1>1. ASSUME NEW a \in Rows
      PROVE  /\ (KeyOf(a))' = KeyOf(a)
             /\ row'[a].status = "pending" => row[a].status = "pending"
             /\ (Granted(a))' => Granted(a)
  <2>1. row'[a] = [row[a] EXCEPT !.ttl = Lowered(@)]
      BY DEF Tick
  <2> QED BY <2>1, RowFacts DEF KeyOf, Granted, Lowered, RowType
<1>2. sessionKeys' \subseteq sessionKeys
  <2> SUFFICES ASSUME NEW k \in Keys, session'[k].status = "live", session'[k].ttl > 0
               PROVE  session[k].status = "live" /\ session[k].ttl > 0
      BY DEF sessionKeys
  <2>1. session'[k] = [session[k] EXCEPT !.ttl = Lowered(@)]
      BY DEF Tick
  <2>2. session[k] \in SessionType /\ session[k].ttl \in Nat
      BY Numbers DEF TypeOK, SessionType
  <2> QED BY <2>1, <2>2 DEF Lowered, SessionType
<1>3. alwaysCalls' = alwaysCalls /\ ran' = ran
    BY DEF Tick, alwaysCalls
<1> QED BY <1>1, <1>2, <1>3, Lessens

LEMMA DeleteLessens == ASSUME TypeOK, NEW i \in Ids, DeleteChat(i) PROVE Consent!TakeAway
<1>1. ASSUME NEW a \in Rows
      PROVE  /\ (KeyOf(a))' = KeyOf(a)
             /\ row'[a].status = "pending" => row[a].status = "pending"
             /\ (Granted(a))' => Granted(a)
  <2>1. row'[a] = row[a] \/ row'[a] = [row[a] EXCEPT !.status = "denied"]
      BY DEF DeleteChat, DenyPending
  <2> QED BY <2>1, RowFacts DEF KeyOf, Granted, RowType
<1>2. sessionKeys' \subseteq sessionKeys
  <2> SUFFICES ASSUME NEW k \in Keys, session'[k].status = "live", session'[k].ttl > 0
               PROVE  session[k].status = "live" /\ session[k].ttl > 0
      BY DEF sessionKeys
  <2>1. session'[k] = session[k] \/ session'[k] = [session[k] EXCEPT !.status = "revoked"]
      BY DEF DeleteChat, RevokeSessions
  <2>2. session[k] \in SessionType
      BY DEF TypeOK, SessionType
  <2> QED BY <2>1, <2>2 DEF SessionType
<1>3. alwaysCalls' = alwaysCalls /\ ran' = ran
    BY DEF DeleteChat, alwaysCalls
<1> QED BY <1>1, <1>2, <1>3, Lessens

LEMMA RevokeLessens ==
    ASSUME TypeOK, (\E c \in Calls : RevokeAlways(c)) \/ (\E k \in Keys : RevokeSession(k))
    PROVE  Consent!TakeAway
<1>1. UNCHANGED <<row, ran>>
    BY DEF RevokeAlways, RevokeSession
<1>2. alwaysCalls' \subseteq alwaysCalls
    BY DEF RevokeAlways, RevokeSession, alwaysCalls, TypeOK
<1>3. sessionKeys' \subseteq sessionKeys
  <2>1. ASSUME NEW k \in Keys, RevokeSession(k), NEW j \in Keys, session'[j].status = "live"
        PROVE  session'[j] = session[j]
    <3>1. session \in [Keys -> SessionType]
        BY DEF TypeOK, SessionType
    <3>2. session'[k].status = "revoked" /\ \A l \in Keys \ {k} : session'[l] = session[l]
        BY <2>1, <3>1 DEF RevokeSession, SessionType
    <3> QED BY <2>1, <3>2
  <2>2. CASE \E k \in Keys : RevokeSession(k)
      BY <2>1, <2>2 DEF sessionKeys
  <2>3. CASE UNCHANGED session
      BY <2>3 DEF sessionKeys
  <2> QED BY <2>2, <2>3 DEF RevokeAlways
<1> QED BY <1>1, <1>2, <1>3, SameRows, Lessens

LEMMA MeetLessens ==
    ASSUME TypeOK, NEW t \in Turns, NEW c \in Calls, NEW a \in Rows, MeetPending(t, c, a)
    PROVE  Consent!TakeAway
<1>1. \A b \in Rows : row'[b] = Expire(Newer(a, Scanned(t, c)))[b]
    BY DEF MeetPending
<1>2. sessionKeys' = sessionKeys /\ alwaysCalls' = alwaysCalls /\ ran' = ran
    BY SameStanding DEF MeetPending
<1> QED BY <1>1, <1>2, ExpireKeeps, Lessens

LEMMA QuietLessens ==
    ASSUME UNCHANGED <<row, grantVars, ran>>
    PROVE  Consent!TakeAway
BY SameRows, SameStanding, Lessens

LEMMA ConsentStep == TypeOK /\ ConsentInv /\ [Next]_vars => [Consent!ConsentNext]_(Consent!consentVars)
<1> SUFFICES ASSUME TypeOK, ConsentInv, [Next]_vars PROVE Consent!ConsentNext
    OBVIOUS
<1>0. Consent!Keys = Keys
    BY DEF Consent!Keys, Keys
<1>1. CASE \/ \E i \in Ids : NewChat(i)
           \/ \E t \in Turns : EndTurn(t) \/ \E i \in Ids : StartTurn(t, i)
           \/ UNCHANGED vars
    BY <1>1, QuietLessens DEF NewChat, EndTurn, StartTurn, vars, Consent!ConsentNext
<1>2. CASE Tick
    BY <1>2, TickLessens DEF Consent!ConsentNext
<1>3. CASE \E i \in Ids : DeleteChat(i)
    BY <1>3, DeleteLessens DEF Consent!ConsentNext
<1>4. CASE (\E c \in Calls : RevokeAlways(c)) \/ (\E k \in Keys : RevokeSession(k))
    BY <1>4, RevokeLessens DEF Consent!ConsentNext
<1>5. ASSUME NEW t \in Turns, NEW c \in Calls, RunOnGrant(t, c) PROVE Consent!ConsentNext
    BY <1>0, <1>5, GrantRuns DEF Consent!ConsentNext
<1>6. ASSUME NEW t \in Turns, NEW c \in Calls, NEW a \in Rows,
             Consume(t, c, a) \/ MeetPending(t, c, a) \/ Request(t, c, a)
      PROVE  Consent!ConsentNext
    BY <1>0, <1>6, ConsumeRuns, MeetLessens, RequestAsks DEF Consent!ConsentNext
<1>7. ASSUME NEW a \in Rows, DecideAlways(a) \/ DecideForSession(a) \/ \E approve \in BOOLEAN : DecideOnce(a, approve)
      PROVE  Consent!ConsentNext
    BY <1>0, <1>7, AlwaysAnswersOne, SessionAnswersOne, OnceAnswers DEF Consent!ConsentNext
<1> QED BY <1>1, <1>2, <1>3, <1>4, <1>5, <1>6, <1>7 DEF Next

LEMMA ConsentStart == Init => Consent!ConsentInit
BY DEF Init, Consent!ConsentInit, askedKeys, onceKeys, sessionKeys, alwaysCalls, Undecided, Granted,
       Blank, NoGrant, Consent!Keys, Keys

(* For every number of turns, calls, conversations and requests, and every  *)
(* scan limit, the tables implement the standing-consent specification.     *)
THEOREM TablesKeepConsent == Spec => KeepsConsent
<1>1. TypeOK /\ ConsentInv /\ [Next]_vars => [Consent!ConsentNext]_(Consent!consentVars)
    BY ConsentStep
<1> QED BY <1>1, TypeInit, TypeStep, ConsentInvInit, ConsentInvStep, ConsentStart, PTL
        DEF Spec, KeepsConsent, Consent!ConsentSpec
=============================================================================
