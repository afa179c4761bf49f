--------------------------- MODULE ApprovalGrants ---------------------------
(***************************************************************************)
(* Foreground approvals (memory_approvals.py): one-shot decisions, and the *)
(* standing grants ("this chat", "always") for exact private reads, against *)
(* the life of the conversations they are scoped to.  A turn asks in the   *)
(* scope conversation:<id>; ids are SQLite rowids, so the id of a deleted  *)
(* newest conversation is given out again.  Timestamps are countdowns.     *)
(***************************************************************************)
EXTENDS Integers, FiniteSets

CONSTANTS
    Calls,        \* exact action and resource pairs
    Reads,        \* the calls persistent_approval_eligible accepts
    Turns,        \* agent turns that may be in flight
    Direct,       \* turns of the CLI and desktop session: no presence_jobs row
    ChatIds, MaxChats,          \* ids 1..ChatIds; conversations ever created
    MaxRequests,                \* rows of approvals
    OnceTTL, SessionTTL,        \* JARVIS_APPROVAL_TTL_HOURS, in ticks
    ScanLimit,                  \* LIMIT of the approval lookup
    NoCall

ASSUME GrantsAssumption ==
    /\ Reads \subseteq Calls /\ Direct \subseteq Turns /\ NoCall \notin Calls
    /\ ChatIds \in Nat \ {0} /\ MaxChats \in Nat \ {0} /\ MaxRequests \in Nat \ {0}
    /\ OnceTTL \in Nat \ {0} /\ SessionTTL \in Nat \ {0} /\ ScanLimit \in Nat \ {0}

VARIABLES
    chat,     \* which conversation holds an id (0: none)
    made,     \* conversations created so far
    scope,    \* the id a turn asks under (0: the turn is idle)
    home,     \* the conversation the turn belongs to
    row,      \* approvals
    always,   \* persistent_approval_grants, grant_kind 'always'
    session,  \* persistent_approval_grants, grant_kind 'session'
    spentIn,  \* history: the conversation whose turn used the approval up
    ran       \* history: flips each time a call goes through

chatVars == <<chat, made>>
turnVars == <<scope, home>>
grantVars == <<always, session>>
vars == <<chatVars, turnVars, row, grantVars, spentIn, ran>>

Ids == 1..ChatIds
Rows == 1..MaxRequests
Keys == Calls \X Ids
Owners == 0..MaxChats
RowStates == {"absent", "pending", "approved", "denied", "consumed", "expired"}
GrantStates == {"none", "live", "revoked"}

Blank == [status |-> "absent", call |-> NoCall, id |-> 0, ttl |-> 0, by |-> 0]
NoGrant == [status |-> "none", source |-> 0, ttl |-> 0]

TypeOK ==
    /\ chat \in [Ids -> Owners]
    /\ made \in Owners
    /\ scope \in [Turns -> 0..ChatIds]
    /\ home \in [Turns -> Owners]
    /\ row \in [Rows -> [status : RowStates, call : Calls \cup {NoCall}, id : 0..ChatIds,
                         ttl : 0..OnceTTL, by : Owners]]
    /\ always \in [Calls -> [status : GrantStates, source : 0..MaxRequests, ttl : {0}]]
    /\ session \in [Keys -> [status : GrantStates, source : 0..MaxRequests, ttl : 0..SessionTTL]]
    /\ spentIn \in [Rows -> Owners]
    /\ ran \in [Keys -> BOOLEAN]

Init ==
    /\ chat = [i \in Ids |-> 0]
    /\ made = 0
    /\ scope = [t \in Turns |-> 0]
    /\ home = [t \in Turns |-> 0]
    /\ row = [a \in Rows |-> Blank]
    /\ always = [c \in Calls |-> NoGrant]
    /\ session = [k \in Keys |-> NoGrant]
    /\ spentIn = [a \in Rows |-> 0]
    /\ ran = [k \in Keys |-> FALSE]

-----------------------------------------------------------------------------
(* Time, conversations and turns.                                           *)

Lowered(n) == IF n > 0 THEN n - 1 ELSE 0

Tick ==
    /\ row' = [a \in Rows |-> [row[a] EXCEPT !.ttl = Lowered(@)]]
    /\ session' = [k \in Keys |-> [session[k] EXCEPT !.ttl = Lowered(@)]]
    /\ UNCHANGED <<chatVars, turnVars, always, spentIn, ran>>

\* new_conversation: a rowid one above the largest still in the table.
Fresh(i) ==
    /\ \A j \in Ids : j >= i => chat[j] = 0
    /\ i > 1 => chat[i - 1] # 0

NewChat(i) ==
    /\ made < MaxChats
    /\ Fresh(i)
    /\ made' = made + 1
    /\ chat' = [chat EXCEPT ![i] = made + 1]
    /\ UNCHANGED <<turnVars, row, grantVars, spentIn, ran>>

StartTurn(t, i) ==
    /\ scope[t] = 0
    /\ chat[i] # 0
    /\ scope' = [scope EXCEPT ![t] = i]
    /\ home' = [home EXCEPT ![t] = chat[i]]
    /\ UNCHANGED <<chatVars, row, grantVars, spentIn, ran>>

EndTurn(t) ==
    /\ scope[t] # 0
    /\ scope' = [scope EXCEPT ![t] = 0]
    /\ home' = [home EXCEPT ![t] = 0]
    /\ UNCHANGED <<chatVars, row, grantVars, spentIn, ran>>

\* A queued or running presence job blocks the deletion; a direct turn does not.
Busy(i) == \E t \in Turns \ Direct : scope[t] = i
\* Mutants: the deletion leaves the requests, or the session grants, in place.
DenyNone(i) == row
RevokeNone(i) == session

DenyPending(i) ==
    [a \in Rows |-> IF row[a].id = i /\ row[a].status = "pending"
                    THEN [row[a] EXCEPT !.status = "denied"] ELSE row[a]]
RevokeSessions(i) ==
    [k \in Keys |-> IF k[2] = i /\ session[k].status = "live"
                    THEN [session[k] EXCEPT !.status = "revoked"] ELSE session[k]]

DeleteChat(i) ==
    /\ chat[i] # 0
    /\ ~Busy(i)
    /\ row' = DenyPending(i)
    /\ session' = RevokeSessions(i)
    /\ chat' = [chat EXCEPT ![i] = 0]
    /\ UNCHANGED <<made, turnVars, always, spentIn, ran>>

-----------------------------------------------------------------------------
(* authorize_or_request, for the turn t and the exact call c.               *)

\* Mutant: a session grant answers after its time.
SessionAnswersForever(t, c) == c \in Reads /\ session[<<c, scope[t]>>].status = "live"

AlwaysAnswers(c) == c \in Reads /\ always[c].status = "live"
SessionAnswers(t, c) ==
    /\ c \in Reads
    /\ session[<<c, scope[t]>>].status = "live"
    /\ session[<<c, scope[t]>>].ttl > 0
Standing(t, c) == AlwaysAnswers(c) \/ SessionAnswers(t, c)

SameCall(t, c) == {a \in Rows : row[a].call = c /\ row[a].id = scope[t] /\ row[a].status # "absent"}
Scanned(t, c) ==
    {a \in SameCall(t, c) : Cardinality({b \in SameCall(t, c) : b > a}) < ScanLimit}
Granted(a) == row[a].status = "approved" /\ row[a].ttl > 0
Live(a) == row[a].status = "pending" \/ Granted(a)
Answers(a, t, c) == a \in Scanned(t, c) /\ Live(a) /\ \A b \in Scanned(t, c) : b > a => ~Live(b)
NoAnswer(t, c) == \A a \in Scanned(t, c) : ~Live(a)
\* Rows passed over on the way are marked expired when their time is up.
Expire(S) ==
    [a \in Rows |-> IF a \in S /\ row[a].status = "approved" /\ row[a].ttl = 0
                    THEN [row[a] EXCEPT !.status = "expired"] ELSE row[a]]
Newer(a, S) == {b \in S : b > a}

Through(t, c) == ran' = [ran EXCEPT ![<<c, scope[t]>>] = ~@]

RunOnGrant(t, c) ==
    /\ scope[t] # 0
    /\ Standing(t, c)
    /\ Through(t, c)
    /\ UNCHANGED <<chatVars, turnVars, row, grantVars, spentIn>>

Spent(a) == [row[a] EXCEPT !.status = "consumed"]

Consume(t, c, a) ==
    /\ scope[t] # 0 /\ ~Standing(t, c)
    /\ Answers(a, t, c) /\ Granted(a)
    /\ row' = [Expire(Newer(a, Scanned(t, c))) EXCEPT ![a] = Spent(a)]
    /\ spentIn' = [spentIn EXCEPT ![a] = home[t]]
    /\ Through(t, c)
    /\ UNCHANGED <<chatVars, turnVars, grantVars>>

MeetPending(t, c, a) ==
    /\ scope[t] # 0 /\ ~Standing(t, c)
    /\ Answers(a, t, c) /\ row[a].status = "pending"
    /\ row' = Expire(Newer(a, Scanned(t, c)))
    /\ UNCHANGED <<chatVars, turnVars, grantVars, spentIn, ran>>

Request(t, c, a) ==
    /\ scope[t] # 0 /\ ~Standing(t, c)
    /\ NoAnswer(t, c)
    /\ row[a].status = "absent"
    /\ \A b \in Rows : b < a => row[b].status # "absent"
    /\ row' = [Expire(Scanned(t, c)) EXCEPT ![a] =
                  [status |-> "pending", call |-> c, id |-> scope[t], ttl |-> 0, by |-> home[t]]]
    /\ UNCHANGED <<chatVars, turnVars, grantVars, spentIn, ran>>

-----------------------------------------------------------------------------
(* The operator's decisions, from the desktop, the CLI or Presence: every   *)
(* one applies only to a row that is still pending.                         *)

\* Mutant: a late answer overrules an earlier denial.
OpenToAnswer(a) == row[a].status \in {"pending", "denied"}

Undecided(a) == row[a].status = "pending"

DecideOnce(a, approve) ==
    /\ Undecided(a)
    /\ row' = [row EXCEPT ![a] =
                  IF approve THEN [@ EXCEPT !.status = "approved", !.ttl = OnceTTL]
                             ELSE [@ EXCEPT !.status = "denied"]]
    /\ UNCHANGED <<chatVars, turnVars, grantVars, spentIn, ran>>

\* Mutants: the request behind a standing grant stays usable;
\* a grant outlasts its time.
UsedUpApproves(a) == [row EXCEPT ![a] = [@ EXCEPT !.status = "approved", !.ttl = OnceTTL]]
UsedUp(a) == [row EXCEPT ![a].status = "consumed"]
UpsertLonger(grant, a, ttl) == [status |-> "live", source |-> a, ttl |-> ttl + 1]
Upsert(grant, a, ttl) == [status |-> "live", source |-> a, ttl |-> ttl]

DecideAlways(a) ==
    /\ Undecided(a)
    /\ row[a].call \in Reads
    /\ always' = [always EXCEPT ![row[a].call] = Upsert(@, a, 0)]
    /\ row' = UsedUp(a)
    /\ UNCHANGED <<chatVars, turnVars, session, spentIn, ran>>

DecideForSession(a) ==
    /\ Undecided(a)
    /\ row[a].call \in Reads
    /\ session' = [session EXCEPT ![<<row[a].call, row[a].id>>] = Upsert(@, a, SessionTTL)]
    /\ row' = UsedUp(a)
    /\ UNCHANGED <<chatVars, turnVars, always, spentIn, ran>>

RevokeAlways(c) ==
    /\ always[c].status = "live"
    /\ always' = [always EXCEPT ![c].status = "revoked"]
    /\ UNCHANGED <<chatVars, turnVars, row, session, spentIn, ran>>

RevokeSession(k) ==
    /\ session[k].status = "live"
    /\ session' = [session EXCEPT ![k].status = "revoked"]
    /\ UNCHANGED <<chatVars, turnVars, row, always, spentIn, ran>>

Next ==
    \/ Tick
    \/ \E i \in Ids : NewChat(i) \/ DeleteChat(i)
    \/ \E t \in Turns : EndTurn(t) \/ \E i \in Ids : StartTurn(t, i)
    \/ \E t \in Turns, c \in Calls :
          \/ RunOnGrant(t, c)
          \/ \E a \in Rows : Consume(t, c, a) \/ MeetPending(t, c, a) \/ Request(t, c, a)
    \/ \E a \in Rows : DecideAlways(a) \/ DecideForSession(a)
                       \/ \E approve \in BOOLEAN : DecideOnce(a, approve)
    \/ \E c \in Calls : RevokeAlways(c)
    \/ \E k \in Keys : RevokeSession(k)

Spec == Init /\ [][Next]_vars

-----------------------------------------------------------------------------
(* A standing grant that is live stands on the request it was given for:    *)
(* that row asked for the same call, in the same scope for a session        *)
(* grant, and is used up (decide_approval_always and _for_session).         *)
GrantsHaveSource ==
    /\ \A c \in Calls : always[c].status = "live" =>
          LET a == always[c].source
          IN  a # 0 /\ row[a].call = c /\ row[a].status = "consumed" /\ spentIn[a] = 0
    /\ \A k \in Keys : session[k].status = "live" =>
          LET a == session[k].source
          IN  a # 0 /\ row[a].call = k[1] /\ row[a].id = k[2]
              /\ row[a].status = "consumed" /\ spentIn[a] = 0

(* While every turn is a presence job, the requests waiting under an id and *)
(* the session grants live under it belong to the conversation that holds   *)
(* the id now, although ids are given out again (delete_conversation).      *)
ChatOwnsItsGrants ==
    /\ \A a \in Rows : Undecided(a) => row[a].by = chat[row[a].id]
    /\ \A k \in Keys : session[k].status = "live" => row[session[k].source].by = chat[k[2]]

(* A one-shot approval is used up by a turn of the conversation that asked  *)
(* for it (README.md:375, "must match the original execution scope").       *)
SpentWhereGranted == \A a \in Rows : spentIn[a] # 0 => spentIn[a] = row[a].by

(* A decided request is never decided again, and what is denied, consumed   *)
(* or expired never lets a call through afterwards.                         *)
DecidedOnce ==
    [][\A a \in Rows :
          /\ row[a].status \in {"denied", "consumed", "expired"}
                => row'[a].status = row[a].status /\ spentIn'[a] = spentIn[a]
          /\ row[a].status = "approved" => row'[a].status \in {"approved", "consumed", "expired"}
          /\ row'[a].status = "approved" /\ row[a].status # "approved" => Undecided(a)]_vars

(* The tables implement the standing-consent specification: a call goes     *)
(* through only on a consent that is neither used, lapsed nor revoked.      *)
KeyOf(a) == <<row[a].call, row[a].id>>
askedKeys == {KeyOf(a) : a \in {b \in Rows : Undecided(b)}}
onceKeys == {KeyOf(a) : a \in {b \in Rows : Granted(b)}}
sessionKeys == {k \in Keys : session[k].status = "live" /\ session[k].ttl > 0}
alwaysCalls == {c \in Calls : always[c].status = "live"}
Consent == INSTANCE StandingConsent WITH
    Scopes <- Ids, asked <- askedKeys, once <- onceKeys, session <- sessionKeys, always <- alwaysCalls
KeepsConsent == Consent!ConsentSpec
=============================================================================
