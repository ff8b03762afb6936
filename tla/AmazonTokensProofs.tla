------------------------- MODULE AmazonTokensProofs -------------------------
(***************************************************************************)
(* Proofs about the connection of an Amazon account, for any calls, any    *)
(* refresh and access tokens, and any number of faults.                    *)
(***************************************************************************)
EXTENDS AmazonTokens, TLAPS

\* The types without their bounds on versions.
CallOf(P, V, G, T) ==
    [phase : P, seen : V, grant : G, token : T, rejected : T]
RowOf(S, V, G, T, B) ==
    [status : S, grant : G, access : T, near : B, version : V]
Phases == {"idle", "provisioning", "search", "waiting", "locked", "asked", "granted",
           "refused", "misconfigured"}
Statuses == {"DISCONNECTED", "CONNECTED", "TOKEN_EXPIRED", "ERROR"}
GrantsOrNone == 0..MaxGrants
TokensOrNone == 0..MaxTokens
Call == CallOf(Phases, Nat, GrantsOrNone, TokensOrNone)
Row == RowOf(Statuses, Nat, GrantsOrNone, TokensOrNone, BOOLEAN)
Origins == [Tokens -> GrantsOrNone]

Asking == {"asked", "granted", "refused", "misconfigured"}

\* What a call knows while the version it has read is the one of the row: the
\* refresh token it asked with is the stored one.
Knows(k, row, dead, from) ==
    /\ k.seen <= row.version
    /\ k.phase \in Asking => k.grant # 0 /\ (k.seen = row.version => k.grant = row.grant)
    /\ k.phase = "granted" => k.token # 0 /\ from[k.token] = k.grant
    /\ k.phase = "refused" => k.grant \in dead

\* AccessMatchesGrant and AmazonExpiredIsProven, of a row.
RowSound(row, dead, from) ==
    /\ row.access # 0 => row.grant # 0 /\ from[row.access] = row.grant
    /\ row.status = "TOKEN_EXPIRED" => row.grant \in dead

AmazonIInv ==
    /\ amzRow \in Row
    /\ amzCall \in [AmzCalls -> Call]
    /\ revokedGrants \subseteq Grants
    /\ grantOf \in Origins
    /\ RowSound(amzRow, revokedGrants, grantOf)
    /\ \A c \in AmzCalls : Knows(amzCall[c], amzRow, revokedGrants, grantOf)

(* The fields of a row and of a call.                                      *)
LEMMA RowFields ==
    ASSUME NEW S, NEW V, NEW G, NEW T, NEW B, NEW r \in RowOf(S, V, G, T, B)
    PROVE  /\ r.status \in S /\ r.grant \in G /\ r.access \in T /\ r.near \in B
           /\ r.version \in V
  BY DEF RowOf

LEMMA CallFields ==
    ASSUME NEW P, NEW V, NEW G, NEW T, NEW k \in CallOf(P, V, G, T)
    PROVE  /\ k.phase \in P /\ k.seen \in V /\ k.grant \in G /\ k.token \in T
           /\ k.rejected \in T
  BY DEF CallOf

\* The records the steps of a call write.
Phased(k, p) == [k EXCEPT !.phase = p]
Tokened(k, p, t) == [k EXCEPT !.phase = p, !.token = t]
Rejected(k, p, t) == [k EXCEPT !.phase = p, !.rejected = t]
Reading(k, p, v, g) == [k EXCEPT !.phase = p, !.seen = v, !.grant = g]
Provisioning(k, p, g, v) == [k EXCEPT !.phase = p, !.grant = g, !.seen = v]

(* They are records of a call, with these fields.                          *)
LEMMA PhasedCall ==
    ASSUME NEW k \in Call, NEW p \in Phases
    PROVE  LET y == Phased(k, p)
           IN  /\ y \in Call /\ y.phase = p /\ y.seen = k.seen
               /\ y.grant = k.grant /\ y.token = k.token
  <1> DEFINE P == Phases
             V == Nat
             G == GrantsOrNone
             T == TokensOrNone
             y == [k EXCEPT !.phase = p]
  <1>1. k \in CallOf(P, V, G, T) /\ p \in P  BY DEF Call
  <1> HIDE DEF P, V, G, T
  <1>2. /\ y \in CallOf(P, V, G, T) /\ y.phase = p /\ y.seen = k.seen
        /\ y.grant = k.grant /\ y.token = k.token
    BY <1>1 DEF CallOf
  <1> QED BY <1>2 DEF Call, P, V, G, T, Phased

LEMMA TokenedCall ==
    ASSUME NEW k \in Call, NEW p \in Phases, NEW t \in TokensOrNone
    PROVE  LET y == Tokened(k, p, t)
           IN  y \in Call /\ y.phase = p /\ y.seen = k.seen /\ y.grant = k.grant /\ y.token = t
  <1> DEFINE P == Phases
             V == Nat
             G == GrantsOrNone
             T == TokensOrNone
             y == [k EXCEPT !.phase = p, !.token = t]
  <1>1. k \in CallOf(P, V, G, T) /\ p \in P /\ t \in T  BY DEF Call
  <1> HIDE DEF P, V, G, T
  <1>2. /\ y \in CallOf(P, V, G, T) /\ y.phase = p /\ y.seen = k.seen
        /\ y.grant = k.grant /\ y.token = t
    BY <1>1 DEF CallOf
  <1> QED BY <1>2 DEF Call, P, V, G, T, Tokened

LEMMA RejectedCall ==
    ASSUME NEW k \in Call, NEW p \in Phases, NEW t \in TokensOrNone
    PROVE  LET y == Rejected(k, p, t)
           IN  y \in Call /\ y.phase = p /\ y.seen = k.seen
  <1> DEFINE P == Phases
             V == Nat
             G == GrantsOrNone
             T == TokensOrNone
             y == [k EXCEPT !.phase = p, !.rejected = t]
  <1>1. k \in CallOf(P, V, G, T) /\ p \in P /\ t \in T  BY DEF Call
  <1> HIDE DEF P, V, G, T
  <1>2. y \in CallOf(P, V, G, T) /\ y.phase = p /\ y.seen = k.seen
    BY <1>1 DEF CallOf
  <1> QED BY <1>2 DEF Call, P, V, G, T, Rejected

LEMMA ReadingCall ==
    ASSUME NEW k \in Call, NEW p \in Phases, NEW v \in Nat, NEW g \in GrantsOrNone
    PROVE  LET y == Reading(k, p, v, g)
           IN  y \in Call /\ y.phase = p /\ y.seen = v /\ y.grant = g
  <1> DEFINE P == Phases
             V == Nat
             G == GrantsOrNone
             T == TokensOrNone
             y == [k EXCEPT !.phase = p, !.seen = v, !.grant = g]
  <1>1. k \in CallOf(P, V, G, T) /\ p \in P /\ v \in V /\ g \in G  BY DEF Call
  <1> HIDE DEF P, V, G, T
  <1>2. y \in CallOf(P, V, G, T) /\ y.phase = p /\ y.seen = v /\ y.grant = g
    BY <1>1 DEF CallOf
  <1> QED BY <1>2 DEF Call, P, V, G, T, Reading

LEMMA ProvisioningCall ==
    ASSUME NEW k \in Call, NEW p \in Phases, NEW v \in Nat, NEW g \in GrantsOrNone
    PROVE  LET y == Provisioning(k, p, g, v)
           IN  y \in Call /\ y.phase = p /\ y.seen = v /\ y.grant = g
  <1> DEFINE P == Phases
             V == Nat
             G == GrantsOrNone
             T == TokensOrNone
             y == [k EXCEPT !.phase = p, !.grant = g, !.seen = v]
  <1>1. k \in CallOf(P, V, G, T) /\ p \in P /\ v \in V /\ g \in G  BY DEF Call
  <1> HIDE DEF P, V, G, T
  <1>2. y \in CallOf(P, V, G, T) /\ y.phase = p /\ y.seen = v /\ y.grant = g
    BY <1>1 DEF CallOf
  <1> QED BY <1>2 DEF Call, P, V, G, T, Provisioning

LEMMA NoWorkType == NoWork \in Call /\ NoWork.phase = "idle" /\ NoWork.seen = 0
  <1>1. 0 \in GrantsOrNone /\ 0 \in TokensOrNone
    BY AmazonAssumption DEF GrantsOrNone, TokensOrNone
  <1>2. "idle" \in Phases  BY DEF Phases
  <1>3. NoWork \in [phase : Phases, seen : Nat, grant : GrantsOrNone, token : TokensOrNone,
                    rejected : TokensOrNone]
    BY <1>1, <1>2 DEF NoWork
  <1> QED BY <1>3 DEF Call, CallOf, NoWork

(* A step of one call keeps the invariant when its row and its record are  *)
(* sound and Amazon's side only grows.                                     *)
LEMMA OneCallMoves ==
    ASSUME AmazonIInv, NEW c \in AmzCalls, NEW k \in Call,
           amzCall' = [amzCall EXCEPT ![c] = k],
           amzRow' \in Row, amzRow'.version >= amzRow.version,
           amzRow'.version = amzRow.version => amzRow'.grant = amzRow.grant,
           revokedGrants' = revokedGrants, grantOf' \in Origins,
           \A t \in Tokens : grantOf[t] # 0 => grantOf'[t] = grantOf[t],
           RowSound(amzRow', revokedGrants', grantOf'),
           Knows(k, amzRow', revokedGrants', grantOf')
    PROVE  AmazonIInv'
  <1>1. amzCall' \in [AmzCalls -> Call]  BY DEF AmazonIInv
  <1>2. \A d \in AmzCalls : Knows(amzCall'[d], amzRow', revokedGrants', grantOf')
    <2> TAKE d \in AmzCalls
    <2>1. CASE d = c
      <3>1. amzCall'[d] = k  BY <2>1 DEF AmazonIInv
      <3> QED BY <3>1
    <2>2. CASE d # c
      <3>1. amzCall'[d] = amzCall[d] /\ amzCall[d] \in Call  BY <2>2 DEF AmazonIInv
      <3>2. Knows(amzCall[d], amzRow, revokedGrants, grantOf)  BY DEF AmazonIInv
      <3>3. /\ amzCall[d].seen \in Nat /\ amzCall[d].token \in TokensOrNone
            /\ amzRow.version \in Nat /\ amzRow'.version \in Nat
        BY <3>1, RowFields, CallFields DEF Call, Row, AmazonIInv
      <3>4. amzCall[d].token # 0 => amzCall[d].token \in Tokens
        BY <3>3, AmazonAssumption DEF TokensOrNone, Tokens
      <3> QED BY <3>1, <3>2, <3>3, <3>4 DEF Knows, Asking
    <2> QED BY <2>1, <2>2
  <1> QED BY <1>1, <1>2 DEF AmazonIInv

(* The same when the step leaves the row and Amazon's side alone.          *)
LEMMA CallOnlyMoves ==
    ASSUME AmazonIInv, NEW c \in AmzCalls, NEW k \in Call,
           amzCall' = [amzCall EXCEPT ![c] = k],
           UNCHANGED <<amzRow, revokedGrants, grantOf>>,
           Knows(k, amzRow, revokedGrants, grantOf)
    PROVE  AmazonIInv'
  <1>1. amzRow \in Row /\ amzRow.version \in Nat /\ amzRow' = amzRow
    BY RowFields DEF AmazonIInv, Row
  <1>2. amzRow'.version >= amzRow.version  BY <1>1
  <1> QED BY <1>1, <1>2, OneCallMoves DEF AmazonIInv

(* A call that does nothing knows nothing.                                 *)
LEMMA RestKnows ==
    ASSUME AmazonIInv, NEW k \in Call, k.seen <= amzRow.version, k.phase \notin Asking
    PROVE  Knows(k, amzRow, revokedGrants, grantOf)
  BY DEF Knows, Asking

LEMMA FinishKeeps ==
    ASSUME AmazonIInv, NEW c \in AmzCalls, Finish(c),
           UNCHANGED <<amzRow, revokedGrants, grantOf>>
    PROVE  AmazonIInv'
  <1>1. amzCall' = [amzCall EXCEPT ![c] = NoWork]  BY DEF Finish, Step
  <1>2. amzRow.version \in Nat  BY RowFields DEF AmazonIInv, Row
  <1>3. NoWork \in Call /\ NoWork.seen <= amzRow.version /\ NoWork.phase \notin Asking
    BY <1>2, NoWorkType DEF Asking
  <1> QED BY <1>1, <1>3, RestKnows, CallOnlyMoves

(* A search is made with a token that needs nothing of the row.            *)
LEMMA SearchKeeps ==
    ASSUME AmazonIInv, NEW c \in AmzCalls, NEW t \in TokensOrNone, SearchWith(c, t),
           UNCHANGED <<amzRow, revokedGrants, grantOf>>
    PROVE  AmazonIInv'
  <1> DEFINE k == Tokened(amzCall[c], "search", t)
  <1>1. amzCall' = [amzCall EXCEPT ![c] = k]  BY DEF SearchWith, Step, Tokened
  <1>2. amzCall[c] \in Call /\ "search" \in Phases /\ "search" \notin Asking
    BY DEF AmazonIInv, Phases, Asking
  <1>3. amzCall[c].seen <= amzRow.version  BY DEF AmazonIInv, Knows
  <1>4. k \in Call /\ k.phase = "search" /\ k.seen = amzCall[c].seen  BY <1>2, TokenedCall
  <1> HIDE DEF k
  <1> QED BY <1>1, <1>2, <1>3, <1>4, RestKnows, CallOnlyMoves

(* The records the steps write to the row.                                 *)
Statused(r, status) == [r EXCEPT !.status = status]
Neared(r) == [r EXCEPT !.near = TRUE]

LEMMA StatusedRow ==
    ASSUME NEW r \in Row, NEW status \in Statuses
    PROVE  LET y == Statused(r, status)
           IN  /\ y \in Row /\ y.status = status /\ y.grant = r.grant
               /\ y.access = r.access /\ y.version = r.version
  <1> DEFINE S == Statuses
             V == Nat
             G == GrantsOrNone
             T == TokensOrNone
             B == BOOLEAN
             y == [r EXCEPT !.status = status]
  <1>1. r \in RowOf(S, V, G, T, B) /\ status \in S  BY DEF Row
  <1> HIDE DEF S, V, G, T, B
  <1>2. /\ y \in RowOf(S, V, G, T, B) /\ y.status = status /\ y.grant = r.grant
        /\ y.access = r.access /\ y.version = r.version
    BY <1>1 DEF RowOf
  <1> QED BY <1>2 DEF Row, S, V, G, T, B, Statused

LEMMA NearedRow ==
    ASSUME NEW r \in Row
    PROVE  LET y == Neared(r)
           IN  /\ y \in Row /\ y.status = r.status /\ y.grant = r.grant
               /\ y.access = r.access /\ y.version = r.version
  <1> DEFINE S == Statuses
             V == Nat
             G == GrantsOrNone
             T == TokensOrNone
             B == BOOLEAN
             yes == TRUE
             y == [r EXCEPT !.near = yes]
  <1>1. r \in RowOf(S, V, G, T, B) /\ yes \in B  BY DEF Row
  <1>2. Neared(r) = y  BY DEF Neared
  <1> HIDE DEF S, V, G, T, B, yes
  <1>3. /\ y \in RowOf(S, V, G, T, B) /\ y.status = r.status /\ y.grant = r.grant
        /\ y.access = r.access /\ y.version = r.version
    BY <1>1 DEF RowOf
  <1> HIDE DEF y
  <1> QED BY <1>2, <1>3 DEF Row, S, V, G, T, B

LEMMA WrittenRows ==
    ASSUME AmazonIInv, NEW g \in GrantsOrNone, NEW t \in TokensOrNone
    PROVE  /\ ProvisionedRow(g) \in Row /\ ProvisionedRow(g).status = "CONNECTED"
           /\ ProvisionedRow(g).access = 0
           /\ ProvisionedRow(g).version = amzRow.version + 1
           /\ RenewedRow(t, g) \in Row /\ RenewedRow(t, g).status = "CONNECTED"
           /\ RenewedRow(t, g).access = t /\ RenewedRow(t, g).grant = g
           /\ RenewedRow(t, g).version = amzRow.version + 1
  <1>1. amzRow.version + 1 \in Nat  BY RowFields DEF AmazonIInv, Row
  <1>2. 0 \in TokensOrNone /\ "CONNECTED" \in Statuses
    BY AmazonAssumption DEF TokensOrNone, Statuses
  <1>3. ProvisionedRow(g) \in [status : Statuses, grant : GrantsOrNone, access : TokensOrNone,
                               near : BOOLEAN, version : Nat]
    BY <1>1, <1>2 DEF ProvisionedRow
  <1>4. RenewedRow(t, g) \in [status : Statuses, grant : GrantsOrNone, access : TokensOrNone,
                              near : BOOLEAN, version : Nat]
    BY <1>1, <1>2 DEF RenewedRow
  <1> QED BY <1>3, <1>4 DEF Row, RowOf, ProvisionedRow, RenewedRow

(* What the invariant says of a call and of the row.                       *)
LEMMA Known ==
    ASSUME AmazonIInv, NEW c \in AmzCalls
    PROVE  /\ amzCall[c] \in Call /\ Knows(amzCall[c], amzRow, revokedGrants, grantOf)
           /\ amzCall[c].seen \in Nat /\ amzCall[c].grant \in GrantsOrNone
           /\ amzCall[c].token \in TokensOrNone /\ amzCall[c].seen <= amzRow.version
           /\ amzRow \in Row /\ amzRow.version \in Nat /\ amzRow.grant \in GrantsOrNone
           /\ amzRow.access \in TokensOrNone
           /\ RowSound(amzRow, revokedGrants, grantOf)
  BY RowFields, CallFields DEF AmazonIInv, Call, Row, Knows

(* A call that ends may write the row: a new version, or the same refresh  *)
(* token under another status.                                             *)
LEMMA FinishWithRow ==
    ASSUME AmazonIInv, NEW c \in AmzCalls, Finish(c), amzRow' \in Row,
           amzRow'.version >= amzRow.version,
           amzRow'.version = amzRow.version => amzRow'.grant = amzRow.grant,
           RowSound(amzRow', revokedGrants, grantOf),
           UNCHANGED <<revokedGrants, grantOf>>
    PROVE  AmazonIInv'
  <1>1. amzCall' = [amzCall EXCEPT ![c] = NoWork]  BY DEF Finish, Step
  <1>2. amzRow'.version \in Nat  BY RowFields DEF Row
  <1>3. NoWork \in Call /\ Knows(NoWork, amzRow', revokedGrants', grantOf')
    BY <1>2, NoWorkType DEF Knows, Asking
  <1> QED BY <1>1, <1>3, OneCallMoves DEF AmazonIInv

LEMMA ProvisioningKeeps ==
    ASSUME AmazonIInv, NEW c \in AmzCalls, BeginProvision(c) \/ ProvisionCredentials(c)
    PROVE  AmazonIInv'
  <1>1. CASE BeginProvision(c)
    <2>1. PICK g \in Grants : amzCall' = [amzCall EXCEPT ![c] =
             Provisioning(NoWork, "provisioning", g, amzRow.version)]
      BY <1>1 DEF BeginProvision, Step, Provisioning
    <2> DEFINE k == Provisioning(NoWork, "provisioning", g, amzRow.version)
    <2>2. g \in GrantsOrNone /\ "provisioning" \in Phases /\ amzRow.version \in Nat
      BY Known DEF Grants, GrantsOrNone, Phases
    <2>3. k \in Call /\ k.phase = "provisioning" /\ k.seen = amzRow.version
      BY <2>2, NoWorkType, ProvisioningCall
    <2> HIDE DEF k
    <2>4. k.seen <= amzRow.version /\ k.phase \notin Asking  BY <2>2, <2>3 DEF Asking
    <2>5. UNCHANGED <<amzRow, revokedGrants, grantOf>>
      BY <1>1 DEF BeginProvision, providerVars
    <2> QED BY <2>1, <2>3, <2>4, <2>5, RestKnows, CallOnlyMoves DEF k
  <1>2. CASE ProvisionCredentials(c)
    <2>1. Finish(c) /\ UNCHANGED <<revokedGrants, grantOf>>
      BY <1>2 DEF ProvisionCredentials, providerVars
    <2>2. CASE amzRow' = amzRow  BY <2>1, <2>2, FinishKeeps
    <2>3. CASE amzRow' = ProvisionedRow(amzCall[c].grant)
      <3>1. /\ amzRow' \in Row /\ amzRow'.status = "CONNECTED" /\ amzRow'.access = 0
            /\ amzRow'.version = amzRow.version + 1 /\ amzRow.version \in Nat
        BY <2>3, Known, WrittenRows
      <3>2. RowSound(amzRow', revokedGrants, grantOf)  BY <3>1 DEF RowSound
      <3> QED BY <2>1, <3>1, <3>2, FinishWithRow
    <2> QED BY <1>2, <2>2, <2>3 DEF ProvisionCredentials
  <1> QED BY <1>1, <1>2

(* A call that takes the next phase outside of a question to Amazon.       *)
LEMMA PhaseKeeps ==
    ASSUME AmazonIInv, NEW c \in AmzCalls, NEW p \in Phases \ Asking,
           amzCall' = [amzCall EXCEPT ![c] = Phased(amzCall[c], p)],
           UNCHANGED <<amzRow, revokedGrants, grantOf>>
    PROVE  AmazonIInv'
  <1> DEFINE k == Phased(amzCall[c], p)
  <1>1. k \in Call /\ k.phase = p /\ k.seen = amzCall[c].seen  BY Known, PhasedCall
  <1> HIDE DEF k
  <1>2. Knows(k, amzRow, revokedGrants, grantOf)  BY <1>1, Known, RestKnows
  <1> QED BY <1>1, <1>2, CallOnlyMoves DEF k

LEMMA LockingKeeps ==
    ASSUME AmazonIInv, NEW c \in AmzCalls,
           BeginVerify(c) \/ AcquireLock(c) \/ GiveUpLock(c) \/ Reread(c)
    PROVE  AmazonIInv'
  <1>0. /\ UNCHANGED <<amzRow, revokedGrants, grantOf>>
        /\ "waiting" \in Phases \ Asking /\ "locked" \in Phases \ Asking
    BY DEF BeginVerify, AcquireLock, GiveUpLock, Reread, providerVars, Phases, Asking
  <1>1. CASE BeginVerify(c)
    <2>1. CASE amzRow.near
      <3>1. amzCall' = [amzCall EXCEPT ![c] = Phased(amzCall[c], "waiting")]
        BY <1>1, <2>1 DEF BeginVerify, Step, Phased
      <3> QED BY <1>0, <3>1, PhaseKeeps
    <2>2. CASE ~amzRow.near
      <3>1. SearchWith(c, amzRow.access)  BY <1>1, <2>2 DEF BeginVerify
      <3> QED BY <1>0, <3>1, Known, SearchKeeps
    <2> QED BY <2>1, <2>2
  <1>2. CASE AcquireLock(c)
    <2>1. amzCall' = [amzCall EXCEPT ![c] = Phased(amzCall[c], "locked")]
      BY <1>2 DEF AcquireLock, Step, Phased
    <2> QED BY <1>0, <2>1, PhaseKeeps
  <1>3. CASE GiveUpLock(c)  BY <1>0, <1>3, FinishKeeps DEF GiveUpLock
  <1>4. CASE Reread(c)
    <2>1. CASE Finish(c)  BY <1>0, <2>1, FinishKeeps
    <2>2. CASE SearchWith(c, amzRow.access)  BY <1>0, <2>2, Known, SearchKeeps
    <2>3. CASE /\ AmzEligible
               /\ Step(c, [amzCall[c] EXCEPT !.phase = "asked", !.seen = amzRow.version,
                                             !.grant = amzRow.grant])
      <3> DEFINE k == Reading(amzCall[c], "asked", amzRow.version, amzRow.grant)
      <3>1. amzCall' = [amzCall EXCEPT ![c] = k]  BY <2>3 DEF Step, Reading
      <3>2. "asked" \in Phases  BY DEF Phases
      <3>3. k \in Call /\ k.phase = "asked" /\ k.seen = amzRow.version /\ k.grant = amzRow.grant
        BY <3>2, Known, ReadingCall
      <3> HIDE DEF k
      <3>4. amzRow.grant # 0 /\ amzRow.version \in Nat  BY <2>3, Known DEF AmzEligible
      <3>5. Knows(k, amzRow, revokedGrants, grantOf)  BY <3>3, <3>4 DEF Knows
      <3> QED BY <1>0, <3>1, <3>3, <3>5, CallOnlyMoves
    <2> QED BY <1>4, <2>1, <2>2, <2>3 DEF Reread
  <1> QED BY <1>1, <1>2, <1>3, <1>4

(* Amazon answers invalid_grant only to a refresh token it does not honour.*)
LEMMA HonouredIsNotRefused ==
    \A outcome \in HonouredOutcomes : outcome # "invalid_grant"
  <1> SUFFICES ASSUME NEW a \in LwaAnswers(LwaErrors \cup {200}, {"invalid_client", "other"})
               PROVE  LwaOutcome(a) # "invalid_grant"
    BY DEF HonouredOutcomes
  <1>1. a.error # "invalid_grant"  BY DEF LwaAnswers
  <1> QED BY <1>1 DEF LwaOutcome

(* A new access token comes from the refresh token the call asked with.    *)
LEMMA MintKeeps ==
    ASSUME AmazonIInv, NEW c \in AmzCalls, amzCall[c].phase = "asked", MintToken(c),
           UNCHANGED <<amzRow, revokedGrants>>
    PROVE  AmazonIInv'
  <1>1. PICK t \in Tokens :
           /\ t \notin Issued
           /\ grantOf' = [grantOf EXCEPT ![t] = amzCall[c].grant]
           /\ amzCall' = [amzCall EXCEPT ![c] = Tokened(amzCall[c], "granted", t)]
    BY DEF MintToken, Step, Tokened
  <1> DEFINE k == Tokened(amzCall[c], "granted", t)
  <1>2. t \in TokensOrNone /\ t # 0 /\ "granted" \in Phases
    BY AmazonAssumption DEF Tokens, TokensOrNone, Phases
  <1>3. /\ k \in Call /\ k.phase = "granted" /\ k.seen = amzCall[c].seen
        /\ k.grant = amzCall[c].grant /\ k.token = t
    BY <1>2, Known, TokenedCall
  <1> HIDE DEF k
  <1>4. grantOf[t] = 0  BY <1>1 DEF Issued
  <1>5. /\ grantOf' \in Origins /\ grantOf'[t] = amzCall[c].grant
        /\ \A u \in Tokens : grantOf[u] # 0 => grantOf'[u] = grantOf[u]
    BY <1>1, <1>4, Known DEF AmazonIInv, Origins
  <1>6. RowSound(amzRow, revokedGrants, grantOf')
    <2>1. amzRow.access # 0 => amzRow.access \in Tokens
      BY Known, AmazonAssumption DEF TokensOrNone, Tokens
    <2> QED BY <1>5, <2>1, Known DEF RowSound
  <1>7. Knows(k, amzRow, revokedGrants, grantOf')
    BY <1>2, <1>3, <1>5, Known DEF Knows, Asking
  <1>8. amzRow' \in Row /\ amzRow'.version >= amzRow.version  BY Known
  <1> QED BY <1>1, <1>3, <1>5, <1>6, <1>7, <1>8, OneCallMoves DEF k

(* An answer that changes nothing at Amazon is kept with what it proves.   *)
LEMMA AnswerKeeps ==
    ASSUME AmazonIInv, NEW c \in AmzCalls, amzCall[c].phase = "asked",
           NEW p \in {"refused", "misconfigured"},
           p = "refused" => amzCall[c].grant \in revokedGrants,
           amzCall' = [amzCall EXCEPT ![c] = Phased(amzCall[c], p)],
           UNCHANGED <<amzRow, revokedGrants, grantOf>>
    PROVE  AmazonIInv'
  <1> DEFINE k == Phased(amzCall[c], p)
  <1>1. p \in Phases  BY DEF Phases
  <1>2. /\ k \in Call /\ k.phase = p /\ k.seen = amzCall[c].seen
        /\ k.grant = amzCall[c].grant
    BY <1>1, Known, PhasedCall
  <1> HIDE DEF k
  <1>3. Knows(k, amzRow, revokedGrants, grantOf)
    BY <1>2, Known DEF Knows, Asking
  <1> QED BY <1>2, <1>3, CallOnlyMoves DEF k

LEMMA AskKeeps ==
    ASSUME AmazonIInv, NEW c \in AmzCalls, AskLwa(c)
    PROVE  AmazonIInv'
  <1>1. UNCHANGED <<amzRow, revokedGrants>> /\ amzCall[c].phase = "asked"
    BY DEF AskLwa
  <1>2. PICK outcome \in IF amzCall[c].grant \in revokedGrants
                         THEN RevokedOutcomes ELSE HonouredOutcomes :
           CASE outcome = "success" -> MintToken(c) /\ UNCHANGED amzLock
             [] outcome = "invalid_grant" ->
                    /\ Step(c, [amzCall[c] EXCEPT !.phase = "refused"])
                    /\ UNCHANGED <<amzLock, grantOf, mintedAt>>
             [] outcome = "client_configuration_error" ->
                    /\ Step(c, [amzCall[c] EXCEPT !.phase = "misconfigured"])
                    /\ UNCHANGED <<amzLock, grantOf, mintedAt>>
             [] OTHER ->
                    /\ Finish(c)
                    /\ ReleaseLock(c)
                    /\ UNCHANGED <<grantOf, mintedAt>>
    BY DEF AskLwa
  <1>3. CASE outcome = "success"  BY <1>1, <1>2, <1>3, MintKeeps
  <1>4. CASE outcome = "invalid_grant"
    <2>1. amzCall[c].grant \in revokedGrants  BY <1>4, HonouredIsNotRefused
    <2>2. /\ amzCall' = [amzCall EXCEPT ![c] = Phased(amzCall[c], "refused")]
          /\ grantOf' = grantOf
      BY <1>2, <1>4 DEF Step, Phased
    <2> QED BY <1>1, <2>1, <2>2, AnswerKeeps
  <1>5. CASE outcome = "client_configuration_error"
    <2>1. /\ amzCall' = [amzCall EXCEPT ![c] = Phased(amzCall[c], "misconfigured")]
          /\ grantOf' = grantOf
      BY <1>2, <1>5 DEF Step, Phased
    <2> QED BY <1>1, <2>1, AnswerKeeps
  <1>6. CASE outcome \notin {"success", "invalid_grant", "client_configuration_error"}
    <2>1. Finish(c) /\ grantOf' = grantOf  BY <1>2, <1>6
    <2> QED BY <1>1, <2>1, FinishKeeps
  <1> QED BY <1>3, <1>4, <1>5, <1>6

(* A renewal is written on the version it was based on: its refresh token  *)
(* is still the stored one.                                                *)
LEMMA StoreTokenKeeps ==
    ASSUME AmazonIInv, NEW c \in AmzCalls, StoreToken(c)
    PROVE  AmazonIInv'
  <1>1. amzCall[c].phase = "granted" /\ UNCHANGED <<revokedGrants, grantOf>>
    BY DEF StoreToken, providerVars
  <1>2. CASE ~SameVersion(c)
    <2>1. Finish(c) /\ amzRow' = amzRow  BY <1>2 DEF StoreToken, IfCurrent
    <2> QED BY <1>1, <2>1, FinishKeeps
  <1>3. CASE SameVersion(c)
    <2> DEFINE t == amzCall[c].token
               g == amzCall[c].grant
               k == Tokened(amzCall[c], "search", t)
    <2>1. /\ amzRow' = RenewedRow(t, g)
          /\ amzCall' = [amzCall EXCEPT ![c] = k]
      BY <1>3 DEF StoreToken, IfCurrent, SearchWith, Step, Tokened
    <2>2. /\ amzRow' \in Row /\ amzRow'.status = "CONNECTED" /\ amzRow'.access = t
          /\ amzRow'.grant = g /\ amzRow'.version = amzRow.version + 1
          /\ amzRow.version \in Nat
      BY <2>1, Known, WrittenRows
    <2>3. t # 0 /\ g # 0 /\ grantOf[t] = g  BY <1>1, Known DEF Knows, Asking
    <2>4. RowSound(amzRow', revokedGrants, grantOf)  BY <2>2, <2>3 DEF RowSound
    <2>5. "search" \in Phases /\ "search" \notin Asking  BY DEF Phases, Asking
    <2>6. k \in Call /\ k.phase = "search" /\ k.seen = amzCall[c].seen
      BY <2>5, Known, TokenedCall
    <2>7. amzCall[c].seen <= amzRow.version /\ amzCall[c].seen \in Nat  BY Known
    <2> HIDE DEF k
    <2>8. Knows(k, amzRow', revokedGrants, grantOf)
      BY <2>2, <2>6, <2>7 DEF Knows, Asking
    <2>9. amzRow'.version >= amzRow.version /\ amzRow'.version # amzRow.version  BY <2>2
    <2>10. grantOf \in Origins /\ grantOf' = grantOf /\ revokedGrants' = revokedGrants
      BY <1>1 DEF AmazonIInv
    <2>11. /\ RowSound(amzRow', revokedGrants', grantOf')
           /\ Knows(k, amzRow', revokedGrants', grantOf')
      BY <2>4, <2>8, <2>10
    <2>12. amzRow' \in Row  BY <2>2
    <2>13. amzCall' = [amzCall EXCEPT ![c] = k]  BY <2>1 DEF k
    <2> QED BY <2>6, <2>9, <2>10, <2>11, <2>12, <2>13, OneCallMoves
  <1> QED BY <1>2, <1>3

(* A status is written on the version it was found out for.                *)
LEMMA StatusKeeps ==
    ASSUME AmazonIInv, NEW c \in AmzCalls, Finish(c), NEW status \in Statuses,
           amzRow' = Statused(amzRow, status),
           status = "TOKEN_EXPIRED" => amzRow.grant \in revokedGrants,
           UNCHANGED <<revokedGrants, grantOf>>
    PROVE  AmazonIInv'
  <1>1. /\ amzRow' \in Row /\ amzRow'.status = status /\ amzRow'.grant = amzRow.grant
        /\ amzRow'.access = amzRow.access /\ amzRow'.version = amzRow.version
        /\ amzRow.version \in Nat
    BY Known, StatusedRow
  <1>2. RowSound(amzRow', revokedGrants, grantOf)  BY <1>1, Known DEF RowSound
  <1> QED BY <1>1, <1>2, FinishWithRow

LEMMA StoreRefusalKeeps ==
    ASSUME AmazonIInv, NEW c \in AmzCalls, StoreRefusal(c)
    PROVE  AmazonIInv'
  <1>1. /\ Finish(c) /\ UNCHANGED <<revokedGrants, grantOf>>
        /\ amzCall[c].phase \in {"refused", "misconfigured"}
    BY DEF StoreRefusal, providerVars
  <1>2. CASE ~SameVersion(c)
    <2>1. amzRow' = amzRow  BY <1>2 DEF StoreRefusal, IfCurrent
    <2> QED BY <1>1, <2>1, FinishKeeps
  <1>3. CASE SameVersion(c)
    <2> DEFINE status == IF amzCall[c].phase = "refused" THEN "TOKEN_EXPIRED" ELSE "ERROR"
    <2>1. amzRow' = Statused(amzRow, status)
      BY <1>3 DEF StoreRefusal, IfCurrent, Statused
    <2>2. amzCall[c].phase = "refused" => amzRow.grant \in revokedGrants
      BY <1>1, <1>3, Known DEF SameVersion, Knows, Asking
    <2>3. status \in Statuses /\ (status = "TOKEN_EXPIRED" => amzRow.grant \in revokedGrants)
      BY <2>2 DEF Statuses
    <2> HIDE DEF status
    <2> QED BY <1>1, <2>1, <2>3, StatusKeeps
  <1> QED BY <1>2, <1>3

LEMMA SearchOrdersKeeps ==
    ASSUME AmazonIInv, NEW c \in AmzCalls, SearchOrders(c)
    PROVE  AmazonIInv'
  <1>1. UNCHANGED <<amzRow, revokedGrants, grantOf>>  BY DEF SearchOrders, providerVars
  <1> DEFINE k == Rejected(NoWork, "waiting", amzCall[c].token)
  <1>2. Finish(c) \/ amzCall' = [amzCall EXCEPT ![c] = k]
    BY DEF SearchOrders, Step, Rejected
  <1>3. CASE Finish(c)  BY <1>1, <1>3, FinishKeeps
  <1>4. CASE amzCall' = [amzCall EXCEPT ![c] = k]
    <2>1. "waiting" \in Phases /\ "waiting" \notin Asking  BY DEF Phases, Asking
    <2>2. k \in Call /\ k.phase = "waiting" /\ k.seen = 0
      BY <2>1, Known, NoWorkType, RejectedCall
    <2> HIDE DEF k
    <2>3. k.seen <= amzRow.version  BY <2>2, Known
    <2> QED BY <1>1, <1>4, <2>1, <2>2, <2>3, RestKnows, CallOnlyMoves
  <1> QED BY <1>2, <1>3, <1>4

(* The world around: tokens come near their end, die and are revoked, and  *)
(* calls and locks are lost.                                               *)
LEMMA WorldKeeps ==
    ASSUME AmazonIInv,
           \/ TokenNearsEnd \/ LockSessionLost
           \/ \E t \in Tokens : TokenDies(t)
           \/ \E g \in Grants : AmazonRevokes(g)
           \/ \E c \in AmzCalls : DecryptionFails(c) \/ CallAborts(c)
           \/ UNCHANGED amzVars
    PROVE  AmazonIInv'
  <1>1. CASE TokenNearsEnd
    <2>1. amzRow' = Neared(amzRow) /\ UNCHANGED <<amzCall, revokedGrants, grantOf>>
      BY <1>1 DEF TokenNearsEnd, Neared, providerVars
    <2>2. /\ amzRow' \in Row /\ amzRow'.status = amzRow.status /\ amzRow'.grant = amzRow.grant
          /\ amzRow'.access = amzRow.access /\ amzRow'.version = amzRow.version
      BY <2>1, NearedRow DEF AmazonIInv
    <2> QED BY <2>1, <2>2 DEF AmazonIInv, RowSound, Knows
  <1>2. CASE LockSessionLost \/ \E t \in Tokens : TokenDies(t)
    BY <1>2 DEF LockSessionLost, TokenDies, providerVars, AmazonIInv, RowSound, Knows
  <1>3. CASE \E g \in Grants : AmazonRevokes(g)
    BY <1>3 DEF AmazonRevokes, AmazonIInv, RowSound, Knows
  <1>4. ASSUME NEW c \in AmzCalls, DecryptionFails(c) PROVE AmazonIInv'
    <2>1. /\ Finish(c) /\ amzRow' = Statused(amzRow, "ERROR")
          /\ UNCHANGED <<revokedGrants, grantOf>>
      BY <1>4 DEF DecryptionFails, Statused, providerVars
    <2>2. "ERROR" \in Statuses  BY DEF Statuses
    <2> QED BY <2>1, <2>2, StatusKeeps
  <1>5. ASSUME NEW c \in AmzCalls, CallAborts(c) PROVE AmazonIInv'
    BY <1>5, FinishKeeps DEF CallAborts, providerVars
  <1>6. CASE UNCHANGED amzVars
    BY <1>6 DEF amzVars, AmazonIInv, RowSound, Knows
  <1> QED BY <1>1, <1>2, <1>3, <1>4, <1>5, <1>6

(* At the beginning the account has no credentials and no call runs.       *)
THEOREM AmazonInitially == AmazonInit => AmazonIInv
  <1> SUFFICES ASSUME AmazonInit PROVE AmazonIInv  OBVIOUS
  <1>1. /\ 0 \in GrantsOrNone /\ 0 \in TokensOrNone
        /\ "DISCONNECTED" \in Statuses
    BY AmazonAssumption DEF GrantsOrNone, TokensOrNone, Statuses
  <1>2. amzRow \in [status : Statuses, grant : GrantsOrNone, access : TokensOrNone,
                    near : BOOLEAN, version : Nat]
    BY <1>1 DEF AmazonInit
  <1>3. amzRow.access = 0 /\ amzRow.status = "DISCONNECTED" /\ amzRow.version = 0
    BY DEF AmazonInit
  <1>4. \A c \in AmzCalls : amzCall[c] = NoWork  BY DEF AmazonInit
  <1>5. amzCall \in [AmzCalls -> Call]  BY NoWorkType DEF AmazonInit
  <1>6. grantOf \in Origins  BY <1>1 DEF AmazonInit, Origins
  <1>7. \A c \in AmzCalls : Knows(amzCall[c], amzRow, revokedGrants, grantOf)
    BY <1>3, <1>4, NoWorkType DEF Knows, Asking
  <1> QED BY <1>2, <1>3, <1>5, <1>6, <1>7 DEF AmazonInit, AmazonIInv, Row, RowOf, RowSound

(* Every step keeps the invariant.                                         *)
THEOREM AmazonStep == AmazonIInv /\ [AmazonNext]_amzVars => AmazonIInv'
  <1> SUFFICES ASSUME AmazonIInv, [AmazonNext]_amzVars PROVE AmazonIInv'  OBVIOUS
  <1>1. ASSUME NEW c \in AmzCalls, AmzCallStep(c) PROVE AmazonIInv'
    BY <1>1, ProvisioningKeeps, LockingKeeps, AskKeeps, StoreTokenKeeps, StoreRefusalKeeps,
       SearchOrdersKeeps DEF AmzCallStep
  <1> QED BY <1>1, ProvisioningKeeps, LockingKeeps, WorldKeeps DEF AmazonNext

(* What a call with a current version knows, and what the row says, stays. *)
THEOREM AmazonTheorem == AmazonSpec => []AmazonIInv
  <1> QED BY AmazonInitially, AmazonStep, PTL DEF AmazonSpec

(* The access token of the row comes from its refresh token, whatever late *)
(* answers arrive after a new provisioning.                                *)
THEOREM AccessTheorem == AmazonSpec => []AccessMatchesGrant
  <1>1. AmazonIInv => AccessMatchesGrant  BY DEF AmazonIInv, RowSound, AccessMatchesGrant
  <1> QED BY <1>1, AmazonTheorem, PTL

(* TOKEN_EXPIRED is written only when Amazon no longer honours the very    *)
(* refresh token of the row.                                               *)
THEOREM AmazonExpiredTheorem == AmazonSpec => []AmazonExpiredIsProven
  <1>1. AmazonIInv => AmazonExpiredIsProven
    BY DEF AmazonIInv, RowSound, AmazonExpiredIsProven
  <1> QED BY <1>1, AmazonTheorem, PTL

-----------------------------------------------------------------------------
(* One renewal for each version of the row, while no fault has happened.   *)

Holding == {"locked"} \cup Asking

\* a call between the reread and the write holds the lock
HoldersLock == \A c \in AmzCalls : amzCall[c].phase \in Holding => amzLock = c

\* a token asked for on the basis of the version of the row is not stored yet
MintedBefore ==
    \A t \in Issued :
        /\ mintedAt[t] <= amzRow.version
        /\ mintedAt[t] = amzRow.version =>
              \E c \in AmzCalls : amzCall[c].phase = "granted" /\ amzCall[c].seen = mintedAt[t]

\* a call that asks is the first to do so on the basis of its version
NothingMintedAt ==
    \A c \in AmzCalls : amzCall[c].phase = "asked" =>
        \A t \in Issued : mintedAt[t] < amzCall[c].seen

MintedOnce == \A t, u \in Issued : mintedAt[t] = mintedAt[u] => t = u

Undisturbed == HoldersLock /\ MintedBefore /\ NothingMintedAt /\ MintedOnce

RenewalInv ==
    /\ AmazonIInv
    /\ amzFaults \in Nat
    /\ mintedAt \in [Tokens -> Nat]
    /\ amzFaults = 0 => Undisturbed

(* A step of one call that asks for no token and begins no question.       *)
LEMMA QuietMoves ==
    ASSUME RenewalInv, AmazonIInv', Undisturbed, NEW c \in AmzCalls, NEW k \in Call,
           amzCall' = [amzCall EXCEPT ![c] = k],
           k.phase \notin {"asked", "granted"},
           UNCHANGED <<grantOf, mintedAt>>,
           amzRow'.version >= amzRow.version,
           (amzCall[c].phase = "granted" /\ amzCall[c].seen = amzRow.version)
               => amzRow'.version # amzRow.version,
           k.phase \in Holding => amzLock' = c,
           amzLock' # amzLock => amzLock \in {c, NoCall}
    PROVE  Undisturbed'
  <1>1. amzCall'[c] = k /\ \A d \in AmzCalls \ {c} : amzCall'[d] = amzCall[d]
    BY DEF RenewalInv, AmazonIInv
  <1>2. amzRow.version \in Nat /\ amzRow'.version \in Nat
    BY RowFields DEF RenewalInv, AmazonIInv, Row
  <1>3. Issued' = Issued /\ Issued \subseteq Tokens /\ mintedAt' = mintedAt
    BY DEF Issued
  <1>4. HoldersLock'
    BY <1>1, AmazonAssumption DEF Undisturbed, HoldersLock
  <1>5. MintedBefore'
    <2> SUFFICES ASSUME NEW t \in Issued
                 PROVE  /\ mintedAt[t] <= amzRow'.version
                        /\ mintedAt[t] = amzRow'.version =>
                              \E d \in AmzCalls : /\ amzCall'[d].phase = "granted"
                                                  /\ amzCall'[d].seen = mintedAt[t]
      BY <1>3 DEF MintedBefore
    <2>1. mintedAt[t] \in Nat  BY <1>3 DEF RenewalInv
    <2>2. mintedAt[t] <= amzRow.version  BY DEF Undisturbed, MintedBefore
    <2>3. ASSUME mintedAt[t] = amzRow'.version
          PROVE  \E d \in AmzCalls : amzCall'[d].phase = "granted" /\ amzCall'[d].seen = mintedAt[t]
      <3>1. mintedAt[t] = amzRow.version /\ amzRow'.version = amzRow.version
        BY <1>2, <2>1, <2>2, <2>3
      <3>2. PICK d \in AmzCalls : amzCall[d].phase = "granted" /\ amzCall[d].seen = mintedAt[t]
        BY <3>1 DEF Undisturbed, MintedBefore
      <3>3. d # c  BY <3>1, <3>2
      <3> QED BY <1>1, <3>2, <3>3
    <2> QED BY <1>2, <2>1, <2>2, <2>3
  <1>6. NothingMintedAt'  BY <1>1, <1>3 DEF Undisturbed, NothingMintedAt
  <1>7. MintedOnce'  BY <1>3 DEF Undisturbed, MintedOnce
  <1> QED BY <1>4, <1>5, <1>6, <1>7 DEF Undisturbed

(* A call that reads the row under the lock finds no token asked for on    *)
(* the basis of that version.                                              *)
LEMMA ReadingUndisturbed ==
    ASSUME RenewalInv, AmazonIInv', Undisturbed, NEW c \in AmzCalls,
           amzCall[c].phase = "locked",
           amzCall' = [amzCall EXCEPT ![c] =
                          Reading(amzCall[c], "asked", amzRow.version, amzRow.grant)],
           UNCHANGED <<amzRow, amzLock, grantOf, mintedAt>>
    PROVE  Undisturbed'
  <1> DEFINE k == Reading(amzCall[c], "asked", amzRow.version, amzRow.grant)
  <1>0. AmazonIInv /\ "asked" \in Phases  BY DEF RenewalInv, Phases
  <1>1. k.phase = "asked" /\ k.seen = amzRow.version
    BY <1>0, Known, ReadingCall
  <1>2. amzCall'[c] = k /\ \A d \in AmzCalls \ {c} : amzCall'[d] = amzCall[d]
    BY <1>0 DEF AmazonIInv
  <1> HIDE DEF k
  <1>3. amzLock = c /\ amzLock' = c
    BY DEF Undisturbed, HoldersLock, Holding
  <1>4. Issued' = Issued /\ Issued \subseteq Tokens /\ mintedAt' = mintedAt  BY DEF Issued
  <1>5. \A t \in Issued : mintedAt[t] < amzRow.version
    <2> TAKE t \in Issued
    <2>1. mintedAt[t] \in Nat /\ amzRow.version \in Nat
      BY <1>0, <1>4, Known DEF RenewalInv
    <2>2. mintedAt[t] <= amzRow.version  BY DEF Undisturbed, MintedBefore
    <2>3. mintedAt[t] # amzRow.version
      <3> SUFFICES ASSUME mintedAt[t] = amzRow.version PROVE FALSE  OBVIOUS
      <3>1. PICK d \in AmzCalls : amzCall[d].phase = "granted"
        BY DEF Undisturbed, MintedBefore
      <3>2. amzLock = d  BY <3>1 DEF Undisturbed, HoldersLock, Holding, Asking
      <3> QED BY <1>3, <3>1, <3>2
    <2> QED BY <2>1, <2>2, <2>3
  <1>6. HoldersLock'  BY <1>2, <1>3 DEF Undisturbed, HoldersLock
  <1>7. MintedBefore'
    <2> SUFFICES ASSUME NEW t \in Issued
                 PROVE  mintedAt[t] <= amzRow.version /\ mintedAt[t] # amzRow.version
      BY <1>4 DEF MintedBefore
    <2> QED BY <1>0, <1>4, <1>5, Known DEF RenewalInv
  <1>8. NothingMintedAt'
    BY <1>1, <1>2, <1>4, <1>5 DEF Undisturbed, NothingMintedAt
  <1>9. MintedOnce'  BY <1>4 DEF Undisturbed, MintedOnce
  <1> QED BY <1>6, <1>7, <1>8, <1>9 DEF Undisturbed

(* The token of a question is the first of its version.                    *)
LEMMA MintUndisturbed ==
    ASSUME RenewalInv, AmazonIInv', Undisturbed, NEW c \in AmzCalls,
           amzCall[c].phase = "asked", MintToken(c), UNCHANGED <<amzRow, amzLock>>
    PROVE  Undisturbed'
  <1>1. PICK t \in Tokens :
           /\ t \notin Issued
           /\ grantOf' = [grantOf EXCEPT ![t] = amzCall[c].grant]
           /\ mintedAt' = [mintedAt EXCEPT ![t] = amzCall[c].seen]
           /\ amzCall' = [amzCall EXCEPT ![c] = Tokened(amzCall[c], "granted", t)]
    BY DEF MintToken, Step, Tokened
  <1> DEFINE k == Tokened(amzCall[c], "granted", t)
  <1>0. AmazonIInv /\ "granted" \in Phases /\ t \in TokensOrNone
    BY AmazonAssumption DEF RenewalInv, Phases, Tokens, TokensOrNone
  <1>2. k.phase = "granted" /\ k.seen = amzCall[c].seen
    BY <1>0, Known, TokenedCall
  <1>3. amzCall'[c] = k /\ \A d \in AmzCalls \ {c} : amzCall'[d] = amzCall[d]
    BY <1>0, <1>1 DEF AmazonIInv
  <1> HIDE DEF k
  <1>4. \A d \in AmzCalls \ {c} : amzCall[d].phase \notin Holding
    BY DEF Undisturbed, HoldersLock, Holding, Asking
  <1>5. /\ Issued' \subseteq Issued \cup {t} /\ Issued \subseteq Tokens
        /\ mintedAt'[t] = amzCall[c].seen
        /\ \A u \in Issued : mintedAt'[u] = mintedAt[u] /\ mintedAt[u] \in Nat /\ u # t
    BY <1>1 DEF Issued, RenewalInv, AmazonIInv, Origins
  <1>6. /\ amzCall[c].seen \in Nat /\ amzRow.version \in Nat /\ amzRow' = amzRow
        /\ amzCall[c].seen <= amzRow.version
    BY <1>0, Known
  <1>7. \A u \in Issued : mintedAt[u] < amzCall[c].seen
    BY DEF Undisturbed, NothingMintedAt
  <1>8. HoldersLock'
    BY <1>3, <1>4 DEF Undisturbed, HoldersLock, Holding, Asking
  <1>9. MintedBefore'
    <2> SUFFICES ASSUME NEW u \in Issued'
                 PROVE  /\ mintedAt'[u] <= amzRow'.version
                        /\ mintedAt'[u] = amzRow'.version =>
                              \E d \in AmzCalls : /\ amzCall'[d].phase = "granted"
                                                  /\ amzCall'[d].seen = mintedAt'[u]
      BY DEF MintedBefore
    <2>1. CASE u = t  BY <1>2, <1>3, <1>5, <1>6, <2>1
    <2>2. CASE u # t
      <3>1. u \in Issued  BY <1>5, <2>2
      <3>2. mintedAt'[u] < amzRow'.version  BY <1>5, <1>6, <1>7, <3>1
      <3> QED BY <1>5, <1>6, <3>1, <3>2
    <2> QED BY <2>1, <2>2
  <1>10. NothingMintedAt'
    BY <1>2, <1>3, <1>4 DEF NothingMintedAt, Holding, Asking
  <1>11. MintedOnce'
    <2> SUFFICES ASSUME NEW u \in Issued', NEW v \in Issued', mintedAt'[u] = mintedAt'[v]
                 PROVE  u = v
      BY DEF MintedOnce
    <2>1. CASE u \in Issued /\ v \in Issued
      BY <1>5, <2>1 DEF Undisturbed, MintedOnce
    <2>2. CASE u = t \/ v = t  BY <1>5, <1>6, <1>7, <2>2
    <2> QED BY <1>5, <2>1, <2>2
  <1> QED BY <1>8, <1>9, <1>10, <1>11 DEF Undisturbed

(* Steps of one call that end it or move it without a question.            *)
LEMMA FinishUndisturbed ==
    ASSUME RenewalInv, AmazonIInv', Undisturbed, NEW c \in AmzCalls, Finish(c),
           UNCHANGED <<grantOf, mintedAt>>, amzRow'.version >= amzRow.version,
           (amzCall[c].phase = "granted" /\ amzCall[c].seen = amzRow.version)
               => amzRow'.version # amzRow.version,
           amzLock' # amzLock => amzLock = c
    PROVE  Undisturbed'
  <1>1. amzCall' = [amzCall EXCEPT ![c] = NoWork]  BY DEF Finish, Step
  <1>2. NoWork \in Call /\ NoWork.phase \notin {"asked", "granted"} /\ NoWork.phase \notin Holding
    BY NoWorkType DEF Holding, Asking
  <1> QED BY <1>1, <1>2, QuietMoves

LEMMA SearchUndisturbed ==
    ASSUME RenewalInv, AmazonIInv', Undisturbed, NEW c \in AmzCalls,
           NEW t \in TokensOrNone,
           amzCall' = [amzCall EXCEPT ![c] = Tokened(amzCall[c], "search", t)],
           UNCHANGED <<grantOf, mintedAt>>, amzRow'.version >= amzRow.version,
           (amzCall[c].phase = "granted" /\ amzCall[c].seen = amzRow.version)
               => amzRow'.version # amzRow.version,
           amzLock' # amzLock => amzLock = c
    PROVE  Undisturbed'
  <1> DEFINE k == Tokened(amzCall[c], "search", t)
  <1>1. AmazonIInv /\ "search" \in Phases  BY DEF RenewalInv, Phases
  <1>2. k \in Call /\ k.phase = "search"  BY <1>1, Known, TokenedCall
  <1> HIDE DEF k
  <1>3. k.phase \notin {"asked", "granted"} /\ k.phase \notin Holding
    BY <1>2 DEF Holding, Asking
  <1> QED BY <1>2, <1>3, QuietMoves DEF k

(* A call that only changes its phase.                                     *)
LEMMA PhaseUndisturbed ==
    ASSUME RenewalInv, AmazonIInv', Undisturbed, NEW c \in AmzCalls,
           NEW p \in Phases \ {"asked", "granted"},
           amzCall' = [amzCall EXCEPT ![c] = Phased(amzCall[c], p)],
           UNCHANGED <<amzRow, grantOf, mintedAt>>, amzCall[c].phase # "granted",
           p \in Holding => amzLock' = c,
           amzLock' # amzLock => amzLock = NoCall
    PROVE  Undisturbed'
  <1> DEFINE k == Phased(amzCall[c], p)
  <1>1. AmazonIInv  BY DEF RenewalInv
  <1>2. k \in Call /\ k.phase = p  BY <1>1, Known, PhasedCall
  <1>3. amzRow'.version >= amzRow.version  BY <1>1, Known
  <1> HIDE DEF k
  <1> QED BY <1>2, <1>3, QuietMoves DEF k

(* The steps of a call.                                                    *)
LEMMA CallUndisturbed ==
    ASSUME RenewalInv, AmazonIInv', Undisturbed, NEW c \in AmzCalls,
           AmzCallStep(c) \/ BeginProvision(c) \/ BeginVerify(c)
    PROVE  Undisturbed'
  <1>0. /\ AmazonIInv /\ amzRow.version \in Nat /\ amzRow.access \in TokensOrNone
        /\ amzCall[c].token \in TokensOrNone /\ amzCall[c].grant \in GrantsOrNone
        /\ amzRow.version >= amzRow.version
    BY Known DEF RenewalInv
  <1>1. CASE BeginProvision(c)
    <2>1. PICK g \in Grants : amzCall' = [amzCall EXCEPT ![c] =
             Provisioning(NoWork, "provisioning", g, amzRow.version)]
      BY <1>1 DEF BeginProvision, Step, Provisioning
    <2> DEFINE k == Provisioning(NoWork, "provisioning", g, amzRow.version)
    <2>2. g \in GrantsOrNone /\ "provisioning" \in Phases
      BY DEF Grants, GrantsOrNone, Phases
    <2>3. k \in Call /\ k.phase = "provisioning"
      BY <1>0, <2>2, NoWorkType, ProvisioningCall
    <2> HIDE DEF k
    <2>4. k.phase \notin {"asked", "granted"} /\ k.phase \notin Holding
      BY <2>3 DEF Holding, Asking
    <2>5. /\ UNCHANGED <<amzRow, amzLock, grantOf, mintedAt>>
          /\ amzCall[c].phase # "granted"
      BY <1>1, NoWorkType DEF BeginProvision, providerVars
    <2> QED BY <1>0, <2>1, <2>3, <2>4, <2>5, QuietMoves DEF k
  <1>2. CASE ProvisionCredentials(c)
    <2>1. /\ Finish(c) /\ UNCHANGED <<amzLock, grantOf, mintedAt>>
          /\ amzCall[c].phase # "granted"
      BY <1>2 DEF ProvisionCredentials, providerVars
    <2>2. amzRow' = amzRow \/ amzRow' = ProvisionedRow(amzCall[c].grant)
      BY <1>2 DEF ProvisionCredentials
    <2>3. amzRow'.version >= amzRow.version  BY <1>0, <2>2, WrittenRows
    <2> QED BY <2>1, <2>3, FinishUndisturbed
  <1>3. CASE BeginVerify(c)
    <2>1. /\ UNCHANGED <<amzRow, amzLock, grantOf, mintedAt>>
          /\ amzCall[c].phase # "granted"
      BY <1>3, NoWorkType DEF BeginVerify, providerVars
    <2>2. CASE amzRow.near
      <3>1. amzCall' = [amzCall EXCEPT ![c] = Phased(amzCall[c], "waiting")]
        BY <1>3, <2>2 DEF BeginVerify, Step, Phased
      <3>2. "waiting" \in Phases \ {"asked", "granted"} /\ "waiting" \notin Holding
        BY DEF Phases, Holding, Asking
      <3> QED BY <2>1, <3>1, <3>2, PhaseUndisturbed
    <2>3. CASE ~amzRow.near
      <3>1. amzCall' = [amzCall EXCEPT ![c] = Tokened(amzCall[c], "search", amzRow.access)]
        BY <1>3, <2>3 DEF BeginVerify, SearchWith, Step, Tokened
      <3> QED BY <1>0, <2>1, <3>1, SearchUndisturbed
    <2> QED BY <2>2, <2>3
  <1>4. CASE AcquireLock(c)
    <2>1. /\ amzCall' = [amzCall EXCEPT ![c] = Phased(amzCall[c], "locked")]
          /\ UNCHANGED <<amzRow, grantOf, mintedAt>> /\ amzLock = NoCall /\ amzLock' = c
          /\ amzCall[c].phase # "granted"
      BY <1>4 DEF AcquireLock, Step, Phased, providerVars
    <2>2. "locked" \in Phases \ {"asked", "granted"}  BY DEF Phases
    <2> QED BY <2>1, <2>2, PhaseUndisturbed
  <1>5. CASE GiveUpLock(c)
    <2>1. /\ Finish(c) /\ UNCHANGED <<amzRow, amzLock, grantOf, mintedAt>>
          /\ amzCall[c].phase # "granted"
      BY <1>5 DEF GiveUpLock, providerVars
    <2> QED BY <1>0, <2>1, FinishUndisturbed
  <1>6. CASE Reread(c)
    <2>1. UNCHANGED <<amzRow, grantOf, mintedAt>> /\ amzCall[c].phase = "locked"
      BY <1>6 DEF Reread, providerVars
    <2>2. CASE Finish(c) /\ ReleaseLock(c)
      <3>1. amzLock' # amzLock => amzLock = c  BY <2>2 DEF ReleaseLock
      <3> QED BY <1>0, <2>1, <2>2, <3>1, FinishUndisturbed
    <2>3. CASE SearchWith(c, amzRow.access) /\ ReleaseLock(c)
      <3>1. /\ amzLock' # amzLock => amzLock = c
            /\ amzCall' = [amzCall EXCEPT ![c] = Tokened(amzCall[c], "search", amzRow.access)]
        BY <2>3 DEF ReleaseLock, SearchWith, Step, Tokened
      <3> QED BY <1>0, <2>1, <3>1, SearchUndisturbed
    <2>4. CASE /\ Step(c, [amzCall[c] EXCEPT !.phase = "asked", !.seen = amzRow.version,
                                             !.grant = amzRow.grant])
               /\ UNCHANGED amzLock
      <3>1. amzCall' = [amzCall EXCEPT ![c] =
                           Reading(amzCall[c], "asked", amzRow.version, amzRow.grant)]
        BY <2>4 DEF Step, Reading
      <3> QED BY <2>1, <2>4, <3>1, ReadingUndisturbed
    <2> QED BY <1>6, <2>2, <2>3, <2>4 DEF Reread
  <1>7. CASE AskLwa(c)
    <2>1. amzRow' = amzRow /\ amzCall[c].phase = "asked"  BY <1>7 DEF AskLwa
    <2>2. \/ MintToken(c) /\ UNCHANGED amzLock
          \/ /\ \E p \in {"refused", "misconfigured"} :
                   amzCall' = [amzCall EXCEPT ![c] = Phased(amzCall[c], p)]
             /\ UNCHANGED <<amzLock, grantOf, mintedAt>>
          \/ Finish(c) /\ ReleaseLock(c) /\ UNCHANGED <<grantOf, mintedAt>>
      BY <1>7 DEF AskLwa, Step, Phased
    <2>3. CASE MintToken(c) /\ UNCHANGED amzLock  BY <2>1, <2>3, MintUndisturbed
    <2>4. CASE /\ \E p \in {"refused", "misconfigured"} :
                   amzCall' = [amzCall EXCEPT ![c] = Phased(amzCall[c], p)]
               /\ UNCHANGED <<amzLock, grantOf, mintedAt>>
      <3>1. PICK p \in {"refused", "misconfigured"} :
               amzCall' = [amzCall EXCEPT ![c] = Phased(amzCall[c], p)]
        BY <2>4
      <3>2. p \in Phases \ {"asked", "granted"}  BY DEF Phases
      <3>3. amzLock = c /\ amzLock' = c
        BY <2>1, <2>4 DEF Undisturbed, HoldersLock, Holding, Asking
      <3> QED BY <2>1, <2>4, <3>1, <3>2, <3>3, PhaseUndisturbed
    <2>5. CASE Finish(c) /\ ReleaseLock(c) /\ UNCHANGED <<grantOf, mintedAt>>
      <3>1. amzLock' # amzLock => amzLock = c  BY <2>5 DEF ReleaseLock
      <3> QED BY <1>0, <2>1, <2>5, <3>1, FinishUndisturbed
    <2> QED BY <2>2, <2>3, <2>4, <2>5
  <1>8. CASE StoreToken(c)
    <2>1. /\ UNCHANGED <<grantOf, mintedAt>>
          /\ amzLock' # amzLock => amzLock = c
      BY <1>8 DEF StoreToken, providerVars, ReleaseLock
    <2>2. CASE ~SameVersion(c)
      <3>1. Finish(c) /\ amzRow' = amzRow /\ amzCall[c].seen # amzRow.version
        BY <1>8, <2>2 DEF StoreToken, IfCurrent, SameVersion
      <3> QED BY <1>0, <2>1, <3>1, FinishUndisturbed
    <2>3. CASE SameVersion(c)
      <3>1. /\ amzCall' = [amzCall EXCEPT ![c] =
                               Tokened(amzCall[c], "search", amzCall[c].token)]
            /\ amzRow' = RenewedRow(amzCall[c].token, amzCall[c].grant)
        BY <1>8, <2>3 DEF StoreToken, IfCurrent, SearchWith, Step, Tokened
      <3>2. amzRow'.version = amzRow.version + 1  BY <1>0, <3>1, WrittenRows
      <3>3. amzRow'.version >= amzRow.version /\ amzRow'.version # amzRow.version
        BY <1>0, <3>2
      <3> QED BY <1>0, <2>1, <3>1, <3>3, SearchUndisturbed
    <2> QED BY <2>2, <2>3
  <1>9. CASE StoreRefusal(c)
    <2> DEFINE status == IF amzCall[c].phase = "refused" THEN "TOKEN_EXPIRED" ELSE "ERROR"
    <2>1. /\ Finish(c) /\ UNCHANGED <<grantOf, mintedAt>> /\ amzCall[c].phase # "granted"
          /\ amzLock' # amzLock => amzLock = c
          /\ amzRow' = amzRow \/ amzRow' = Statused(amzRow, status)
      BY <1>9 DEF StoreRefusal, providerVars, ReleaseLock, IfCurrent, Statused
    <2>2. status \in Statuses  BY DEF Statuses
    <2> HIDE DEF status
    <2>3. amzRow'.version = amzRow.version  BY <1>0, <2>1, <2>2, StatusedRow DEF AmazonIInv
    <2> QED BY <1>0, <2>1, <2>3, FinishUndisturbed
  <1>10. CASE SearchOrders(c)
    <2>1. /\ UNCHANGED <<amzRow, amzLock, grantOf, mintedAt>>
          /\ amzCall[c].phase # "granted"
      BY <1>10 DEF SearchOrders, providerVars
    <2> DEFINE k == Rejected(NoWork, "waiting", amzCall[c].token)
    <2>2. Finish(c) \/ amzCall' = [amzCall EXCEPT ![c] = k]
      BY <1>10 DEF SearchOrders, Step, Rejected
    <2>3. CASE Finish(c)  BY <1>0, <2>1, <2>3, FinishUndisturbed
    <2>4. CASE amzCall' = [amzCall EXCEPT ![c] = k]
      <3>1. "waiting" \in Phases  BY DEF Phases
      <3>2. k \in Call /\ k.phase = "waiting"  BY <1>0, <3>1, NoWorkType, RejectedCall
      <3> HIDE DEF k
      <3>3. k.phase \notin {"asked", "granted"} /\ k.phase \notin Holding
        BY <3>2 DEF Holding, Asking
      <3> QED BY <1>0, <2>1, <2>4, <3>2, <3>3, QuietMoves
    <2> QED BY <2>2, <2>3, <2>4
  <1> QED BY <1>1, <1>2, <1>3, <1>4, <1>5, <1>6, <1>7, <1>8, <1>9, <1>10 DEF AmzCallStep

(* The steps of the world, of which the failing ones are faults.           *)
LEMMA WorldUndisturbed ==
    ASSUME RenewalInv, AmazonIInv', Undisturbed, UNCHANGED <<amzLock, mintedAt>>,
           \/ TokenNearsEnd
           \/ \E t \in Tokens : TokenDies(t)
           \/ \E g \in Grants : AmazonRevokes(g)
           \/ UNCHANGED amzVars
    PROVE  Undisturbed'
  <1>1. UNCHANGED <<amzCall, grantOf>>
    BY DEF TokenNearsEnd, TokenDies, AmazonRevokes, providerVars, amzVars
  <1>2. amzRow'.version = amzRow.version
    <2>1. amzRow' = amzRow \/ amzRow' = Neared(amzRow)
      BY DEF TokenNearsEnd, TokenDies, AmazonRevokes, Neared, amzVars
    <2> QED BY <2>1, NearedRow DEF RenewalInv, AmazonIInv
  <1>3. Issued' = Issued  BY <1>1 DEF Issued
  <1> QED BY <1>1, <1>2, <1>3
          DEF Undisturbed, HoldersLock, MintedBefore, NothingMintedAt, MintedOnce

(* Every step keeps the invariant of the renewals.                         *)
THEOREM RenewalStep == RenewalInv /\ [AmazonNext]_amzVars => RenewalInv'
  <1> SUFFICES ASSUME RenewalInv, [AmazonNext]_amzVars PROVE RenewalInv'  OBVIOUS
  <1>0. AmazonIInv /\ AmazonIInv'  BY AmazonStep DEF RenewalInv
  <1>1. ASSUME NEW c \in AmzCalls, AmzCallStep(c) \/ BeginProvision(c) \/ BeginVerify(c)
        PROVE  RenewalInv'
    <2>1. amzFaults' = amzFaults
      BY <1>1 DEF AmzCallStep, BeginProvision, BeginVerify, ProvisionCredentials, AcquireLock,
                  GiveUpLock, Reread, AskLwa, StoreToken, StoreRefusal, SearchOrders
    <2>2. mintedAt' \in [Tokens -> Nat]
      <3>1. mintedAt' = mintedAt \/ MintToken(c)
        BY <1>1 DEF AmzCallStep, BeginProvision, BeginVerify, ProvisionCredentials,
                    AcquireLock, GiveUpLock, Reread, AskLwa, StoreToken, StoreRefusal,
                    SearchOrders, providerVars
      <3>2. amzCall[c].seen \in Nat  BY <1>0, Known
      <3> QED BY <3>1, <3>2 DEF MintToken, RenewalInv
    <2>3. amzFaults = 0 => Undisturbed'  BY <1>0, <1>1, CallUndisturbed DEF RenewalInv
    <2> QED BY <1>0, <2>1, <2>2, <2>3 DEF RenewalInv
  <1>2. ASSUME LockSessionLost \/ \E c \in AmzCalls : DecryptionFails(c) \/ CallAborts(c)
        PROVE  RenewalInv'
    <2>1. AmzFault /\ mintedAt' = mintedAt
      BY <1>2 DEF LockSessionLost, DecryptionFails, CallAborts, providerVars
    <2>2. amzFaults' \in Nat /\ amzFaults' # 0  BY <2>1 DEF AmzFault, RenewalInv
    <2> QED BY <1>0, <2>1, <2>2 DEF RenewalInv
  <1>3. ASSUME \/ TokenNearsEnd
               \/ \E t \in Tokens : TokenDies(t)
               \/ \E g \in Grants : AmazonRevokes(g)
               \/ UNCHANGED amzVars
        PROVE  RenewalInv'
    <2>1. UNCHANGED <<amzLock, mintedAt, amzFaults>>
      BY <1>3 DEF TokenNearsEnd, TokenDies, AmazonRevokes, providerVars, amzVars
    <2>2. amzFaults = 0 => Undisturbed'
      BY <1>0, <1>3, <2>1, WorldUndisturbed DEF RenewalInv
    <2> QED BY <1>0, <2>1, <2>2 DEF RenewalInv
  <1> QED BY <1>1, <1>2, <1>3 DEF AmazonNext

(* Calls that meet the same expired or rejected token renew it once, for   *)
(* any number of them: what the reread under the lock is for.              *)
THEOREM RenewedOnceTheorem == AmazonSpec => []RenewedOnce
  <1>1. AmazonInit => RenewalInv
    <2> SUFFICES ASSUME AmazonInit PROVE RenewalInv  OBVIOUS
    <2>1. AmazonIInv  BY AmazonInitially
    <2>2. Issued = {}  BY DEF AmazonInit, Issued
    <2>3. \A c \in AmzCalls : amzCall[c].phase = "idle"  BY NoWorkType DEF AmazonInit
    <2> QED BY <2>1, <2>2, <2>3
            DEF AmazonInit, RenewalInv, Undisturbed, HoldersLock, MintedBefore,
                NothingMintedAt, MintedOnce, Holding, Asking
  <1>2. RenewalInv => RenewedOnce
    BY DEF RenewalInv, Undisturbed, MintedOnce, RenewedOnce
  <1> QED BY <1>1, <1>2, RenewalStep, PTL DEF AmazonSpec

-----------------------------------------------------------------------------
(* The bounds of the types.  A version of the row is a provisioning or a   *)
(* renewal, so it never passes the refresh tokens handed out and the       *)
(* access tokens issued, provided that no two calls write on the basis of  *)
(* one version and that a provisioning brings a newer refresh token.       *)

Writing == {"granted", "provisioning"}

\* n access tokens were issued, and an answer that can still be written is
\* one that no version accounts for yet.
VersionsUpTo(n) ==
    /\ Issued = 1..n
    /\ amzRow.version <= amzRow.grant + n
    /\ \A c \in AmzCalls :
          amzCall[c].phase = "granted" /\ amzCall[c].seen = amzRow.version
              => amzRow.version < amzRow.grant + n
NewGrantsOnly ==
    \A c \in AmzCalls :
        amzCall[c].phase = "provisioning" /\ amzCall[c].seen = amzRow.version
            => amzCall[c].grant > amzRow.grant
Versions == NewGrantsOnly /\ \E n \in 0..MaxTokens : VersionsUpTo(n)

VersionInv == AmazonIInv /\ Versions

(* A call that stops writing, or does not begin to, while the row keeps    *)
(* its version.                                                            *)
LEMMA QuietVersions ==
    ASSUME VersionInv, NEW c \in AmzCalls, NEW k \in Call, k.phase \notin Writing,
           amzCall' = [amzCall EXCEPT ![c] = k], grantOf' = grantOf,
           amzRow'.version = amzRow.version, amzRow'.grant = amzRow.grant
    PROVE  Versions'
  <1>1. \A d \in AmzCalls : amzCall'[d].phase \in Writing => amzCall'[d] = amzCall[d]
    BY DEF VersionInv, AmazonIInv
  <1>2. Issued' = Issued  BY DEF Issued
  <1> QED BY <1>1, <1>2 DEF VersionInv, Versions, VersionsUpTo, NewGrantsOnly, Writing

(* A step that writes a version leaves every other reader behind.          *)
LEMMA WriteVersions ==
    ASSUME VersionInv, AmazonIInv', NEW c \in AmzCalls, NEW k \in Call, k.phase \notin Writing,
           amzCall' = [amzCall EXCEPT ![c] = k], grantOf' = grantOf,
           amzRow'.version = amzRow.version + 1,
           \A n \in Nat : VersionsUpTo(n) => amzRow'.version <= amzRow'.grant + n
    PROVE  Versions'
  <1>1. \A d \in AmzCalls : amzCall'[d].phase \in Writing => amzCall'[d] = amzCall[d]
    BY DEF VersionInv, AmazonIInv
  <1>2. \A d \in AmzCalls : amzCall[d].seen \in Nat /\ amzCall[d].seen <= amzRow.version
    BY Known DEF VersionInv
  <1>3. amzRow.version \in Nat  BY RowFields DEF VersionInv, AmazonIInv, Row
  <1>4. \A d \in AmzCalls : amzCall'[d].phase \in Writing => amzCall'[d].seen # amzRow'.version
    BY <1>1, <1>2, <1>3
  <1>5. PICK n \in 0..MaxTokens : VersionsUpTo(n)  BY DEF VersionInv, Versions
  <1>6. n \in Nat  BY <1>5, AmazonAssumption
  <1>7. Issued' = Issued  BY DEF Issued
  <1>8. VersionsUpTo(n)'  BY <1>4, <1>5, <1>6, <1>7 DEF VersionsUpTo, Writing
  <1>9. NewGrantsOnly'  BY <1>4 DEF NewGrantsOnly, Writing
  <1> QED BY <1>8, <1>9 DEF Versions

(* Amazon issues the next access token.                                    *)
LEMMA MintVersions ==
    ASSUME VersionInv, NEW c \in AmzCalls, amzCall[c].phase = "asked", MintToken(c),
           UNCHANGED amzRow
    PROVE  Versions'
  <1>1. PICK t \in Tokens :
           /\ t \notin Issued /\ \A u \in 1..(t - 1) : u \in Issued
           /\ grantOf' = [grantOf EXCEPT ![t] = amzCall[c].grant]
           /\ amzCall' = [amzCall EXCEPT ![c] = Tokened(amzCall[c], "granted", t)]
    BY DEF MintToken, Step, Tokened
  <1>2. PICK n \in 0..MaxTokens : VersionsUpTo(n)  BY DEF VersionInv, Versions
  <1>3. n \in Nat /\ t \in Nat /\ t >= 1 /\ t <= MaxTokens /\ MaxTokens \in Nat
    BY <1>1, <1>2, AmazonAssumption DEF Tokens
  <1>4. Issued = 1..n  BY <1>2 DEF VersionsUpTo
  <1>5. t = n + 1
    <2>1. ~(t <= n)  BY <1>1, <1>3, <1>4
    <2>2. ~(t > n + 1)
      <3> SUFFICES ASSUME t > n + 1 PROVE FALSE  OBVIOUS
      <3>1. n + 1 \in 1..(t - 1) /\ n + 1 \notin 1..n  BY <1>3
      <3> QED BY <1>1, <1>4, <3>1
    <2> QED BY <1>3, <2>1, <2>2
  <1>6. amzCall[c].grant # 0 /\ amzCall[c] \in Call /\ AmazonIInv
    BY Known DEF VersionInv, Knows, Asking
  <1>7. Issued' = 1..(n + 1)
    <2>1. Issued' = Issued \cup {t}
      BY <1>1, <1>6 DEF Issued, VersionInv, AmazonIInv, Origins
    <2>2. 1..(n + 1) = (1..n) \cup {n + 1}  BY <1>3
    <2> QED BY <1>4, <1>5, <2>1, <2>2
  <1>8. n + 1 \in 0..MaxTokens  BY <1>3, <1>5
  <1>9. amzRow.version \in Nat /\ amzRow.grant \in Nat /\ amzRow.version <= amzRow.grant + n
    BY <1>2, Known, AmazonAssumption DEF VersionsUpTo, VersionInv, GrantsOrNone
  <1>10. VersionsUpTo(n + 1)'
    <2>1. amzRow'.version < amzRow'.grant + (n + 1)  BY <1>3, <1>9
    <2> QED BY <1>3, <1>7, <1>9, <2>1 DEF VersionsUpTo
  <1>11. t \in TokensOrNone /\ "granted" \in Phases
    BY <1>3 DEF TokensOrNone, Phases
  <1>12. Tokened(amzCall[c], "granted", t).phase # "provisioning"
    BY <1>6, <1>11, TokenedCall
  <1>13. \A d \in AmzCalls : amzCall'[d].phase = "provisioning" => amzCall'[d] = amzCall[d]
    BY <1>1, <1>12 DEF VersionInv, AmazonIInv
  <1>14. NewGrantsOnly'  BY <1>13 DEF VersionInv, Versions, NewGrantsOnly
  <1> QED BY <1>8, <1>10, <1>14 DEF Versions

(* The calls of the steps that neither write a version nor mint.           *)
LEMMA FinishVersions ==
    ASSUME VersionInv, NEW c \in AmzCalls, Finish(c), grantOf' = grantOf,
           amzRow'.version = amzRow.version, amzRow'.grant = amzRow.grant
    PROVE  Versions'
  <1>1. amzCall' = [amzCall EXCEPT ![c] = NoWork]  BY DEF Finish, Step
  <1>2. NoWork \in Call /\ NoWork.phase \notin Writing  BY NoWorkType DEF Writing
  <1> QED BY <1>1, <1>2, QuietVersions

LEMMA SearchVersions ==
    ASSUME VersionInv, NEW c \in AmzCalls, NEW t \in TokensOrNone, SearchWith(c, t),
           UNCHANGED <<amzRow, grantOf>>
    PROVE  Versions'
  <1> DEFINE k == Tokened(amzCall[c], "search", t)
  <1>1. amzCall' = [amzCall EXCEPT ![c] = k]  BY DEF SearchWith, Step, Tokened
  <1>2. "search" \in Phases /\ amzCall[c] \in Call  BY Known DEF VersionInv, Phases
  <1>3. k \in Call /\ k.phase = "search"  BY <1>2, TokenedCall
  <1> HIDE DEF k
  <1>4. k.phase \notin Writing  BY <1>3 DEF Writing
  <1> QED BY <1>1, <1>3, <1>4, QuietVersions

LEMMA PhaseVersions ==
    ASSUME VersionInv, NEW c \in AmzCalls, NEW p \in Phases \ Writing,
           amzCall' = [amzCall EXCEPT ![c] = Phased(amzCall[c], p)],
           UNCHANGED <<amzRow, grantOf>>
    PROVE  Versions'
  <1> DEFINE k == Phased(amzCall[c], p)
  <1>1. k \in Call /\ k.phase = p  BY Known, PhasedCall DEF VersionInv
  <1> HIDE DEF k
  <1> QED BY <1>1, QuietVersions DEF k

LEMMA ProvisionVersions ==
    ASSUME VersionInv, AmazonIInv', NEW c \in AmzCalls,
           BeginProvision(c) \/ ProvisionCredentials(c)
    PROVE  Versions'
  <1>0. /\ amzRow.version \in Nat /\ amzRow.grant \in Nat /\ amzCall[c].grant \in Nat
        /\ amzCall[c].grant \in GrantsOrNone /\ amzCall[c] \in Call
    BY Known, AmazonAssumption DEF VersionInv, GrantsOrNone
  <1>1. CASE BeginProvision(c)
    <2>1. PICK g \in Grants :
             /\ g > amzRow.grant
             /\ amzCall' = [amzCall EXCEPT ![c] =
                               Provisioning(NoWork, "provisioning", g, amzRow.version)]
      BY <1>1 DEF BeginProvision, Step, Provisioning
    <2> DEFINE k == Provisioning(NoWork, "provisioning", g, amzRow.version)
    <2>2. g \in GrantsOrNone /\ "provisioning" \in Phases
      BY DEF Grants, GrantsOrNone, Phases
    <2>3. k \in Call /\ k.phase = "provisioning" /\ k.grant = g
      BY <1>0, <2>2, NoWorkType, ProvisioningCall
    <2> HIDE DEF k
    <2>4. amzCall' = [amzCall EXCEPT ![c] = k]  BY <2>1 DEF k
    <2>5. amzRow' = amzRow /\ Issued' = Issued
      BY <1>1 DEF BeginProvision, providerVars, Issued
    <2>6. NewGrantsOnly'
      <3> SUFFICES ASSUME NEW d \in AmzCalls, amzCall'[d].phase = "provisioning",
                          amzCall'[d].seen = amzRow.version
                   PROVE  amzCall'[d].grant > amzRow.grant
        BY <2>5 DEF NewGrantsOnly
      <3>1. CASE d = c  BY <2>1, <2>3, <2>4, <3>1 DEF VersionInv, AmazonIInv
      <3>2. CASE d # c
        <4>1. amzCall'[d] = amzCall[d]  BY <2>4, <3>2 DEF VersionInv, AmazonIInv
        <4> QED BY <4>1 DEF VersionInv, Versions, NewGrantsOnly
      <3> QED BY <3>1, <3>2
    <2>7. \A d \in AmzCalls : amzCall'[d].phase = "granted" => amzCall'[d] = amzCall[d]
      BY <2>3, <2>4 DEF VersionInv, AmazonIInv
    <2> QED BY <2>5, <2>6, <2>7 DEF VersionInv, Versions, VersionsUpTo
  <1>2. CASE ProvisionCredentials(c)
    <2>1. Finish(c) /\ grantOf' = grantOf /\ amzCall[c].phase = "provisioning"
      BY <1>2 DEF ProvisionCredentials, providerVars
    <2>2. CASE amzRow' = amzRow  BY <2>1, <2>2, FinishVersions
    <2>3. CASE SameVersion(c) /\ amzRow' = ProvisionedRow(amzCall[c].grant)
      <3>1. amzRow'.version = amzRow.version + 1 /\ amzRow'.grant = amzCall[c].grant
        BY <2>3 DEF ProvisionedRow
      <3>2. amzCall[c].grant > amzRow.grant
        BY <2>1, <2>3 DEF VersionInv, Versions, NewGrantsOnly, SameVersion
      <3>3. \A n \in Nat : VersionsUpTo(n) => amzRow'.version <= amzRow'.grant + n
        BY <1>0, <3>1, <3>2 DEF VersionsUpTo
      <3>4. amzCall' = [amzCall EXCEPT ![c] = NoWork]  BY <2>1 DEF Finish, Step
      <3>5. NoWork \in Call /\ NoWork.phase \notin Writing  BY NoWorkType DEF Writing
      <3> QED BY <2>1, <3>1, <3>3, <3>4, <3>5, WriteVersions
    <2> QED BY <1>2, <2>2, <2>3 DEF ProvisionCredentials
  <1> QED BY <1>1, <1>2

LEMMA StoreVersions ==
    ASSUME VersionInv, AmazonIInv', NEW c \in AmzCalls, StoreToken(c)
    PROVE  Versions'
  <1>0. /\ amzRow.version \in Nat /\ amzRow.grant \in Nat /\ amzCall[c] \in Call
        /\ amzCall[c].grant \in GrantsOrNone /\ amzCall[c].token \in TokensOrNone
        /\ amzCall[c].phase = "granted" /\ grantOf' = grantOf
    BY Known, AmazonAssumption DEF VersionInv, GrantsOrNone, StoreToken, providerVars
  <1>1. CASE ~SameVersion(c)
    <2>1. Finish(c) /\ amzRow' = amzRow  BY <1>1 DEF StoreToken, IfCurrent
    <2> QED BY <1>0, <2>1, FinishVersions
  <1>2. CASE SameVersion(c)
    <2> DEFINE k == Tokened(amzCall[c], "search", amzCall[c].token)
    <2>1. /\ amzCall' = [amzCall EXCEPT ![c] = k]
          /\ amzRow' = RenewedRow(amzCall[c].token, amzCall[c].grant)
      BY <1>2 DEF StoreToken, IfCurrent, SearchWith, Step, Tokened
    <2>2. "search" \in Phases  BY DEF Phases
    <2>3. k \in Call /\ k.phase = "search"  BY <1>0, <2>2, TokenedCall
    <2> HIDE DEF k
    <2>4. k.phase \notin Writing  BY <2>3 DEF Writing
    <2>5. amzRow'.version = amzRow.version + 1 /\ amzRow'.grant = amzCall[c].grant
      BY <2>1 DEF RenewedRow
    <2>6. amzCall[c].grant = amzRow.grant
      BY <1>0, <1>2, Known DEF VersionInv, Knows, Asking, SameVersion
    <2>7. \A n \in Nat : VersionsUpTo(n) => amzRow'.version <= amzRow'.grant + n
      BY <1>0, <1>2, <2>5, <2>6 DEF VersionsUpTo, SameVersion
    <2> QED BY <1>0, <2>1, <2>3, <2>4, <2>5, <2>7, WriteVersions
  <1> QED BY <1>1, <1>2

LEMMA AskVersions ==
    ASSUME VersionInv, NEW c \in AmzCalls, AskLwa(c)
    PROVE  Versions'
  <1>1. amzRow' = amzRow /\ amzCall[c].phase = "asked"  BY DEF AskLwa
  <1>2. \/ MintToken(c)
        \/ /\ \E p \in {"refused", "misconfigured"} :
                 amzCall' = [amzCall EXCEPT ![c] = Phased(amzCall[c], p)]
           /\ grantOf' = grantOf
        \/ Finish(c) /\ grantOf' = grantOf
    BY DEF AskLwa, Step, Phased
  <1>3. CASE MintToken(c)  BY <1>1, <1>3, MintVersions
  <1>4. CASE /\ \E p \in {"refused", "misconfigured"} :
                   amzCall' = [amzCall EXCEPT ![c] = Phased(amzCall[c], p)]
             /\ grantOf' = grantOf
    <2>1. {"refused", "misconfigured"} \subseteq Phases \ Writing  BY DEF Phases, Writing
    <2> QED BY <1>1, <1>4, <2>1, PhaseVersions
  <1>5. CASE Finish(c) /\ grantOf' = grantOf  BY <1>1, <1>5, FinishVersions
  <1> QED BY <1>2, <1>3, <1>4, <1>5

(* The steps of a call.                                                    *)
LEMMA CallVersions ==
    ASSUME VersionInv, AmazonIInv', NEW c \in AmzCalls,
           AmzCallStep(c) \/ BeginProvision(c) \/ BeginVerify(c)
    PROVE  Versions'
  <1>0. /\ amzRow \in Row /\ amzRow.access \in TokensOrNone /\ amzCall[c] \in Call
        /\ amzCall[c].token \in TokensOrNone
        /\ "waiting" \in Phases \ Writing /\ "locked" \in Phases \ Writing
    BY Known DEF VersionInv, Phases, Writing
  <1>1. CASE BeginVerify(c)
    <2>1. UNCHANGED <<amzRow, grantOf>>  BY <1>1 DEF BeginVerify, providerVars
    <2>2. \/ amzCall' = [amzCall EXCEPT ![c] = Phased(NoWork, "waiting")]
          \/ SearchWith(c, amzRow.access)
      BY <1>1 DEF BeginVerify, Step, Phased
    <2>3. amzCall[c] = NoWork  BY <1>1 DEF BeginVerify
    <2> QED BY <1>0, <2>1, <2>2, <2>3, PhaseVersions, SearchVersions
  <1>2. CASE AcquireLock(c)
    <2>1. /\ amzCall' = [amzCall EXCEPT ![c] = Phased(amzCall[c], "locked")]
          /\ UNCHANGED <<amzRow, grantOf>>
      BY <1>2 DEF AcquireLock, Step, Phased, providerVars
    <2> QED BY <1>0, <2>1, PhaseVersions
  <1>3. CASE GiveUpLock(c)
    <2>1. Finish(c) /\ UNCHANGED <<amzRow, grantOf>>  BY <1>3 DEF GiveUpLock, providerVars
    <2> QED BY <2>1, FinishVersions
  <1>4. CASE Reread(c)
    <2>1. UNCHANGED <<amzRow, grantOf>>  BY <1>4 DEF Reread, providerVars
    <2>2. CASE Finish(c)  BY <2>1, <2>2, FinishVersions
    <2>3. CASE SearchWith(c, amzRow.access)  BY <1>0, <2>1, <2>3, SearchVersions
    <2>4. CASE amzCall' = [amzCall EXCEPT ![c] =
                              Reading(amzCall[c], "asked", amzRow.version, amzRow.grant)]
      <3> DEFINE k == Reading(amzCall[c], "asked", amzRow.version, amzRow.grant)
      <3>1. "asked" \in Phases /\ amzRow.version \in Nat /\ amzRow.grant \in GrantsOrNone
        BY Known DEF VersionInv, Phases
      <3>2. k \in Call /\ k.phase = "asked"  BY <1>0, <3>1, ReadingCall
      <3> HIDE DEF k
      <3>3. k.phase \notin Writing  BY <3>2 DEF Writing
      <3> QED BY <2>1, <2>4, <3>2, <3>3, QuietVersions DEF k
    <2> QED BY <1>4, <2>2, <2>3, <2>4 DEF Reread, Step, Reading
  <1>5. CASE StoreRefusal(c)
    <2> DEFINE status == IF amzCall[c].phase = "refused" THEN "TOKEN_EXPIRED" ELSE "ERROR"
    <2>1. /\ Finish(c) /\ grantOf' = grantOf
          /\ amzRow' = amzRow \/ amzRow' = Statused(amzRow, status)
      BY <1>5 DEF StoreRefusal, providerVars, IfCurrent, Statused
    <2>2. status \in Statuses  BY DEF Statuses
    <2> HIDE DEF status
    <2>3. amzRow'.version = amzRow.version /\ amzRow'.grant = amzRow.grant
      BY <1>0, <2>1, <2>2, StatusedRow
    <2> QED BY <2>1, <2>3, FinishVersions
  <1>6. CASE SearchOrders(c)
    <2>1. UNCHANGED <<amzRow, grantOf>>  BY <1>6 DEF SearchOrders, providerVars
    <2> DEFINE k == Rejected(NoWork, "waiting", amzCall[c].token)
    <2>2. Finish(c) \/ amzCall' = [amzCall EXCEPT ![c] = k]
      BY <1>6 DEF SearchOrders, Step, Rejected
    <2>3. k \in Call /\ k.phase = "waiting"  BY <1>0, NoWorkType, RejectedCall
    <2> HIDE DEF k
    <2>4. k.phase \notin Writing  BY <2>3 DEF Writing
    <2> QED BY <2>1, <2>2, <2>3, <2>4, FinishVersions, QuietVersions
  <1> QED BY <1>1, <1>2, <1>3, <1>4, <1>5, <1>6, ProvisionVersions, StoreVersions, AskVersions
          DEF AmzCallStep

(* The steps of the world, and the failures.                               *)
LEMMA WorldVersions ==
    ASSUME VersionInv,
           \/ TokenNearsEnd
           \/ \E t \in Tokens : TokenDies(t)
           \/ \E g \in Grants : AmazonRevokes(g)
           \/ LockSessionLost
           \/ \E c \in AmzCalls : DecryptionFails(c) \/ CallAborts(c)
           \/ UNCHANGED amzVars
    PROVE  Versions'
  <1>0. amzRow \in Row /\ "ERROR" \in Statuses  BY DEF VersionInv, AmazonIInv, Statuses
  <1>1. grantOf' = grantOf
    BY DEF TokenNearsEnd, TokenDies, AmazonRevokes, LockSessionLost, DecryptionFails, CallAborts,
           providerVars, amzVars
  <1>2. amzRow'.version = amzRow.version /\ amzRow'.grant = amzRow.grant
    <2>1. amzRow' = amzRow \/ amzRow' = Neared(amzRow) \/ amzRow' = Statused(amzRow, "ERROR")
      BY DEF TokenNearsEnd, TokenDies, AmazonRevokes, LockSessionLost, DecryptionFails,
             CallAborts, Neared, Statused, amzVars
    <2> QED BY <1>0, <2>1, NearedRow, StatusedRow
  <1>3. amzCall' = amzCall \/ \E c \in AmzCalls : Finish(c)
    BY DEF TokenNearsEnd, TokenDies, AmazonRevokes, LockSessionLost, DecryptionFails, CallAborts,
           amzVars
  <1>4. CASE amzCall' = amzCall
    <2>1. Issued' = Issued  BY <1>1 DEF Issued
    <2> QED BY <1>2, <1>4, <2>1 DEF VersionInv, Versions, VersionsUpTo, NewGrantsOnly
  <1> QED BY <1>1, <1>2, <1>3, <1>4, FinishVersions

LEMMA VersionStep == VersionInv /\ [AmazonNext]_amzVars => VersionInv'
  <1> SUFFICES ASSUME VersionInv, [AmazonNext]_amzVars PROVE VersionInv'  OBVIOUS
  <1>1. AmazonIInv'  BY AmazonStep DEF VersionInv
  <1>2. Versions'
    BY <1>1, CallVersions, WorldVersions DEF AmazonNext
  <1> QED BY <1>1, <1>2 DEF VersionInv

LEMMA VersionInitially == AmazonInit => VersionInv
  <1> SUFFICES ASSUME AmazonInit PROVE VersionInv  OBVIOUS
  <1>1. Issued = 1..0  BY DEF AmazonInit, Issued
  <1>2. \A c \in AmzCalls : amzCall[c].phase = "idle"  BY NoWorkType DEF AmazonInit
  <1>3. amzRow.version = 0 /\ amzRow.grant = 0  BY DEF AmazonInit
  <1>4. VersionsUpTo(0) /\ NewGrantsOnly
    BY <1>1, <1>2, <1>3 DEF VersionsUpTo, NewGrantsOnly
  <1>5. 0 \in 0..MaxTokens  BY AmazonAssumption
  <1> QED BY <1>4, <1>5, AmazonInitially DEF VersionInv, Versions

(* The versions stay within the bound of their type.                       *)
LEMMA VersionsBounded ==
    ASSUME VersionInv
    PROVE  /\ amzRow \in AmzRow /\ amzCall \in [AmzCalls -> AmzCall]
           /\ \A c \in AmzCalls : amzCall[c].seen \in 0..MaxVersion
  <1>1. PICK n \in 0..MaxTokens : VersionsUpTo(n)  BY DEF VersionInv, Versions
  <1>2. /\ n \in Nat /\ n <= MaxTokens /\ MaxTokens \in Nat /\ MaxGrants \in Nat
        /\ amzRow.version \in Nat /\ amzRow.grant \in Nat /\ amzRow.grant <= MaxGrants
        /\ amzRow \in Row
    BY <1>1, AmazonAssumption, RowFields DEF VersionInv, AmazonIInv, Row, GrantsOrNone
  <1>3. amzRow.version \in 0..MaxVersion
    BY <1>1, <1>2 DEF VersionsUpTo, MaxVersion
  <1> DEFINE V == 0..MaxVersion
             G == GrantsOrNone
             T == TokensOrNone
             S == Statuses
             B == BOOLEAN
             P == Phases
  <1>4. AmzRow = RowOf(S, V, G, T, B)
    BY DEF AmzRow, RowOf, Statuses, GrantsOrNone, TokensOrNone
  <1>5. AmzCall = CallOf(P, V, G, T)
    BY DEF AmzCall, CallOf, Phases, GrantsOrNone, TokensOrNone
  <1>6. amzRow \in RowOf(S, V, G, T, B)
    <2>1. amzRow \in RowOf(S, Nat, G, T, B) /\ amzRow.version \in V  BY <1>2, <1>3 DEF Row
    <2> HIDE DEF V, G, T, S, B
    <2> QED BY <2>1 DEF RowOf
  <1>7. \A c \in AmzCalls : amzCall[c].seen \in V /\ amzCall[c] \in CallOf(P, V, G, T)
    <2> TAKE c \in AmzCalls
    <2>1. amzCall[c] \in CallOf(P, Nat, G, T) /\ amzCall[c].seen \in Nat
          /\ amzCall[c].seen <= amzRow.version
      BY Known DEF VersionInv, Call
    <2>2. amzCall[c].seen \in V  BY <1>2, <1>3, <2>1 DEF MaxVersion
    <2> HIDE DEF V, G, T, P
    <2>3. amzCall[c] \in CallOf(P, V, G, T)  BY <2>1, <2>2 DEF CallOf
    <2> QED BY <2>2, <2>3
  <1>8. amzCall \in [AmzCalls -> AmzCall]
    <2>1. amzCall \in [AmzCalls -> Call]  BY DEF VersionInv, AmazonIInv
    <2> HIDE DEF V, G, T, P
    <2> QED BY <1>5, <1>7, <2>1
  <1> QED BY <1>4, <1>6, <1>7, <1>8

\* What the versions do not depend on.
Around ==
    /\ amzLock \in AmzCalls \cup {NoCall}
    /\ deadTokens \in SUBSET Tokens
    /\ mintedAt \in [Tokens -> 0..MaxVersion]
    /\ amzFaults \in 0..MaxAmzFaults

LEMMA AroundStep == VersionInv /\ Around /\ [AmazonNext]_amzVars => Around'
  <1> SUFFICES ASSUME VersionInv, Around, [AmazonNext]_amzVars PROVE Around'  OBVIOUS
  <1>1. ASSUME NEW c \in AmzCalls, AmzCallStep(c) \/ BeginProvision(c) \/ BeginVerify(c)
        PROVE  Around'
    <2>1. UNCHANGED <<deadTokens, amzFaults>>
      BY <1>1 DEF AmzCallStep, BeginProvision, BeginVerify, ProvisionCredentials, AcquireLock,
                  GiveUpLock, Reread, AskLwa, StoreToken, StoreRefusal, SearchOrders,
                  providerVars
    <2>2. amzLock' \in {amzLock, c, NoCall}
      BY <1>1 DEF AmzCallStep, BeginProvision, BeginVerify, ProvisionCredentials, AcquireLock,
                  GiveUpLock, Reread, AskLwa, StoreToken, StoreRefusal, SearchOrders,
                  ReleaseLock
    <2>3. mintedAt' = mintedAt \/ MintToken(c)
      BY <1>1 DEF AmzCallStep, BeginProvision, BeginVerify, ProvisionCredentials,
                  AcquireLock, GiveUpLock, Reread, AskLwa, StoreToken, StoreRefusal,
                  SearchOrders, providerVars
    <2>4. mintedAt' \in [Tokens -> 0..MaxVersion]
      BY <2>3, VersionsBounded DEF MintToken, Around
    <2> QED BY <2>1, <2>2, <2>4 DEF Around
  <1>2. ASSUME LockSessionLost \/ \E c \in AmzCalls : DecryptionFails(c) \/ CallAborts(c)
        PROVE  Around'
    <2>1. AmzFault /\ UNCHANGED <<deadTokens, mintedAt>> /\ amzLock' \in {amzLock, NoCall}
      BY <1>2 DEF LockSessionLost, DecryptionFails, CallAborts, providerVars, ReleaseLock
    <2>2. amzFaults' \in 0..MaxAmzFaults  BY <2>1, AmazonAssumption DEF AmzFault, Around
    <2> QED BY <2>1, <2>2 DEF Around
  <1>3. ASSUME \/ TokenNearsEnd
               \/ \E t \in Tokens : TokenDies(t)
               \/ \E g \in Grants : AmazonRevokes(g)
               \/ UNCHANGED amzVars
        PROVE  Around'
    <2>1. UNCHANGED <<amzLock, mintedAt, amzFaults>> /\ deadTokens' \in SUBSET Tokens
      BY <1>3 DEF TokenNearsEnd, TokenDies, AmazonRevokes, providerVars, amzVars, Around
    <2> QED BY <2>1 DEF Around
  <1> QED BY <1>1, <1>2, <1>3 DEF AmazonNext

(* The connection of an Amazon account is sound for any calls, grants,     *)
(* tokens and faults: the types with their bounds, an access token that    *)
(* comes from the stored refresh token, an expiry that Amazon proved, and  *)
(* one renewal for the calls that meet the same token.                     *)
THEOREM AmazonInvTheorem == AmazonSpec => []AmazonInv
  <1>1. AmazonInit => VersionInv /\ Around
    <2>1. 0 \in 0..MaxVersion /\ 0 \in 0..MaxAmzFaults
      BY AmazonAssumption DEF MaxVersion
    <2> QED BY <2>1, VersionInitially DEF AmazonInit, Around
  <1>2. VersionInv /\ Around /\ [AmazonNext]_amzVars => (VersionInv /\ Around)'
    BY VersionStep, AroundStep
  <1>3. VersionInv /\ Around /\ RenewedOnce => AmazonInv
    <2> SUFFICES ASSUME VersionInv, Around, RenewedOnce PROVE AmazonInv  OBVIOUS
    <2>1. AmazonIInv  BY DEF VersionInv
    <2>2. AmazonTypeOK
      BY <2>1, VersionsBounded
         DEF AmazonTypeOK, Around, AmazonIInv, Origins, GrantsOrNone
    <2>3. AccessMatchesGrant /\ AmazonExpiredIsProven
      BY <2>1 DEF AmazonIInv, RowSound, AccessMatchesGrant, AmazonExpiredIsProven
    <2> QED BY <2>2, <2>3 DEF AmazonInv
  <1> QED BY <1>1, <1>2, <1>3, RenewedOnceTheorem, PTL DEF AmazonSpec

=============================================================================
