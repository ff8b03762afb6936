---------------------------- MODULE AmazonTokens ----------------------------
(***************************************************************************)
(* The connection of one Amazon account: provisioning by an operator, the  *)
(* renewal of its access token under the lock of the account, and the      *)
(* verification that searches orders with the token and renews it once     *)
(* after a 401.  amazon-auth.service.ts, amazon-connection.service.ts and  *)
(* the statements of marketplace-accounts.service.ts they run.  Each await *)
(* is a step; the row may change in between, and provisioning takes no     *)
(* lock.                                                                   *)
(***************************************************************************)
EXTENDS ProviderAnswers, FiniteSets

CONSTANTS
    AmzCalls,      \* requests of the pages and of the scheduler being served
    NoCall,
    MaxGrants,     \* bound: refresh tokens an operator has obtained from Amazon
    MaxTokens,     \* bound: access tokens Amazon issues
    MaxAmzFaults   \* bound: aborted calls, lost locks, unreadable credentials

ASSUME AmazonAssumption ==
    /\ NoCall \notin AmzCalls
    /\ MaxGrants \in Nat \ {0}
    /\ MaxTokens \in Nat \ {0}
    /\ MaxAmzFaults \in Nat

VARIABLES
    amzRow,       \* the columns of marketplace_accounts that matter here
    amzCall,      \* progress of each call
    amzLock,      \* holder of the advisory lock
    revokedGrants,\* at Amazon: refresh tokens it no longer honours
    deadTokens,   \* at Amazon: access tokens it no longer honours
    grantOf,      \* history, per access token: the refresh token it came from, 0 before
    mintedAt,     \* history, per access token: token_version its renewal was based on
    amzFaults

amzVars == <<amzRow, amzCall, amzLock, revokedGrants, deadTokens, grantOf, mintedAt, amzFaults>>

Grants == 1..MaxGrants
Tokens == 1..MaxTokens
MaxVersion == MaxGrants + MaxTokens

\* near: token_expires_at is NULL or within the leeway
AmzRow ==
    [status : {"DISCONNECTED", "CONNECTED", "TOKEN_EXPIRED", "ERROR"},
     grant : 0..MaxGrants, access : 0..MaxTokens, near : BOOLEAN,
     version : 0..MaxVersion]

\* seen and grant: version and refresh token read; token: access token in
\* hand; rejected: the one Amazon answered 401 to
AmzCall ==
    [phase : {"idle", "provisioning", "search", "waiting", "locked", "asked",
              "granted", "refused", "misconfigured"},
     seen : 0..MaxVersion, grant : 0..MaxGrants, token : 0..MaxTokens,
     rejected : 0..MaxTokens]

NoWork == [phase |-> "idle", seen |-> 0, grant |-> 0, token |-> 0, rejected |-> 0]

\* Every variable of the Amazon connection keeps its type.
AmazonTypeOK ==
    /\ amzRow \in AmzRow
    /\ amzCall \in [AmzCalls -> AmzCall]
    /\ amzLock \in AmzCalls \cup {NoCall}
    /\ revokedGrants \in SUBSET Grants
    /\ deadTokens \in SUBSET Tokens
    /\ grantOf \in [Tokens -> 0..MaxGrants]
    /\ mintedAt \in [Tokens -> 0..MaxVersion]
    /\ amzFaults \in 0..MaxAmzFaults

AmazonInit ==
    /\ amzRow = [status |-> "DISCONNECTED", grant |-> 0, access |-> 0,
                 near |-> TRUE, version |-> 0]
    /\ amzCall = [c \in AmzCalls |-> NoWork]
    /\ amzLock = NoCall
    /\ revokedGrants = {}
    /\ deadTokens = {}
    /\ grantOf = [t \in Tokens |-> 0]
    /\ mintedAt = [t \in Tokens |-> 0]
    /\ amzFaults = 0

providerVars == <<revokedGrants, deadTokens, grantOf, mintedAt>>

AmzEligible == amzRow.status = "CONNECTED" /\ amzRow.grant # 0
Issued == {t \in Tokens : grantOf[t] # 0}

Step(c, call) == amzCall' = [amzCall EXCEPT ![c] = call]
Finish(c) == Step(c, NoWork)
ReleaseLock(c) == amzLock' = IF amzLock = c THEN NoCall ELSE amzLock
SearchWith(c, t) == Step(c, [amzCall[c] EXCEPT !.phase = "search", !.token = t])

AmzFault == amzFaults < MaxAmzFaults /\ amzFaults' = amzFaults + 1

-----------------------------------------------------------------------------
(* Provisioning: the row is read, then written if token_version is still   *)
(* the one read.                                                           *)

BeginProvision(c) ==
    /\ amzCall[c] = NoWork
    /\ \E g \in Grants :
           /\ g > amzRow.grant /\ \A d \in AmzCalls : amzCall[d].grant # g
           /\ Step(c, [NoWork EXCEPT !.phase = "provisioning", !.grant = g,
                                     !.seen = amzRow.version])
    /\ UNCHANGED <<amzRow, amzLock, providerVars, amzFaults>>

ProvisionedRow(g) ==
    [status |-> "CONNECTED", grant |-> g, access |-> 0, near |-> TRUE,
     version |-> amzRow.version + 1]

\* Mutant of SameVersion: an answer is written while the account is connected.
StillConnected(c) == amzRow.status = "CONNECTED" \/ amzCall[c].phase = "provisioning"
SameVersion(c) == amzRow.version = amzCall[c].seen

\* a newer version, or a seller that another account already has, changes
\* nothing
ProvisionCredentials(c) ==
    /\ amzCall[c].phase = "provisioning"
    /\ \/ amzRow' = IF SameVersion(c) THEN ProvisionedRow(amzCall[c].grant) ELSE amzRow
       \/ UNCHANGED amzRow
    /\ Finish(c)
    /\ UNCHANGED <<amzLock, providerVars, amzFaults>>

-----------------------------------------------------------------------------
(* Verification and renewal. *)

\* ensureValidAccessToken up to the lock: a token far from its end is used
BeginVerify(c) ==
    /\ amzCall[c] = NoWork
    /\ AmzEligible
    /\ IF amzRow.near THEN Step(c, [NoWork EXCEPT !.phase = "waiting"])
                      ELSE SearchWith(c, amzRow.access)
    /\ UNCHANGED <<amzRow, amzLock, providerVars, amzFaults>>

AcquireLock(c) ==
    /\ amzCall[c].phase = "waiting"
    /\ amzLock = NoCall
    /\ amzLock' = c
    /\ Step(c, [amzCall[c] EXCEPT !.phase = "locked"])
    /\ UNCHANGED <<amzRow, providerVars, amzFaults>>

\* AMAZON_ACCOUNT_BUSY after the wait for the lock
GiveUpLock(c) ==
    /\ amzCall[c].phase = "waiting"
    /\ amzLock # NoCall
    /\ Finish(c)
    /\ UNCHANGED <<amzRow, amzLock, providerVars, amzFaults>>

\* under the lock: somebody else has renewed the token meanwhile
RenewedMeanwhile(c) ==
    IF amzCall[c].rejected = 0
    THEN ~amzRow.near
    ELSE amzRow.access \notin {0, amzCall[c].rejected}

Reread(c) ==
    /\ amzCall[c].phase = "locked"
    /\ \/ /\ ~AmzEligible
          /\ Finish(c)
          /\ ReleaseLock(c)
       \/ /\ AmzEligible /\ RenewedMeanwhile(c)
          /\ SearchWith(c, amzRow.access)
          /\ ReleaseLock(c)
       \/ /\ AmzEligible /\ ~RenewedMeanwhile(c)
          /\ Step(c, [amzCall[c] EXCEPT !.phase = "asked", !.seen = amzRow.version,
                                        !.grant = amzRow.grant])
          /\ UNCHANGED amzLock
    /\ UNCHANGED <<amzRow, providerVars, amzFaults>>

\* what Amazon may answer: a token to an honoured refresh token, a refusal of
\* any other, and any error to either
LwaAnswers(statuses, errors) ==
    {a \in HttpAnswer : a.status \in statuses /\ a.error \in errors /\ a.body = "valid"}

LwaErrors == {400, 401, 429, 500}
HonouredOutcomes ==
    {LwaOutcome(a) : a \in LwaAnswers(LwaErrors \cup {200}, {"invalid_client", "other"})}
RevokedOutcomes ==
    {LwaOutcome(a) : a \in LwaAnswers(LwaErrors, {"invalid_grant", "invalid_client", "other"})}

MintToken(c) ==
    \E t \in Tokens :
        /\ t \notin Issued /\ \A u \in 1..(t - 1) : u \in Issued
        /\ grantOf' = [grantOf EXCEPT ![t] = amzCall[c].grant]
        /\ mintedAt' = [mintedAt EXCEPT ![t] = amzCall[c].seen]
        /\ Step(c, [amzCall[c] EXCEPT !.phase = "granted", !.token = t])

\* forceRefresh up to the answer; only invalid_grant and invalid_client are
\* written to the row, every other failure ends the call and nothing more
AskLwa(c) ==
    /\ amzCall[c].phase = "asked"
    /\ \E outcome \in IF amzCall[c].grant \in revokedGrants
                       THEN RevokedOutcomes ELSE HonouredOutcomes :
           CASE outcome = "success" -> MintToken(c) /\ UNCHANGED amzLock
             [] outcome = "invalid_grant" ->
                    /\ Step(c, [amzCall[c] EXCEPT !.phase = "refused"])
                    /\ UNCHANGED <<amzLock, grantOf, mintedAt>>
             [] outcome = "client_configuration_error" ->
                    /\ Step(c, [amzCall[c] EXCEPT !.phase = "misconfigured"])
                    /\ UNCHANGED <<amzLock, grantOf, mintedAt>>
             [] OTHER ->
                    /\ Finish(c)
                    /\ ReleaseLock(c)
                    /\ UNCHANGED <<grantOf, mintedAt>>
    /\ UNCHANGED <<amzRow, revokedGrants, deadTokens, amzFaults>>

\* an update with the clause token_version = the version read
IfCurrent(c, row) == amzRow' = IF SameVersion(c) THEN row ELSE amzRow

\* applyRefreshedTokens keeps the refresh token: Amazon does not rotate it
RenewedRow(t, g) ==
    [status |-> "CONNECTED", grant |-> g, access |-> t, near |-> FALSE,
     version |-> amzRow.version + 1]

StoreToken(c) ==
    /\ amzCall[c].phase = "granted"
    /\ IfCurrent(c, RenewedRow(amzCall[c].token, amzCall[c].grant))
    /\ IF SameVersion(c) THEN SearchWith(c, amzCall[c].token) ELSE Finish(c)
    /\ ReleaseLock(c)
    /\ UNCHANGED <<providerVars, amzFaults>>

StoreRefusal(c) ==
    /\ amzCall[c].phase \in {"refused", "misconfigured"}
    /\ IfCurrent(c, [amzRow EXCEPT !.status =
           IF amzCall[c].phase = "refused" THEN "TOKEN_EXPIRED" ELSE "ERROR"])
    /\ Finish(c)
    /\ ReleaseLock(c)
    /\ UNCHANGED <<providerVars, amzFaults>>

SearchOutcomes(statuses) == {SearchOutcome(Sound(s)) : s \in statuses}
LiveTokenOutcomes == SearchOutcomes({200, 429, 500})
DeadTokenOutcomes == SearchOutcomes({401, 429, 500})

\* the search of verify: one 401 leads to refreshAccessTokenAfterUnauthorized,
\* a second one and every other outcome is the result
SearchOrders(c) ==
    /\ amzCall[c].phase = "search"
    /\ \E outcome \in IF amzCall[c].token \in deadTokens
                       THEN DeadTokenOutcomes ELSE LiveTokenOutcomes :
           IF outcome = "unauthorized" /\ amzCall[c].rejected = 0 /\ AmzEligible
           THEN Step(c, [NoWork EXCEPT !.phase = "waiting",
                                       !.rejected = amzCall[c].token])
           ELSE Finish(c)
    /\ UNCHANGED <<amzRow, amzLock, providerVars, amzFaults>>

\* a stored credential that was read, under the lock or before it, cannot be
\* decrypted: markError
DecryptionFails(c) ==
    /\ AmzEligible
    /\ \/ amzCall[c].phase = "locked"
       \/ amzCall[c] = NoWork /\ ~amzRow.near
    /\ AmzFault
    /\ amzRow' = [amzRow EXCEPT !.status = "ERROR"]
    /\ Finish(c)
    /\ ReleaseLock(c)
    /\ UNCHANGED providerVars

-----------------------------------------------------------------------------
(* The world around. *)

TokenNearsEnd ==
    /\ amzRow.access # 0 /\ ~amzRow.near
    /\ amzRow' = [amzRow EXCEPT !.near = TRUE]
    /\ UNCHANGED <<amzCall, amzLock, providerVars, amzFaults>>

TokenDies(t) ==
    /\ t \in Issued \ deadTokens
    /\ deadTokens' = deadTokens \cup {t}
    /\ UNCHANGED <<amzRow, amzCall, amzLock, revokedGrants, grantOf, mintedAt, amzFaults>>

AmazonRevokes(g) ==
    /\ g \in Grants \ revokedGrants /\ g <= amzRow.grant
    /\ revokedGrants' = revokedGrants \cup {g}
    /\ UNCHANGED <<amzRow, amzCall, amzLock, deadTokens, grantOf, mintedAt, amzFaults>>

\* a statement fails, or the process stops: the lock goes with the call
CallAborts(c) ==
    /\ amzCall[c].phase # "idle"
    /\ AmzFault
    /\ Finish(c)
    /\ ReleaseLock(c)
    /\ UNCHANGED <<amzRow, providerVars>>

\* the database session that holds the lock breaks; the call does not notice
LockSessionLost ==
    /\ amzLock # NoCall
    /\ AmzFault
    /\ amzLock' = NoCall
    /\ UNCHANGED <<amzRow, amzCall, providerVars>>

AmzCallStep(c) ==
    \/ ProvisionCredentials(c)
    \/ AcquireLock(c)
    \/ GiveUpLock(c)
    \/ Reread(c)
    \/ AskLwa(c)
    \/ StoreToken(c)
    \/ StoreRefusal(c)
    \/ SearchOrders(c)

AmazonNext ==
    \/ \E c \in AmzCalls : BeginProvision(c)
    \/ \E c \in AmzCalls : BeginVerify(c)
    \/ \E c \in AmzCalls : AmzCallStep(c)
    \/ \E c \in AmzCalls : DecryptionFails(c)
    \/ \E c \in AmzCalls : CallAborts(c)
    \/ TokenNearsEnd
    \/ \E t \in Tokens : TokenDies(t)
    \/ \E g \in Grants : AmazonRevokes(g)
    \/ LockSessionLost

\* every promise of a call is settled; nobody has to start one
AmazonFairness == \A c \in AmzCalls : WF_amzVars(AmzCallStep(c))

AmazonSpec == AmazonInit /\ [][AmazonNext]_amzVars

-----------------------------------------------------------------------------
(* The stored access token comes from the stored refresh token: the answer *)
(* of Amazon to an older one, arriving after a new provisioning, is        *)
(* dropped (amazon-auth.service.ts:210-236).                               *)
AccessMatchesGrant ==
    amzRow.access # 0 => grantOf[amzRow.access] = amzRow.grant

(* An account is TOKEN_EXPIRED only if Amazon no longer honours the very   *)
(* refresh token it holds: a transient failure, a broken answer or a late  *)
(* refusal of an older one never makes the user authorise again.           *)
AmazonExpiredIsProven ==
    amzRow.status = "TOKEN_EXPIRED" => amzRow.grant \in revokedGrants

(* Calls that meet the same expired or rejected token renew it once: while *)
(* no fault has happened no two access tokens were asked for on the basis  *)
(* of one version of the row (the reread under the lock).                  *)
RenewedOnce ==
    amzFaults = 0 =>
        \A t, u \in Issued : mintedAt[t] = mintedAt[u] => t = u

(* The connection of an Amazon account stays sound: the types, and the     *)
(* three facts above.                                                      *)
AmazonInv ==
    /\ AmazonTypeOK
    /\ AccessMatchesGrant
    /\ AmazonExpiredIsProven
    /\ RenewedOnce

(* Every provisioning and every verification ends, whatever Amazon         *)
(* answers, and the lock of the account is free again after it.            *)
AmazonCallsEnd ==
    \A c \in AmzCalls :
        []<>(amzCall[c] = NoWork /\ amzLock # c)
=============================================================================
