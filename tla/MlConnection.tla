---------------------------- MODULE MlConnection ----------------------------
(***************************************************************************)
(* The connection of one Mercado Livre account: the row of                 *)
(* marketplace_accounts with its tokens and token_version, the attempts of *)
(* oauth_authorization_requests, the advisory lock of the account, and the *)
(* calls that run side by side on the instances of the backend: token      *)
(* requests, manual recoveries and OAuth callbacks, besides the job that   *)
(* cleans up and renews.                                                   *)
(*                                                                         *)
(* Time has no clock: each deadline is a flag that some step sets (a token *)
(* nears its expiry, a retry is due, the circuit cools, a link lapses), so *)
(* deadlines may pass in any order.  A request to the provider is sent,    *)
(* answered, and acted upon in three steps.                                *)
(***************************************************************************)
EXTENDS Naturals, FiniteSets

CONSTANTS
    Users,        \* concurrent calls made for users and synchronisations
    Job,          \* the call of the renewal job
    Instances,    \* processes of the backend
    HomeOf,       \* the process each call runs in
    NoCaller,     \* the lock is free
    Starts,       \* how the account may be found: see Init
    LostAnswers,  \* what the client may see of a request the provider served
    MaxRequests,  \* bound: connection attempts
    MaxTokens,    \* bound: tokens the provider issues
    MaxCalls,     \* bound: calls of Users
    MaxFaults     \* bound: failures, crashes and lost connections

Callers == Users \cup {Job}
Requests == 1..MaxRequests
Tokens == 1..MaxTokens

Deferrals == {"temporary_failure", "outcome_unknown", "invalid_client"}

ASSUME ConnectionAssumption ==
    /\ {MaxRequests, MaxTokens, MaxCalls, MaxFaults} \subseteq Nat
    /\ MaxTokens > 0
    /\ Job \notin Users
    /\ NoCaller \notin Callers
    /\ HomeOf \in [Callers -> Instances]
    /\ Starts \subseteq {"new", "connected", "legacy"}
    /\ LostAnswers \subseteq {"temporary_failure", "outcome_unknown"}

VARIABLES
    acct,      \* the account's row
    requests,  \* oauth_authorization_requests of the account
    lock,      \* who holds the advisory lock
    calls,     \* where each call is
    circuit,   \* instances whose invalid_client circuit is open
    cron,      \* what the job does next
    age,       \* of each token: how far it is from its expiry
    issued,    \* how many tokens the provider issued
    origin,    \* the attempt each token descends from, 0 for the first one
    accepted,  \* refresh tokens the provider still accepts
    revoked,   \* the seller withdrew the authorisation at some time
    budget     \* calls and failures still allowed

vars == <<acct, requests, lock, calls, circuit, cron, age, issued, origin,
          accepted, revoked, budget>>

Row ==
    [status : {"DISCONNECTED", "CONNECTED", "TOKEN_EXPIRED", "ERROR"},
     version : Nat, token : 0..MaxTokens, known : BOOLEAN, retryLater : BOOLEAN,
     failure : {"none", "recoverable", "rejected", "decryption", "taken"}]

Active == {"PENDING", "PROCESSING"}
Closed == {"SUCCESS", "FAILED", "EXPIRED"}
Attempt == [status : {"ABSENT"} \cup Active \cup Closed, late : BOOLEAN]

\* waiting: for the lock; locked: has it; sent, answered: a request to the
\* provider; marking: about to write ERROR; refused: about to fail its attempt.
Phases == {"idle", "waiting", "locked", "sent", "answered", "marking", "refused"}
Answers == {"none", "success", "invalid_grant", "circuit_open"} \cup Deferrals

Call ==
    [phase : Phases, kind : {"ensure", "recover", "callback"}, version : Nat,
     token : 0..MaxTokens, request : 0..MaxRequests, answer : Answers,
     code : {"none", "decryption", "taken"}]

Idle ==
    [phase |-> "idle", kind |-> "ensure", version |-> 0, token |-> 0,
     request |-> 0, answer |-> "none", code |-> "none"]

---------------------------------------------------------------------------
(* What the code asks of the state                                         *)

Eligible == acct.status = "CONNECTED" /\ acct.token # 0
Recoverable == acct.status = "ERROR" /\ acct.failure = "recoverable" /\ acct.token # 0
WithinLeeway == acct.token # 0 /\ age[acct.token] = "fresh"

At(c, phase) == calls[c].phase = phase
Is(c, kind) == calls[c].kind = kind
\* The compare-and-set of every write to the account: WHERE token_version = $n
Current(c) == calls[c].version = acct.version

Spend(what) ==
    /\ \A b \in what : budget[b] > 0
    /\ budget' = [b \in DOMAIN budget |-> budget[b] - (IF b \in what THEN 1 ELSE 0)]
Fault == Spend({"faults"})

Go(c, record) == calls' = [calls EXCEPT ![c] = record]
Freed(c) == IF lock = c THEN NoCaller ELSE lock
End(c) ==
    /\ Go(c, Idle)
    /\ lock' = Freed(c)

\* The row as the call read it, to be used after the next await.
Read(c) == [calls[c] EXCEPT !.version = acct.version, !.token = acct.token]
Unreadable(snapshot) == [snapshot EXCEPT !.phase = "marking", !.code = "decryption"]

\* decryptOrMarkError: the credential is readable and the call ends, or it is
\* not and the account will be marked.
EndOrDecryptionFails(c, snapshot) ==
    \/ End(c) /\ UNCHANGED budget
    \/ Fault /\ Go(c, Unreadable(snapshot)) /\ UNCHANGED lock

provider == <<age, issued, origin, accepted, revoked>>

---------------------------------------------------------------------------
(* Token requests and recoveries                                           *)

\* Fast path of ensureValidAccessToken: no lock while the token is good.
BeginEnsure(c) ==
    LET snapshot == [Idle EXCEPT !.version = acct.version, !.token = acct.token] IN
    IF WithinLeeway
    THEN Go(c, Unreadable(snapshot))
    ELSE Go(c, [snapshot EXCEPT !.phase = "waiting"])

EnsureValidAccessToken(c) ==
    /\ c \in Users /\ At(c, "idle")
    /\ Eligible
    /\ Spend(IF WithinLeeway THEN {"calls", "faults"} ELSE {"calls"})
    /\ BeginEnsure(c)
    /\ UNCHANGED <<acct, requests, lock, circuit, cron, provider>>

RecoverConnection(c) ==
    /\ c \in Users /\ At(c, "idle")
    /\ Recoverable
    /\ Spend({"calls"})
    /\ Go(c, [Idle EXCEPT !.phase = "waiting", !.kind = "recover"])
    /\ UNCHANGED <<acct, requests, lock, circuit, cron, provider>>

\* tryAcquire gave up: ACCOUNT_BUSY.
AccountBusy(c) ==
    /\ At(c, "waiting") /\ lock # NoCaller
    /\ IF Is(c, "callback") THEN Go(c, [calls[c] EXCEPT !.phase = "refused"]) ELSE Go(c, Idle)
    /\ UNCHANGED <<acct, requests, lock, circuit, cron, provider, budget>>

\* Mutant of TryAcquire: a second holder.
TryAcquireShared(c) ==
    /\ At(c, "waiting")
    /\ lock' = c
    /\ Go(c, [calls[c] EXCEPT !.phase = "locked"])
    /\ UNCHANGED <<acct, requests, circuit, cron, provider, budget>>

TryAcquire(c) ==
    /\ At(c, "waiting") /\ lock = NoCaller
    /\ lock' = c
    /\ Go(c, [calls[c] EXCEPT !.phase = "locked"])
    /\ UNCHANGED <<acct, requests, circuit, cron, provider, budget>>

\* The row is read again under the lock: nothing to renew any more, not yet,
\* or not while the circuit is open; else the refresh token goes out.
MayAttempt(c) == IF Is(c, "recover") THEN Recoverable ELSE Eligible /\ ~WithinLeeway
Forced(c) == Is(c, "recover")

AttemptRefresh(c) ==
    /\ At(c, "locked") /\ ~Is(c, "callback")
    /\ \/ /\ ~MayAttempt(c)
          /\ IF Is(c, "ensure") /\ Eligible
             THEN EndOrDecryptionFails(c, Read(c))
             ELSE End(c) /\ UNCHANGED budget
       \/ /\ MayAttempt(c) /\ ~Forced(c) /\ acct.retryLater
          /\ EndOrDecryptionFails(c, Read(c))
       \/ /\ MayAttempt(c) /\ ~Forced(c) /\ ~acct.retryLater /\ HomeOf[c] \in circuit
          /\ Go(c, [Read(c) EXCEPT !.phase = "answered", !.answer = "circuit_open"])
          /\ UNCHANGED <<lock, budget>>
       \/ /\ MayAttempt(c)
          /\ Forced(c) \/ ~(acct.retryLater \/ HomeOf[c] \in circuit)
          /\ \/ Go(c, [Read(c) EXCEPT !.phase = "sent"]) /\ UNCHANGED budget
             \/ Fault /\ Go(c, Unreadable(Read(c)))
          /\ UNCHANGED lock
    /\ UNCHANGED <<acct, requests, circuit, cron, provider>>

Answered(c, answer) == [calls[c] EXCEPT !.phase = "answered", !.answer = answer]

\* The provider: a refresh token is good for one use, and the answer that
\* carries the next one may be lost.
ProviderAccepts(c) ==
    /\ At(c, "sent") /\ ~Is(c, "callback")
    /\ calls[c].token \in accepted /\ issued < MaxTokens
    /\ issued' = issued + 1
    /\ origin' = [origin EXCEPT ![issued'] = origin[calls[c].token]]
    /\ accepted' = (accepted \ {calls[c].token}) \cup {issued'}
    /\ \/ Go(c, [Answered(c, "success") EXCEPT !.token = issued']) /\ UNCHANGED budget
       \/ Fault /\ \E answer \in LostAnswers : Go(c, Answered(c, answer))
    /\ UNCHANGED <<acct, requests, lock, circuit, cron, age, revoked>>

ProviderRejects(c) ==
    /\ At(c, "sent") /\ ~Is(c, "callback")
    /\ \/ /\ calls[c].token \notin accepted
          /\ Go(c, Answered(c, "invalid_grant")) /\ UNCHANGED budget
       \/ /\ Fault
          /\ \E answer \in Deferrals : Go(c, Answered(c, answer))
    /\ UNCHANGED <<acct, requests, lock, circuit, cron, provider>>

\* applyRefreshedTokens; success also closes the circuit of the instance.
RefreshedRow(c) ==
    [status |-> "CONNECTED", version |-> acct.version + 1, token |-> calls[c].token,
     known |-> acct.known, retryLater |-> FALSE, failure |-> "none"]

\* Mutant of ApplyRefreshedTokens: without the version check.
ApplyRefreshedTokensBlindly(c) ==
    /\ At(c, "answered") /\ ~Is(c, "callback") /\ calls[c].answer = "success"
    /\ acct' = RefreshedRow(c)
    /\ circuit' = circuit \ {HomeOf[c]}
    /\ End(c)
    /\ UNCHANGED <<requests, cron, provider, budget>>

ApplyRefreshedTokens(c) ==
    /\ At(c, "answered") /\ ~Is(c, "callback") /\ calls[c].answer = "success"
    /\ acct' = IF Current(c) THEN RefreshedRow(c) ELSE acct
    /\ circuit' = IF Current(c) THEN circuit \ {HomeOf[c]} ELSE circuit
    /\ End(c)
    /\ UNCHANGED <<requests, cron, provider, budget>>

RejectedRow == [acct EXCEPT !.status = "TOKEN_EXPIRED", !.failure = "rejected", !.retryLater = FALSE]

\* Mutant of MarkTokenExpired: without the version check.
MarkTokenExpiredBlindly(c) ==
    /\ At(c, "answered") /\ calls[c].answer = "invalid_grant"
    /\ acct' = RejectedRow
    /\ End(c)
    /\ UNCHANGED <<requests, circuit, cron, provider, budget>>

MarkTokenExpired(c) ==
    /\ At(c, "answered") /\ calls[c].answer = "invalid_grant"
    /\ acct' = IF Current(c) THEN RejectedRow ELSE acct
    /\ End(c)
    /\ UNCHANGED <<requests, circuit, cron, provider, budget>>

\* Mutant of DeferredRow: a code outside the vocabulary of failure codes.
DeferredRowUnclassified == [acct EXCEPT !.failure = "other", !.retryLater = TRUE]

\* markRefreshDeferred: neither the status nor the tokens change.
DeferredRow == [acct EXCEPT !.failure = "recoverable", !.retryLater = TRUE]

\* A token request then returns the current token, or throws when it has expired.
DeferRefresh(c) ==
    /\ At(c, "answered") /\ calls[c].answer \in Deferrals \cup {"circuit_open"}
    /\ acct' = IF Current(c) THEN DeferredRow ELSE acct
    /\ circuit' = IF calls[c].answer = "invalid_client" THEN circuit \cup {HomeOf[c]} ELSE circuit
    /\ IF Forced(c) THEN End(c) /\ UNCHANGED budget ELSE EndOrDecryptionFails(c, calls[c])
    /\ UNCHANGED <<requests, cron, provider>>

MarkError(c) ==
    /\ At(c, "marking")
    /\ acct' = IF Current(c)
               THEN [acct EXCEPT !.status = "ERROR", !.failure = calls[c].code]
               ELSE acct
    /\ End(c)
    /\ UNCHANGED <<requests, circuit, cron, provider, budget>>

---------------------------------------------------------------------------
(* Connection attempts                                                     *)

WithStatus(status) == {r \in Requests : requests[r].status = status}
Finished(r, status) == [requests EXCEPT ![r] = [status |-> status, late |-> FALSE]]

\* createPending: the unique index on active attempts makes it one step.
StartConnection(r) ==
    /\ requests[r].status = "ABSENT"
    /\ \A q \in Requests : q < r => requests[q].status # "ABSENT"
    /\ WithStatus("PROCESSING") = {}
    /\ requests' =
         [q \in Requests |->
            IF q = r THEN [status |-> "PENDING", late |-> FALSE]
            ELSE IF requests[q].status = "PENDING" THEN [status |-> "EXPIRED", late |-> FALSE]
            ELSE requests[q]]
    /\ UNCHANGED <<acct, lock, calls, circuit, cron, provider, budget>>

\* The seller comes back with a code, or with an error (access_denied).
ClaimByState(c, r) ==
    /\ c \in Users /\ At(c, "idle")
    /\ requests[r].status = "PENDING" /\ ~requests[r].late
    /\ requests' = Finished(r, "PROCESSING")
    /\ \E phase \in {"waiting", "refused"} :
         Go(c, [Idle EXCEPT !.phase = phase, !.kind = "callback", !.request = r])
    /\ UNCHANGED <<acct, lock, circuit, cron, provider, budget>>

\* The version is read and the code verifier decrypted under the lock.
SendCode(c) ==
    /\ At(c, "locked") /\ Is(c, "callback")
    /\ \/ Go(c, [calls[c] EXCEPT !.phase = "sent", !.version = acct.version]) /\ UNCHANGED budget
       \/ Fault /\ Go(c, [calls[c] EXCEPT !.phase = "refused"])
    /\ UNCHANGED <<acct, requests, lock, circuit, cron, provider>>

Refused(c, code) == [calls[c] EXCEPT !.phase = "refused", !.code = code]

\* exchangeCode and fetchIdentity.  A new authorisation may end the earlier one.
ExchangeSucceeds(c) ==
    /\ At(c, "sent") /\ Is(c, "callback") /\ issued < MaxTokens
    /\ issued' = issued + 1
    /\ origin' = [origin EXCEPT ![issued'] = calls[c].request]
    /\ \E kept \in {{}, accepted} : accepted' = kept \cup {issued'}
    /\ \/ Go(c, [Answered(c, "success") EXCEPT !.token = issued']) /\ UNCHANGED budget
       \/ Fault /\ Go(c, Refused(c, "none"))
    /\ UNCHANGED <<acct, requests, lock, circuit, cron, age, revoked>>

\* The code is refused, or another seller signed in: one this account is not,
\* or, for an account that has none yet, one that another account has.
ExchangeFails(c) ==
    /\ At(c, "sent") /\ Is(c, "callback")
    /\ \E code \in IF acct.known THEN {"none"} ELSE {"none", "taken"} : Go(c, Refused(c, code))
    /\ UNCHANGED <<acct, requests, lock, circuit, cron, provider, budget>>

ConnectedRow(c) ==
    [status |-> "CONNECTED", version |-> acct.version + 1, token |-> calls[c].token,
     known |-> TRUE, retryLater |-> acct.retryLater, failure |-> "none"]

\* Mutant of ApplyConnection: the account is written although the attempt is closed.
ApplyConnectionAlone(c) ==
    /\ At(c, "answered") /\ Is(c, "callback")
    /\ IF Current(c)
       THEN /\ acct' = ConnectedRow(c)
            /\ requests' = IF requests[calls[c].request].status = "PROCESSING"
                           THEN Finished(calls[c].request, "SUCCESS") ELSE requests
            /\ End(c)
       ELSE /\ Go(c, Refused(c, "none"))
            /\ UNCHANGED <<acct, requests, lock>>
    /\ UNCHANGED <<circuit, cron, provider, budget>>

\* Mutant of ApplyConnection: the attempt is not asked whether it is still open.
ApplyConnectionReopening(c) ==
    /\ At(c, "answered") /\ Is(c, "callback")
    /\ IF Current(c)
       THEN /\ acct' = ConnectedRow(c)
            /\ requests' = Finished(calls[c].request, "SUCCESS")
            /\ End(c)
       ELSE /\ Go(c, Refused(c, "none"))
            /\ UNCHANGED <<acct, requests, lock>>
    /\ UNCHANGED <<circuit, cron, provider, budget>>

\* The account and its attempt change in one transaction, or neither does.
ApplyConnection(c) ==
    /\ At(c, "answered") /\ Is(c, "callback")
    /\ IF Current(c) /\ requests[calls[c].request].status = "PROCESSING"
       THEN /\ acct' = ConnectedRow(c)
            /\ requests' = Finished(calls[c].request, "SUCCESS")
            /\ End(c)
       ELSE /\ Go(c, Refused(c, "none"))
            /\ UNCHANGED <<acct, requests, lock>>
    /\ UNCHANGED <<circuit, cron, provider, budget>>

\* The update violates the index on sellers: another account was faster.
SellerTaken(c) ==
    /\ At(c, "answered") /\ Is(c, "callback")
    /\ Current(c) /\ ~acct.known
    /\ Go(c, Refused(c, "taken"))
    /\ UNCHANGED <<acct, requests, lock, circuit, cron, provider, budget>>

FinalizeFailure(c) ==
    /\ At(c, "refused")
    /\ requests' = IF requests[calls[c].request].status = "PROCESSING"
                   THEN Finished(calls[c].request, "FAILED") ELSE requests
    /\ IF calls[c].code = "taken"
       THEN Go(c, [calls[c] EXCEPT !.phase = "marking"]) /\ UNCHANGED lock
       ELSE End(c)
    /\ UNCHANGED <<acct, circuit, cron, provider, budget>>

---------------------------------------------------------------------------
(* The job of every five minutes                                           *)

\* sweepExpiredPending, and recoverStaleProcessing when the lock is free.
Cleaned ==
    [r \in Requests |->
       IF requests[r].late /\ requests[r].status = "PENDING"
       THEN [status |-> "EXPIRED", late |-> FALSE]
       ELSE IF requests[r].late /\ requests[r].status = "PROCESSING" /\ lock = NoCaller
       THEN [status |-> "FAILED", late |-> FALSE]
       ELSE requests[r]]

CleanUp ==
    /\ At(Job, "idle") /\ cron = "cleanup"
    /\ requests' = Cleaned
    /\ cron' = "renew"
    /\ UNCHANGED <<acct, lock, calls, circuit, provider, budget>>

\* findConnectedDueForRenewal and ensureValidAccessToken.
RenewDueAccount ==
    /\ At(Job, "idle") /\ cron = "renew"
    /\ cron' = "cleanup"
    /\ IF Eligible /\ ~WithinLeeway THEN BeginEnsure(Job) ELSE UNCHANGED calls
    /\ UNCHANGED <<acct, requests, lock, circuit, provider, budget>>

---------------------------------------------------------------------------
(* Time and the environment                                                *)

\* Bound on the horizon: there are tokens left for every attempt and renewal.
TokenNears(t) ==
    /\ t = acct.token /\ age[t] = "fresh"
    /\ issued + MaxRequests < MaxTokens
    /\ age' = [age EXCEPT ![t] = "near"]
    /\ UNCHANGED <<acct, requests, lock, calls, circuit, cron, issued, origin, accepted, revoked, budget>>

RetryDue ==
    /\ acct.retryLater
    /\ acct' = [acct EXCEPT !.retryLater = FALSE]
    /\ UNCHANGED <<requests, lock, calls, circuit, cron, provider, budget>>

CircuitCools(i) ==
    /\ i \in circuit
    /\ circuit' = circuit \ {i}
    /\ UNCHANGED <<acct, requests, lock, calls, cron, provider, budget>>

\* A link is good for ten minutes; a callback is stale after two, which is
\* more than a call that works on it can take, unless it is held up.
Working(r) == \E c \in Callers : ~At(c, "idle") /\ calls[c].request = r

AttemptIsLate(r) ==
    /\ requests[r].status \in Active /\ ~requests[r].late
    /\ IF requests[r].status = "PROCESSING" /\ Working(r) THEN Fault ELSE UNCHANGED budget
    /\ requests' = [requests EXCEPT ![r].late = TRUE]
    /\ UNCHANGED <<acct, lock, calls, circuit, cron, provider>>

SellerRevokes ==
    /\ ~revoked
    /\ revoked' = TRUE
    /\ accepted' = {}
    /\ UNCHANGED <<acct, requests, lock, calls, circuit, cron, age, issued, origin, budget>>

\* The connection that holds the lock breaks; the call does not notice.
LoseLock ==
    /\ Fault
    /\ lock # NoCaller
    /\ lock' = NoCaller
    /\ UNCHANGED <<acct, requests, calls, circuit, cron, provider>>

\* Any statement may throw: the call ends, handleCallback swallows the error,
\* and what was not yet written never is.
Throws(c) ==
    /\ Fault
    /\ ~At(c, "idle")
    /\ End(c)
    /\ UNCHANGED <<acct, requests, circuit, cron, provider>>

Crash(i) ==
    /\ Fault
    /\ calls' = [c \in Callers |-> IF HomeOf[c] = i THEN Idle ELSE calls[c]]
    /\ lock' = IF lock # NoCaller /\ HomeOf[lock] = i THEN NoCaller ELSE lock
    /\ circuit' = circuit \ {i}
    /\ UNCHANGED <<acct, requests, cron, provider>>

---------------------------------------------------------------------------
FreshRow ==
    [status |-> "DISCONNECTED", version |-> 0, token |-> 0, known |-> FALSE,
     retryLater |-> FALSE, failure |-> "none"]

\* A new account, a connected one, or one left in ERROR by the release that
\* wrote REFRESH_RESULT_UNKNOWN.
Init ==
    /\ \/ "new" \in Starts /\ acct = FreshRow /\ accepted = {}
       \/ /\ "connected" \in Starts
          /\ acct = [FreshRow EXCEPT !.status = "CONNECTED", !.token = 1, !.known = TRUE]
          /\ accepted = {1}
       \/ /\ "legacy" \in Starts
          /\ acct = [FreshRow EXCEPT !.status = "ERROR", !.token = 1, !.known = TRUE,
                                     !.failure = "recoverable"]
          /\ accepted \in {{}, {1}}
    /\ requests = [r \in Requests |-> [status |-> "ABSENT", late |-> FALSE]]
    /\ lock = NoCaller
    /\ calls = [c \in Callers |-> Idle]
    /\ circuit = {}
    /\ cron = "cleanup"
    /\ age = [t \in Tokens |-> "fresh"]
    /\ issued = 1
    /\ origin = [t \in Tokens |-> 0]
    /\ revoked = FALSE
    /\ budget = [calls |-> MaxCalls, faults |-> MaxFaults]

\* What a call that has begun does next.
CallStep(c) ==
    \/ AccountBusy(c)
    \/ TryAcquire(c)
    \/ AttemptRefresh(c)
    \/ ProviderAccepts(c)
    \/ ProviderRejects(c)
    \/ ApplyRefreshedTokens(c)
    \/ MarkTokenExpired(c)
    \/ DeferRefresh(c)
    \/ MarkError(c)
    \/ SendCode(c)
    \/ ExchangeSucceeds(c)
    \/ ExchangeFails(c)
    \/ ApplyConnection(c)
    \/ SellerTaken(c)
    \/ FinalizeFailure(c)

UserStep ==
    \/ \E c \in Users : EnsureValidAccessToken(c) \/ RecoverConnection(c)
    \/ \E r \in Requests : StartConnection(r)
    \/ \E c \in Users, r \in Requests : ClaimByState(c, r)

TimeStep ==
    \/ \E t \in Tokens : TokenNears(t)
    \/ RetryDue
    \/ \E i \in Instances : CircuitCools(i)
    \/ \E r \in Requests : AttemptIsLate(r)

Disturbance ==
    \/ SellerRevokes
    \/ LoseLock
    \/ \E c \in Callers : Throws(c)
    \/ \E i \in Instances : Crash(i)

Next ==
    \/ UserStep
    \/ \E c \in Callers : CallStep(c)
    \/ CleanUp
    \/ RenewDueAccount
    \/ TimeStep
    \/ Disturbance

Spec == Init /\ [][Next]_vars

\* Calls time out or go on, the job is scheduled whatever the configuration,
\* and deadlines pass.
Fairness ==
    /\ \A c \in Callers : WF_vars(CallStep(c))
    /\ WF_vars(CleanUp)
    /\ WF_vars(RenewDueAccount)
    /\ WF_vars(RetryDue)
    /\ \A i \in Instances : WF_vars(CircuitCools(i))
    /\ \A r \in Requests : WF_vars(AttemptIsLate(r))

FairSpec == Spec /\ Fairness

---------------------------------------------------------------------------
(* Properties                                                              *)

\* Every variable has its type.
TypeOK ==
    /\ acct \in Row
    /\ requests \in [Requests -> Attempt]
    /\ lock \in Callers \cup {NoCaller}
    /\ calls \in [Callers -> Call]
    /\ circuit \subseteq Instances
    /\ cron \in {"cleanup", "renew"}
    /\ age \in [Tokens -> {"fresh", "near"}]
    /\ issued \in Tokens
    /\ origin \in [Tokens -> 0..MaxRequests]
    /\ accepted \subseteq 1..issued
    /\ revoked \in BOOLEAN
    /\ budget \in [{"calls", "faults"} -> Nat]

\* A late answer, or one of a call that lost its lock, never expires a
\* connection that still works: the seller is asked to reconnect only when
\* the provider refuses the very refresh token that is stored.
ExpiredIsConfirmed == acct.status = "TOKEN_EXPIRED" => acct.token \notin accepted

\* The tokens of the account are never replaced by ones issued earlier,
\* whatever renewals and callbacks overlap.
TokensNeverRegress == [][acct'.token # acct.token => acct'.token > acct.token]_acct

\* The tokens of the account go back to an attempt that ended in SUCCESS: a
\* callback that failed, or was given up by the job, leaves nothing behind.
TokenFromSuccess ==
    acct.token # 0 /\ origin[acct.token] # 0 => requests[origin[acct.token]].status = "SUCCESS"

\* A closed attempt is never opened again nor closed otherwise.
ClosedAttemptsFrozen ==
    [][\A r \in Requests : requests[r].status \in Closed => requests'[r] = requests[r]]_requests

\* Renewals and callbacks of several instances never cost the account its
\* authorisation: without failures, and unless the seller revokes it, the
\* provider accepts what is stored once no call is between the two.
Between(c) == calls[c].phase \in {"answered", "refused"}
GrantNotLost ==
    /\ budget.faults = MaxFaults
    /\ ~revoked
    /\ acct.status = "CONNECTED"
    /\ \A c \in Callers : ~Between(c)
    => acct.token \in accepted

\* An active attempt, which keeps new ones out, ends: also after a crash.
AttemptsEnd == \A r \in Requests : []<>(requests[r].status \notin Active)

\* The access token of a connected account is renewed in time, after failures
\* too, unless the provider or the credentials end the connection.
RenewalHappens ==
    (acct.status = "CONNECTED" /\ ~WithinLeeway) ~>
        \/ acct.status = "CONNECTED" /\ WithinLeeway
        \/ acct.failure \in {"rejected", "decryption", "taken"}

\* http.client: after a network failure it is always safe to send the same
\* refresh token again; so that only the seller can end the authorisation.
ResendIsSafe == acct.status = "TOKEN_EXPIRED" => revoked

===========================================================================
