------------------------- MODULE MlConnectionProofs -------------------------
(***************************************************************************)
(* Theorems about the connection of an account, for any number of calls,   *)
(* instances, attempts, tokens and failures.                               *)
(***************************************************************************)
EXTENDS MlConnection, TLAPS

---------------------------------------------------------------------------
(* Types                                                                   *)

LEMMA RowsTyped ==
  ASSUME TypeOK, ConnectionAssumption, NEW c \in Callers
  PROVE  /\ RefreshedRow(c) \in Row
         /\ RejectedRow \in Row
         /\ DeferredRow \in Row
         /\ ConnectedRow(c) \in Row
         /\ [acct EXCEPT !.retryLater = FALSE] \in Row
         /\ [acct EXCEPT !.status = "ERROR", !.failure = calls[c].code] \in Row
<1>1. calls[c] \in Call /\ acct \in Row
  BY DEF TypeOK
<1>2. calls[c].token \in 0..MaxTokens /\ calls[c].code \in {"none", "decryption", "taken"}
  BY <1>1 DEF Call
<1>3. RefreshedRow(c) \in Row
  BY <1>1, <1>2 DEF RefreshedRow, Row
<1>4. RejectedRow \in Row
  BY <1>1 DEF RejectedRow, Row
<1>5. DeferredRow \in Row
  BY <1>1 DEF DeferredRow, Row
<1>6. ConnectedRow(c) \in Row
  BY <1>1, <1>2 DEF ConnectedRow, Row
<1>7. [acct EXCEPT !.retryLater = FALSE] \in Row
  BY <1>1 DEF Row
<1>8. [acct EXCEPT !.status = "ERROR", !.failure = calls[c].code] \in Row
  BY <1>1, <1>2 DEF Row
<1> QED
  BY <1>3, <1>4, <1>5, <1>6, <1>7, <1>8

\* The records a call may become.
LEMMA CallsTyped ==
  ASSUME TypeOK, ConnectionAssumption, NEW c \in Callers
  PROVE  /\ Idle \in Call
         /\ Read(c) \in Call
         /\ [Idle EXCEPT !.version = acct.version, !.token = acct.token] \in Call
         /\ [Idle EXCEPT !.phase = "waiting", !.kind = "recover"] \in Call
         /\ \A k \in Call : Unreadable(k) \in Call
         /\ \A k \in Call, phase \in Phases : [k EXCEPT !.phase = phase] \in Call
         /\ \A answer \in Answers : Answered(c, answer) \in Call
         /\ \A code \in {"none", "taken"} : Refused(c, code) \in Call
         /\ \A phase \in Phases, r \in Requests :
              [Idle EXCEPT !.phase = phase, !.kind = "callback", !.request = r] \in Call
         /\ [Read(c) EXCEPT !.phase = "answered", !.answer = "circuit_open"] \in Call
         /\ [calls[c] EXCEPT !.phase = "sent", !.version = acct.version] \in Call
         /\ \A t \in Tokens : [Answered(c, "success") EXCEPT !.token = t] \in Call
<1>1. calls[c] \in Call /\ acct \in Row /\ acct.version \in Nat /\ acct.token \in 0..MaxTokens
  BY DEF TypeOK, Row
<1>2. Idle \in Call
  BY DEF Idle, Call, Phases, Answers, ConnectionAssumption
<1>3. Read(c) \in Call
  BY <1>1 DEF Read, Call
<1>4. [Idle EXCEPT !.version = acct.version, !.token = acct.token] \in Call
  BY <1>1, <1>2 DEF Call
<1>5. [Idle EXCEPT !.phase = "waiting", !.kind = "recover"] \in Call
  BY <1>2 DEF Call, Phases
<1>6. \A k \in Call : Unreadable(k) \in Call
  BY DEF Unreadable, Call, Phases
<1>7. \A k \in Call, phase \in Phases : [k EXCEPT !.phase = phase] \in Call
  BY DEF Call
<1>8. \A answer \in Answers : Answered(c, answer) \in Call
  BY <1>1 DEF Answered, Call, Phases
<1>9. \A code \in {"none", "taken"} : Refused(c, code) \in Call
  BY <1>1 DEF Refused, Call, Phases
<1>10. \A phase \in Phases, r \in Requests :
         [Idle EXCEPT !.phase = phase, !.kind = "callback", !.request = r] \in Call
  <2>1. Requests \subseteq 0..MaxRequests
    BY DEF Requests, ConnectionAssumption
  <2> QED
    BY <1>2, <2>1 DEF Call
<1>11. [Read(c) EXCEPT !.phase = "answered", !.answer = "circuit_open"] \in Call
  BY <1>3 DEF Call, Phases, Answers
<1>12. [calls[c] EXCEPT !.phase = "sent", !.version = acct.version] \in Call
  BY <1>1 DEF Call, Phases
<1>13. \A t \in Tokens : [Answered(c, "success") EXCEPT !.token = t] \in Call
  <2>1. Tokens \subseteq 0..MaxTokens
    BY DEF Tokens, ConnectionAssumption
  <2>2. Answered(c, "success") \in Call
    BY <1>8 DEF Answers
  <2> QED
    BY <2>1, <2>2 DEF Call
<1> QED
  BY <1>2, <1>3, <1>4, <1>5, <1>6, <1>7, <1>8, <1>9, <1>10, <1>11, <1>12, <1>13

LEMMA AttemptsTyped ==
  ASSUME TypeOK, ConnectionAssumption
  PROVE  /\ \A r : \A status \in Closed \cup Active : Finished(r, status) \in [Requests -> Attempt]
         /\ Cleaned \in [Requests -> Attempt]
         /\ \A r \in Requests : [requests EXCEPT ![r].late = TRUE] \in [Requests -> Attempt]
<1>1. requests \in [Requests -> Attempt]
  BY DEF TypeOK
<1>2. \A status \in Closed \cup Active : [status |-> status, late |-> FALSE] \in Attempt
  BY DEF Attempt
<1>3. \A r : \A status \in Closed \cup Active : Finished(r, status) \in [Requests -> Attempt]
  BY <1>1, <1>2 DEF Finished
<1>4. Cleaned \in [Requests -> Attempt]
  BY <1>1, <1>2 DEF Cleaned, Closed
<1>5. \A r \in Requests : [requests EXCEPT ![r].late = TRUE] \in [Requests -> Attempt]
  BY <1>1 DEF Attempt
<1> QED
  BY <1>3, <1>4, <1>5

\* A call is written, and the lock and the budget keep their types.
LEMMA CallWritten ==
  ASSUME TypeOK, ConnectionAssumption, NEW c \in Callers
  PROVE  /\ \A k \in Call : Go(c, k) => calls' \in [Callers -> Call]
         /\ End(c) => calls' \in [Callers -> Call] /\ lock' \in Callers \cup {NoCaller}
         /\ \A what : Spend(what) => budget' \in [{"calls", "faults"} -> Nat]
<1>1. ASSUME NEW k \in Call, Go(c, k) PROVE calls' \in [Callers -> Call]
  BY <1>1 DEF Go, TypeOK
<1>2. ASSUME End(c) PROVE calls' \in [Callers -> Call] /\ lock' \in Callers \cup {NoCaller}
  BY <1>2, CallsTyped DEF End, Go, Freed, TypeOK
<1>3. ASSUME NEW what, Spend(what) PROVE budget' \in [{"calls", "faults"} -> Nat]
  BY <1>3 DEF Spend, TypeOK
<1> QED
  BY <1>1, <1>2, <1>3

LEMMA TypeInductive ==
  ASSUME TypeOK, ConnectionAssumption, [Next]_vars
  PROVE  TypeOK'
<1>1. ASSUME NEW c \in Callers, EnsureValidAccessToken(c) PROVE TypeOK'
  BY <1>1, ConnectionAssumption, CallsTyped, CallWritten
     DEF EnsureValidAccessToken, BeginEnsure, Phases, provider, TypeOK
<1>2. ASSUME NEW c \in Callers, RecoverConnection(c) PROVE TypeOK'
  BY <1>2, ConnectionAssumption, CallsTyped, CallWritten DEF RecoverConnection, provider, TypeOK
<1>3. ASSUME NEW c \in Callers, AccountBusy(c) PROVE TypeOK'
  BY <1>3, ConnectionAssumption, CallsTyped, CallWritten DEF AccountBusy, Phases, provider, TypeOK
<1>4. ASSUME NEW c \in Callers, TryAcquire(c) PROVE TypeOK'
  BY <1>4, ConnectionAssumption, CallsTyped, CallWritten DEF TryAcquire, Phases, provider, TypeOK
<1>5. ASSUME NEW c \in Callers, AttemptRefresh(c) PROVE TypeOK'
  <2>1. calls' \in [Callers -> Call]
    BY <1>5, CallsTyped, CallWritten DEF AttemptRefresh, EndOrDecryptionFails, Phases
  <2>2. lock' \in Callers \cup {NoCaller}
    BY <1>5, CallWritten DEF AttemptRefresh, EndOrDecryptionFails, TypeOK
  <2>3. budget' \in [{"calls", "faults"} -> Nat]
    BY <1>5, CallWritten DEF AttemptRefresh, EndOrDecryptionFails, Fault, TypeOK
  <2> QED
    BY <1>5, <2>1, <2>2, <2>3 DEF AttemptRefresh, provider, TypeOK
<1>6. ASSUME NEW c \in Callers, ProviderAccepts(c) PROVE TypeOK'
  <2>1. issued' \in Tokens /\ issued' = issued + 1
    BY <1>6 DEF ProviderAccepts, TypeOK, Tokens
  <2>2. calls[c].token \in Tokens
    BY <1>6 DEF ProviderAccepts, TypeOK, Tokens
  <2>3. origin' \in [Tokens -> 0..MaxRequests]
    BY <1>6, <2>1, <2>2 DEF ProviderAccepts, TypeOK
  <2>4. accepted' \subseteq 1..issued'
    BY <1>6, <2>1 DEF ProviderAccepts, TypeOK, Tokens
  <2>5. LostAnswers \subseteq Answers
    BY ConnectionAssumption DEF Answers, Deferrals
  <2>6. calls' \in [Callers -> Call]
    BY <1>6, <2>1, <2>5, CallsTyped, CallWritten DEF ProviderAccepts
  <2>7. budget' \in [{"calls", "faults"} -> Nat]
    BY <1>6, CallWritten DEF ProviderAccepts, Fault, TypeOK
  <2> QED
    BY <1>6, <2>1, <2>3, <2>4, <2>6, <2>7 DEF ProviderAccepts, TypeOK
<1>7. ASSUME NEW c \in Callers, ProviderRejects(c) PROVE TypeOK'
  BY <1>7, ConnectionAssumption, CallsTyped, CallWritten
     DEF ProviderRejects, Answers, Deferrals, Fault, provider, TypeOK
<1>8. ASSUME NEW c \in Callers, ApplyRefreshedTokens(c) PROVE TypeOK'
  BY <1>8, ConnectionAssumption, CallsTyped, CallWritten, RowsTyped
     DEF ApplyRefreshedTokens, provider, TypeOK
<1>9. ASSUME NEW c \in Callers, MarkTokenExpired(c) PROVE TypeOK'
  BY <1>9, ConnectionAssumption, CallsTyped, CallWritten, RowsTyped
     DEF MarkTokenExpired, provider, TypeOK
<1>10. ASSUME NEW c \in Callers, DeferRefresh(c) PROVE TypeOK'
  BY <1>10, ConnectionAssumption, CallsTyped, CallWritten, RowsTyped
     DEF DeferRefresh, EndOrDecryptionFails, Fault, provider, TypeOK
<1>11. ASSUME NEW c \in Callers, MarkError(c) PROVE TypeOK'
  BY <1>11, ConnectionAssumption, CallsTyped, CallWritten, RowsTyped DEF MarkError, provider, TypeOK
<1>12. ASSUME NEW r \in Requests, StartConnection(r) PROVE TypeOK'
  BY <1>12, ConnectionAssumption DEF StartConnection, Attempt, Active, Closed, provider, TypeOK
<1>13. ASSUME NEW c \in Callers, NEW r \in Requests, ClaimByState(c, r) PROVE TypeOK'
  <2>1. calls' \in [Callers -> Call]
    BY <1>13, CallsTyped, CallWritten DEF ClaimByState, Phases
  <2>2. requests' \in [Requests -> Attempt]
    BY <1>13, AttemptsTyped DEF ClaimByState, Active
  <2> QED
    BY <1>13, <2>1, <2>2 DEF ClaimByState, provider, TypeOK
<1>14. ASSUME NEW c \in Callers, SendCode(c) PROVE TypeOK'
  <2>1. calls' \in [Callers -> Call]
    <3>1. [calls[c] EXCEPT !.phase = "refused"] \in Call
      BY CallsTyped DEF Phases, TypeOK
    <3> QED
      BY <1>14, <3>1, CallsTyped, CallWritten DEF SendCode
  <2>2. budget' \in [{"calls", "faults"} -> Nat]
    BY <1>14, CallWritten DEF SendCode, Fault, TypeOK
  <2> QED
    BY <1>14, <2>1, <2>2 DEF SendCode, provider, TypeOK
<1>15. ASSUME NEW c \in Callers, ExchangeSucceeds(c) PROVE TypeOK'
  <2>1. issued' \in Tokens /\ issued' = issued + 1
    BY <1>15 DEF ExchangeSucceeds, TypeOK, Tokens
  <2>2. calls[c].request \in 0..MaxRequests
    BY DEF TypeOK, Call
  <2>3. origin' \in [Tokens -> 0..MaxRequests]
    BY <1>15, <2>1, <2>2 DEF ExchangeSucceeds, TypeOK
  <2>4. accepted' \subseteq 1..issued'
    BY <1>15, <2>1 DEF ExchangeSucceeds, TypeOK, Tokens
  <2>5. calls' \in [Callers -> Call]
    BY <1>15, <2>1, CallsTyped, CallWritten DEF ExchangeSucceeds
  <2>6. budget' \in [{"calls", "faults"} -> Nat]
    BY <1>15, CallWritten DEF ExchangeSucceeds, Fault, TypeOK
  <2> QED
    BY <1>15, <2>1, <2>3, <2>4, <2>5, <2>6 DEF ExchangeSucceeds, TypeOK
<1>16. ASSUME NEW c \in Callers, ExchangeFails(c) PROVE TypeOK'
  BY <1>16, ConnectionAssumption, CallsTyped, CallWritten DEF ExchangeFails, provider, TypeOK
<1>17. ASSUME NEW c \in Callers, ApplyConnection(c) PROVE TypeOK'
  <2>1. requests' \in [Requests -> Attempt]
    BY <1>17, AttemptsTyped DEF ApplyConnection, Closed, TypeOK
  <2>2. acct' \in Row
    BY <1>17, RowsTyped DEF ApplyConnection, TypeOK
  <2>3. calls' \in [Callers -> Call] /\ lock' \in Callers \cup {NoCaller}
    BY <1>17, CallsTyped, CallWritten DEF ApplyConnection, TypeOK
  <2> QED
    BY <1>17, <2>1, <2>2, <2>3 DEF ApplyConnection, provider, TypeOK
<1>18. ASSUME NEW c \in Callers, SellerTaken(c) PROVE TypeOK'
  BY <1>18, ConnectionAssumption, CallsTyped, CallWritten DEF SellerTaken, provider, TypeOK
<1>19. ASSUME NEW c \in Callers, FinalizeFailure(c) PROVE TypeOK'
  <2>1. requests' \in [Requests -> Attempt]
    BY <1>19, AttemptsTyped DEF FinalizeFailure, Closed, TypeOK
  <2>2. [calls[c] EXCEPT !.phase = "marking"] \in Call
    BY CallsTyped DEF Phases, TypeOK
  <2>3. calls' \in [Callers -> Call] /\ lock' \in Callers \cup {NoCaller}
    BY <1>19, <2>2, CallWritten DEF FinalizeFailure, TypeOK
  <2> QED
    BY <1>19, <2>1, <2>3 DEF FinalizeFailure, provider, TypeOK
<1>20. ASSUME CleanUp PROVE TypeOK'
  BY <1>20, ConnectionAssumption, AttemptsTyped DEF CleanUp, provider, TypeOK
<1>21. ASSUME RenewDueAccount PROVE TypeOK'
  BY <1>21, ConnectionAssumption, CallsTyped, CallWritten
     DEF RenewDueAccount, BeginEnsure, Phases, Callers, provider, TypeOK
<1>22. ASSUME NEW t \in Tokens, TokenNears(t) PROVE TypeOK'
  BY <1>22, ConnectionAssumption DEF TokenNears, provider, TypeOK
<1>23. ASSUME RetryDue PROVE TypeOK'
  <2>1. Job \in Callers
    BY DEF Callers
  <2> QED
    BY <1>23, <2>1, ConnectionAssumption, RowsTyped DEF RetryDue, provider, TypeOK
<1>24. ASSUME NEW i \in Instances, CircuitCools(i) PROVE TypeOK'
  BY <1>24, ConnectionAssumption DEF CircuitCools, provider, TypeOK
<1>25. ASSUME NEW r \in Requests, AttemptIsLate(r) PROVE TypeOK'
  <2>1. Job \in Callers
    BY DEF Callers
  <2>2. budget' \in [{"calls", "faults"} -> Nat]
    BY <1>25, <2>1, CallWritten, ConnectionAssumption DEF AttemptIsLate, Fault, TypeOK
  <2>3. requests' \in [Requests -> Attempt]
    BY <1>25, AttemptsTyped, ConnectionAssumption DEF AttemptIsLate
  <2> QED
    BY <1>25, <2>2, <2>3 DEF AttemptIsLate, provider, TypeOK
<1>26. ASSUME SellerRevokes PROVE TypeOK'
  BY <1>26, ConnectionAssumption DEF SellerRevokes, provider, TypeOK
<1>27. ASSUME LoseLock PROVE TypeOK'
  BY <1>27, ConnectionAssumption, CallWritten DEF LoseLock, Fault, provider, TypeOK
<1>28. ASSUME NEW c \in Callers, Throws(c) PROVE TypeOK'
  BY <1>28, ConnectionAssumption, CallsTyped, CallWritten DEF Throws, Fault, provider, TypeOK
<1>29. ASSUME NEW i \in Instances, Crash(i) PROVE TypeOK'
  <2>1. Job \in Callers
    BY DEF Callers
  <2>2. budget' \in [{"calls", "faults"} -> Nat]
    BY <1>29, <2>1, CallWritten, ConnectionAssumption DEF Crash, Fault
  <2>3. calls' \in [Callers -> Call]
    BY <1>29, <2>1, CallsTyped, ConnectionAssumption DEF Crash, TypeOK
  <2> QED
    BY <1>29, <2>2, <2>3 DEF Crash, provider, TypeOK
<1>30. CASE UNCHANGED vars
  BY <1>30 DEF vars, TypeOK
<1> QED
  BY <1>1, <1>2, <1>3, <1>4, <1>5, <1>6, <1>7, <1>8, <1>9, <1>10, <1>11, <1>12, <1>13, <1>14,
     <1>15, <1>16, <1>17, <1>18, <1>19, <1>20, <1>21, <1>22, <1>23, <1>24, <1>25, <1>26, <1>27,
     <1>28, <1>29, <1>30, ConnectionAssumption
     DEF Next, UserStep, CallStep, TimeStep, Disturbance, Callers

LEMMA ConnectionInit ==
  ASSUME Init, ConnectionAssumption
  PROVE  TypeOK
<1>1. Idle \in Call
  BY ConnectionAssumption DEF Idle, Call, Phases, Answers, ConnectionAssumption
<1>2. FreshRow \in Row /\ 1 \in 0..MaxTokens
  BY ConnectionAssumption DEF FreshRow, Row
<1>3. acct \in Row
  <2>1. FreshRow \in Row /\ [FreshRow EXCEPT !.status = "CONNECTED", !.token = 1, !.known = TRUE] \in Row
    BY <1>2 DEF Row
  <2>2. [FreshRow EXCEPT !.status = "ERROR", !.token = 1, !.known = TRUE,
                         !.failure = "recoverable"] \in Row
    BY <1>2 DEF Row
  <2> QED
    BY <2>1, <2>2 DEF Init
<1>4. requests \in [Requests -> Attempt]
  BY DEF Init, Attempt
<1>5. issued \in Tokens /\ accepted \subseteq 1..issued /\ origin \in [Tokens -> 0..MaxRequests]
  BY ConnectionAssumption DEF Init, Tokens
<1>6. budget \in [{"calls", "faults"} -> Nat]
  BY ConnectionAssumption DEF Init
<1> QED
  BY <1>1, <1>3, <1>4, <1>5, <1>6 DEF Init, TypeOK

\* Every variable of the connection keeps its type, whatever calls, callbacks,
\* crashes and deadlines interleave.
THEOREM ConnectionTypeTheorem == Spec => []TypeOK
  BY ConnectionInit, TypeInductive, ConnectionAssumption, PTL DEF Spec

---------------------------------------------------------------------------
(* What a call knows about the account                                     *)

\* A call k whose version is that of the row speaks of the tokens of the row:
\* what it sent is stored, what it received is newer and of the same lineage,
\* and what was refused is refused for good.
CallOK(k, row, n, of, good) ==
    /\ k.version <= row.version
    /\ k.token <= n
    /\ k.kind = "callback" => k.request \in Requests
    /\ k.phase = "refused" => k.kind = "callback"
    /\ k.phase = "sent" /\ k.kind # "callback" =>
         k.token # 0 /\ (k.version = row.version => k.token = row.token)
    /\ k.phase = "answered" /\ k.kind = "callback" => k.answer = "success"
    /\ k.phase = "answered" /\ k.answer = "invalid_grant" =>
         k.token \notin good /\ (k.version = row.version => k.token = row.token)
    /\ k.phase = "answered" /\ k.answer = "success" /\ k.version = row.version =>
         /\ k.token > row.token
         /\ IF k.kind = "callback" THEN of[k.token] = k.request
            ELSE row.token # 0 /\ of[k.token] = of[row.token]

CallsOK == \A c \in Callers : CallOK(calls[c], acct, issued, origin, accepted)

Sound ==
    /\ TypeOK
    /\ acct.token <= issued
    /\ ExpiredIsConfirmed
    /\ TokenFromSuccess
    /\ CallsOK

\* How a step may change what the calls know: the version is left alone with
\* the tokens, or counted; tokens are only added.
Moves ==
    /\ \/ acct'.version = acct.version /\ acct'.token = acct.token
       \/ acct'.version = acct.version + 1
    /\ issued <= issued'
    /\ \A t \in 1..issued : origin'[t] = origin[t]
    /\ \A t \in accepted' : t \in accepted \/ t > issued

LEMMA CallStaysOK ==
  ASSUME NEW k \in Call, NEW row \in Row, NEW row2 \in Row, NEW n \in Tokens, NEW n2 \in Tokens,
         NEW of, NEW of2, NEW good, NEW good2,
         ConnectionAssumption, CallOK(k, row, n, of, good), row.token <= n, n <= n2,
         \/ row2.version = row.version /\ row2.token = row.token
         \/ row2.version = row.version + 1,
         \A t \in 1..n : of2[t] = of[t],
         \A t \in good2 : t \in good \/ t > n
  PROVE  CallOK(k, row2, n2, of2, good2)
<1>1. /\ k.version \in Nat /\ k.token \in Nat
      /\ row.version \in Nat /\ row2.version \in Nat /\ row.token \in Nat /\ row2.token \in Nat
      /\ n \in Nat /\ n2 \in Nat
  BY ConnectionAssumption DEF Call, Row, Tokens
<1>2. CASE row2.version = row.version /\ row2.token = row.token
  BY <1>1, <1>2 DEF CallOK
<1>3. CASE row2.version = row.version + 1
  BY <1>1, <1>3 DEF CallOK
<1> QED
  BY <1>2, <1>3

LEMMA CallsStayOK ==
  ASSUME Sound, TypeOK', Moves, ConnectionAssumption,
         \A d \in Callers : \/ calls'[d] = calls[d]
                            \/ CallOK(calls'[d], acct', issued', origin', accepted')
  PROVE  CallsOK'
<1>1. acct \in Row /\ acct' \in Row /\ issued \in Tokens /\ issued' \in Tokens
  BY DEF Sound, TypeOK
<1>2. SUFFICES ASSUME NEW d \in Callers, calls'[d] = calls[d]
               PROVE  CallOK(calls'[d], acct', issued', origin', accepted')
  BY DEF CallsOK
<1>3. calls[d] \in Call
  BY DEF Sound, TypeOK
<1>4. CallOK(calls[d], acct, issued, origin, accepted) /\ acct.token <= issued
  BY DEF Sound, CallsOK
<1>5. CallOK(calls[d], acct', issued', origin', accepted')
  BY <1>1, <1>3, <1>4, CallStaysOK, ConnectionAssumption DEF Moves
<1> QED
  BY <1>2, <1>5

LEMMA IdleOK ==
  ASSUME NEW row \in Row, NEW n \in Tokens, NEW of, NEW good, ConnectionAssumption
  PROVE  CallOK(Idle, row, n, of, good)
<1>1. row.version \in Nat /\ n \in Nat
  BY ConnectionAssumption DEF Row, Tokens
<1> QED
  BY <1>1 DEF CallOK, Idle

---------------------------------------------------------------------------
(* Who writes what                                                         *)

LEMMA RowWriters ==
  ASSUME [Next]_vars
  PROVE  \/ UNCHANGED acct
         \/ \E c \in Callers :
              \/ ApplyRefreshedTokens(c) \/ MarkTokenExpired(c) \/ DeferRefresh(c)
              \/ MarkError(c) \/ ApplyConnection(c)
         \/ RetryDue
BY DEF Next, UserStep, CallStep, TimeStep, Disturbance, vars,
       EnsureValidAccessToken, RecoverConnection, AccountBusy, TryAcquire, AttemptRefresh,
       ProviderAccepts, ProviderRejects, StartConnection, ClaimByState, SendCode,
       ExchangeSucceeds, ExchangeFails, SellerTaken, FinalizeFailure, CleanUp,
       RenewDueAccount, TokenNears, CircuitCools, AttemptIsLate, SellerRevokes,
       LoseLock, Throws, Crash

LEMMA TokenWriters ==
  ASSUME [Next]_vars
  PROVE  \/ UNCHANGED <<issued, origin, accepted>>
         \/ \E c \in Callers : ProviderAccepts(c) \/ ExchangeSucceeds(c)
         \/ SellerRevokes
BY DEF Next, UserStep, CallStep, TimeStep, Disturbance, vars, provider,
       EnsureValidAccessToken, RecoverConnection, AccountBusy, TryAcquire, AttemptRefresh,
       ProviderRejects, StartConnection, ClaimByState, SendCode, ApplyRefreshedTokens,
       MarkTokenExpired, DeferRefresh, MarkError, RetryDue, ApplyConnection,
       ExchangeFails, SellerTaken, FinalizeFailure, CleanUp,
       RenewDueAccount, TokenNears, CircuitCools, AttemptIsLate,
       LoseLock, Throws, Crash

LEMMA AttemptWriters ==
  ASSUME [Next]_vars
  PROVE  \/ UNCHANGED requests
         \/ \E c \in Callers : ApplyConnection(c) \/ FinalizeFailure(c)
         \/ \E c \in Users, r \in Requests : ClaimByState(c, r)
         \/ \E r \in Requests : StartConnection(r) \/ AttemptIsLate(r)
         \/ CleanUp
BY DEF Next, UserStep, CallStep, TimeStep, Disturbance, vars,
       EnsureValidAccessToken, RecoverConnection, AccountBusy, TryAcquire, AttemptRefresh,
       ProviderAccepts, ProviderRejects, SendCode, ApplyRefreshedTokens,
       MarkTokenExpired, DeferRefresh, MarkError, RetryDue,
       ExchangeSucceeds, ExchangeFails, SellerTaken,
       RenewDueAccount, TokenNears, CircuitCools, SellerRevokes,
       LoseLock, Throws, Crash

\* What is written to the row: by a call that is current, or nothing that matters.
RowKeepsTokens ==
    /\ acct'.version = acct.version /\ acct'.token = acct.token
    /\ acct'.status = "TOKEN_EXPIRED" => acct.token \notin accepted
    /\ UNCHANGED <<requests, issued, origin, accepted>>

RowTakesTokens(c) ==
    /\ acct'.version = acct.version + 1
    /\ acct'.token = calls[c].token /\ acct'.status = "CONNECTED"
    /\ Current(c) /\ calls[c].phase = "answered" /\ calls[c].answer = "success"
    /\ IF calls[c].kind = "callback"
       THEN requests' = Finished(calls[c].request, "SUCCESS") ELSE UNCHANGED requests
    /\ UNCHANGED <<issued, origin, accepted>>

LEMMA RowsWritten ==
  ASSUME Sound, ConnectionAssumption, [Next]_vars
  PROVE  UNCHANGED acct \/ RowKeepsTokens \/ \E c \in Callers : RowTakesTokens(c)
<1>1. acct \in Row
  BY DEF Sound, TypeOK
<1>2. ASSUME NEW c \in Callers, ApplyRefreshedTokens(c)
      PROVE  UNCHANGED acct \/ RowTakesTokens(c)
  BY <1>2 DEF ApplyRefreshedTokens, RefreshedRow, RowTakesTokens, provider, At, Is
<1>3. ASSUME NEW c \in Callers, ApplyConnection(c)
      PROVE  UNCHANGED acct \/ RowTakesTokens(c)
  <2>1. calls[c].phase = "answered" /\ calls[c].kind = "callback"
    BY <1>3 DEF ApplyConnection, At, Is
  <2>2. calls[c].answer = "success"
    BY <2>1 DEF Sound, CallsOK, CallOK
  <2> QED
    BY <1>3, <2>1, <2>2 DEF ApplyConnection, ConnectedRow, RowTakesTokens, provider
<1>4. ASSUME NEW c \in Callers, MarkTokenExpired(c)
      PROVE  UNCHANGED acct \/ RowKeepsTokens
  <2>1. CallOK(calls[c], acct, issued, origin, accepted)
    BY DEF Sound, CallsOK
  <2>2. Current(c) => acct.token \notin accepted
    BY <1>4, <2>1 DEF MarkTokenExpired, At, Current, CallOK
  <2>3. RejectedRow.version = acct.version /\ RejectedRow.token = acct.token
    BY <1>1 DEF RejectedRow, Row
  <2> QED
    BY <1>4, <2>2, <2>3 DEF MarkTokenExpired, RowKeepsTokens, provider
<1>5. ASSUME NEW c \in Callers, DeferRefresh(c)
      PROVE  UNCHANGED acct \/ RowKeepsTokens
  <2>1. /\ DeferredRow.version = acct.version /\ DeferredRow.token = acct.token
        /\ DeferredRow.status = acct.status
    BY <1>1 DEF DeferredRow, Row
  <2> QED
    BY <1>5, <2>1 DEF DeferRefresh, RowKeepsTokens, provider, Sound, ExpiredIsConfirmed
<1>6. ASSUME NEW c \in Callers, MarkError(c)
      PROVE  UNCHANGED acct \/ RowKeepsTokens
  <2> DEFINE row == [acct EXCEPT !.status = "ERROR", !.failure = calls[c].code]
  <2>1. row.version = acct.version /\ row.token = acct.token /\ row.status = "ERROR"
    BY <1>1 DEF Row
  <2>2. acct' = row \/ UNCHANGED acct
    BY <1>6 DEF MarkError
  <2> HIDE DEF row
  <2> QED
    BY <1>6, <2>1, <2>2 DEF MarkError, RowKeepsTokens, provider
<1>7. ASSUME RetryDue
      PROVE  RowKeepsTokens
  <2> DEFINE row == [acct EXCEPT !.retryLater = FALSE]
  <2>1. row.version = acct.version /\ row.token = acct.token /\ row.status = acct.status
    BY <1>1 DEF Row
  <2>2. acct' = row
    BY <1>7 DEF RetryDue
  <2> HIDE DEF row
  <2> QED
    BY <1>7, <2>1, <2>2 DEF RetryDue, RowKeepsTokens, provider, Sound, ExpiredIsConfirmed
<1> QED
  BY <1>2, <1>3, <1>4, <1>5, <1>6, <1>7, RowWriters

LEMMA StepMoves ==
  ASSUME Sound, ConnectionAssumption, [Next]_vars
  PROVE  Moves
<1>1. \/ acct'.version = acct.version /\ acct'.token = acct.token
      \/ acct'.version = acct.version + 1
  BY RowsWritten DEF RowKeepsTokens, RowTakesTokens
<1>2. issued \in Nat /\ issued <= MaxTokens /\ origin \in [Tokens -> 0..MaxRequests]
  BY ConnectionAssumption DEF Sound, TypeOK, Tokens
<1>3. ASSUME NEW c \in Callers, ProviderAccepts(c) \/ ExchangeSucceeds(c)
      PROVE  /\ issued' = issued + 1
             /\ \A t \in 1..issued : origin'[t] = origin[t]
             /\ \A t \in accepted' : t \in accepted \/ t = issued + 1
  BY <1>2, <1>3 DEF ProviderAccepts, ExchangeSucceeds, Tokens
<1>4. /\ issued <= issued'
      /\ \A t \in 1..issued : origin'[t] = origin[t]
      /\ \A t \in accepted' : t \in accepted \/ t > issued
  <2>1. CASE UNCHANGED <<issued, origin, accepted>>
    BY <1>2, <2>1
  <2>2. CASE SellerRevokes
    BY <1>2, <2>2 DEF SellerRevokes
  <2>3. ASSUME NEW c \in Callers, ProviderAccepts(c) \/ ExchangeSucceeds(c)
        PROVE  /\ issued <= issued'
               /\ \A t \in 1..issued : origin'[t] = origin[t]
               /\ \A t \in accepted' : t \in accepted \/ t > issued
    BY <1>2, <1>3, <2>3
  <2> QED
    BY <2>1, <2>2, <2>3, TokenWriters
<1> QED
  BY <1>1, <1>4 DEF Moves

LEMMA StepKeepsClosed ==
  ASSUME TypeOK, ConnectionAssumption, [Next]_vars, NEW r \in Requests, requests[r].status \in Closed
  PROVE  requests'[r] = requests[r]
<1>1. requests \in [Requests -> Attempt]
  BY DEF TypeOK
<1>2. ASSUME NEW q, NEW status, requests' = Finished(q, status), q # r
      PROVE  requests'[r] = requests[r]
  BY <1>1, <1>2 DEF Finished
<1>3. ASSUME NEW c \in Callers, ApplyConnection(c)
      PROVE  requests'[r] = requests[r]
  BY <1>2, <1>3 DEF ApplyConnection, Closed
<1>4. ASSUME NEW c \in Callers, FinalizeFailure(c)
      PROVE  requests'[r] = requests[r]
  BY <1>2, <1>4 DEF FinalizeFailure, Closed
<1>5. ASSUME NEW c \in Callers, NEW q \in Requests, ClaimByState(c, q)
      PROVE  requests'[r] = requests[r]
  BY <1>2, <1>5 DEF ClaimByState, Closed
<1>6. ASSUME NEW q \in Requests, StartConnection(q)
      PROVE  requests'[r] = requests[r]
  BY <1>1, <1>6 DEF StartConnection, Closed
<1>7. ASSUME NEW q \in Requests, AttemptIsLate(q)
      PROVE  requests'[r] = requests[r]
  BY <1>1, <1>7 DEF AttemptIsLate, Active, Closed
<1>8. ASSUME CleanUp
      PROVE  requests'[r] = requests[r]
  BY <1>1, <1>8 DEF CleanUp, Cleaned, Closed
<1> QED
  BY <1>3, <1>4, <1>5, <1>6, <1>7, <1>8, AttemptWriters DEF Callers

LEMMA StepKeepsGrant ==
  ASSUME Sound, ConnectionAssumption, [Next]_vars
  PROVE  acct'.token <= issued' /\ ExpiredIsConfirmed' /\ TokenFromSuccess'
<1>1. Moves /\ acct.token \in Nat /\ issued \in Nat /\ issued' \in Nat /\ acct.token <= issued
  <2>1. TypeOK' /\ TypeOK /\ Moves /\ acct.token <= issued
    BY StepMoves, TypeInductive, ConnectionAssumption DEF Sound
  <2>2. acct.token \in Nat
    BY <2>1, ConnectionAssumption DEF TypeOK, Row
  <2>3. issued \in Nat /\ issued' \in Nat
    BY <2>1, ConnectionAssumption DEF TypeOK, Tokens
  <2> QED
    BY <2>1, <2>2, <2>3
<1>2. CASE UNCHANGED acct
  <2>1. acct'.token <= issued'
    BY <1>1, <1>2 DEF Moves
  <2>2. ExpiredIsConfirmed'
    BY <1>1, <1>2 DEF Moves, Sound, ExpiredIsConfirmed
  <2>3. ASSUME acct'.token # 0, origin'[acct'.token] # 0
        PROVE  requests'[origin'[acct'.token]].status = "SUCCESS"
    <3>1. origin'[acct.token] = origin[acct.token] /\ acct.token \in Tokens
      BY <1>1, <1>2, <2>3 DEF Moves, Sound, TypeOK, Tokens
    <3>2. requests[origin[acct.token]].status = "SUCCESS"
      BY <1>2, <2>3, <3>1 DEF Sound, TokenFromSuccess
    <3>3. origin[acct.token] \in Requests
      BY <1>2, <2>3, <3>1, ConnectionAssumption DEF Sound, TypeOK, Requests
    <3> QED
      BY <1>2, <3>1, <3>2, <3>3, StepKeepsClosed, ConnectionAssumption DEF Sound, Closed
  <2> QED
    BY <2>1, <2>2, <2>3 DEF TokenFromSuccess
<1>3. CASE RowKeepsTokens
  BY <1>1, <1>3 DEF RowKeepsTokens, Sound, ExpiredIsConfirmed, TokenFromSuccess
<1>4. ASSUME NEW c \in Callers, RowTakesTokens(c)
      PROVE  acct'.token <= issued' /\ ExpiredIsConfirmed' /\ TokenFromSuccess'
  <2>1. CallOK(calls[c], acct, issued, origin, accepted)
    BY DEF Sound, CallsOK
  <2>2. acct'.token <= issued' /\ ExpiredIsConfirmed'
    BY <1>4, <2>1 DEF RowTakesTokens, CallOK, ExpiredIsConfirmed
  <2>3. CASE calls[c].kind = "callback"
    <3>1. origin[calls[c].token] = calls[c].request /\ calls[c].request \in Requests
      BY <1>4, <2>1, <2>3 DEF RowTakesTokens, CallOK, Current
    <3>2. requests'[calls[c].request].status = "SUCCESS"
      BY <1>4, <2>3, <3>1 DEF RowTakesTokens, Finished, Sound, TypeOK
    <3> QED
      BY <1>4, <2>2, <3>1, <3>2 DEF RowTakesTokens, TokenFromSuccess
  <2>4. CASE calls[c].kind # "callback"
    <3>1. acct.token # 0 /\ origin[calls[c].token] = origin[acct.token]
      BY <1>4, <2>1, <2>4 DEF RowTakesTokens, CallOK, Current
    <3> QED
      BY <1>4, <2>2, <2>4, <3>1 DEF RowTakesTokens, TokenFromSuccess, Sound
  <2> QED
    BY <2>3, <2>4
<1> QED
  BY <1>2, <1>3, <1>4, RowsWritten

---------------------------------------------------------------------------
(* What the calls know, step by step                                       *)

LEMMA CallGoes ==
  ASSUME TypeOK, NEW c \in Callers, NEW k
  PROVE  /\ Go(c, k) => calls'[c] = k /\ \A d \in Callers : d # c => calls'[d] = calls[d]
         /\ End(c) => calls'[c] = Idle /\ \A d \in Callers : d # c => calls'[d] = calls[d]
BY DEF Go, End, TypeOK

\* A call that only waits, or prepares to write, knows nothing of the tokens.
LEMMA QuietOK ==
  ASSUME NEW k, NEW row \in Row, NEW n \in Tokens, NEW of, NEW good, ConnectionAssumption,
         k.version \in Nat, k.version <= row.version, k.token \in Nat, k.token <= n,
         k.kind = "callback" => k.request \in Requests,
         \/ k.phase \in {"waiting", "locked", "marking"}
         \/ k.phase \in {"refused", "sent"} /\ k.kind = "callback"
         \/ k.phase = "sent" /\ k.token # 0 /\ k.token = row.token
         \/ k.phase = "answered" /\ k.answer \notin {"success", "invalid_grant"} /\ k.kind # "callback"
  PROVE  CallOK(k, row, n, of, good)
BY DEF CallOK

LEMMA StepKeepsCalls ==
  ASSUME Sound, ConnectionAssumption, [Next]_vars
  PROVE  CallsOK'
<1> DEFINE OK(k) == CallOK(k, acct', issued', origin', accepted')
           Kept(c) == \A d \in Callers : calls'[d] = calls[d] \/ OK(calls'[d])
<1>1. TypeOK /\ TypeOK' /\ Moves /\ acct \in Row /\ acct' \in Row /\ issued' \in Tokens /\ issued \in Tokens
  BY StepMoves, TypeInductive, ConnectionAssumption DEF Sound, TypeOK
<1>2. /\ acct.version \in Nat /\ acct.token \in Nat /\ issued \in Nat
      /\ acct'.version \in Nat /\ acct'.token \in Nat /\ issued' \in Nat
      /\ acct.token <= issued
  BY <1>1, ConnectionAssumption DEF Sound, Row, Tokens
<1>3. ASSUME NEW c \in Callers
      PROVE  /\ calls[c] \in Call /\ CallOK(calls[c], acct, issued, origin, accepted)
             /\ calls[c].version \in Nat /\ calls[c].token \in Nat
             /\ calls[c].version <= acct.version /\ calls[c].token <= issued
             /\ calls[c].kind = "callback" => calls[c].request \in Requests
  BY <1>1, ConnectionAssumption DEF Sound, CallsOK, CallOK, TypeOK, Call
<1>4. OK(Idle)
  BY <1>1, IdleOK, ConnectionAssumption
<1>5. ASSUME NEW c \in Callers, NEW k, Go(c, k), OK(k) PROVE Kept(c)
  BY <1>1, <1>5, CallGoes
<1>6. ASSUME NEW c \in Callers, End(c) PROVE Kept(c)
  BY <1>1, <1>4, <1>6, CallGoes
<1>7. Idle.version = 0 /\ Idle.token = 0 /\ Idle.kind = "ensure" /\ Idle \in Call
  BY CallsTyped, <1>1, ConnectionAssumption DEF Idle, Callers
<1>8. ASSUME NEW c \in Callers, NEW snapshot \in Call,
             snapshot.version <= acct.version, snapshot.token <= issued,
             snapshot.kind = "callback" => snapshot.request \in Requests
      PROVE  OK(Unreadable(snapshot)) /\ OK([snapshot EXCEPT !.phase = "waiting"])
  <2>1. /\ Unreadable(snapshot).phase = "marking" /\ Unreadable(snapshot).version = snapshot.version
        /\ Unreadable(snapshot).token = snapshot.token /\ Unreadable(snapshot).kind = snapshot.kind
        /\ Unreadable(snapshot).request = snapshot.request
    BY DEF Unreadable, Call
  <2>2. snapshot.version \in Nat /\ snapshot.token \in Nat
    BY ConnectionAssumption DEF Call
  <2> DEFINE waiting == [snapshot EXCEPT !.phase = "waiting"]
  <2>3. /\ waiting.phase = "waiting" /\ waiting.version = snapshot.version
        /\ waiting.token = snapshot.token /\ waiting.kind = snapshot.kind
        /\ waiting.request = snapshot.request
    BY DEF Call
  <2> HIDE DEF waiting
  <2>6. acct.version <= acct'.version /\ issued <= issued'
    BY <1>1, <1>2 DEF Moves
  <2>4. OK(waiting)
    BY <1>1, <1>2, <1>8, <2>2, <2>3, <2>6, QuietOK, ConnectionAssumption
  <2>5. OK(Unreadable(snapshot))
    BY <1>1, <1>2, <1>8, <2>1, <2>2, <2>6, QuietOK, ConnectionAssumption
  <2> QED
    BY <2>4, <2>5 DEF waiting
<1>9. ASSUME NEW c \in Callers, BeginEnsure(c), UNCHANGED <<acct, issued, origin, accepted>>
      PROVE  Kept(c)
  <2> DEFINE snapshot == [Idle EXCEPT !.version = acct.version, !.token = acct.token]
  <2>1. snapshot \in Call
    BY <1>1, CallsTyped, ConnectionAssumption
  <2>2. snapshot.version = acct.version /\ snapshot.token = acct.token /\ snapshot.kind = "ensure"
    BY <1>7 DEF Call
  <2> HIDE DEF snapshot
  <2>3. OK(Unreadable(snapshot)) /\ OK([snapshot EXCEPT !.phase = "waiting"])
    BY <1>2, <1>8, <2>1, <2>2
  <2>4. Go(c, Unreadable(snapshot)) \/ Go(c, [snapshot EXCEPT !.phase = "waiting"])
    BY <1>9 DEF BeginEnsure, snapshot
  <2> QED
    BY <1>5, <2>3, <2>4
<1>10. ASSUME NEW c \in Callers, RecoverConnection(c) PROVE Kept(c)
  <2> DEFINE k == [Idle EXCEPT !.phase = "waiting", !.kind = "recover"]
  <2>1. k.phase = "waiting" /\ k.version = 0 /\ k.token = 0 /\ k.kind = "recover"
    BY <1>7 DEF Call
  <2>2. Go(c, k)
    BY <1>10 DEF RecoverConnection
  <2> HIDE DEF k
  <2>3. OK(k)
    BY <1>1, <1>2, <2>1, QuietOK, ConnectionAssumption
  <2> QED
    BY <1>5, <2>2, <2>3
<1>11. ASSUME NEW c \in Callers, NEW phase,
              \/ phase \in {"locked", "waiting", "marking"}
              \/ phase = "refused" /\ calls[c].kind = "callback"
       PROVE  OK([calls[c] EXCEPT !.phase = phase])
  <2> DEFINE k == [calls[c] EXCEPT !.phase = phase]
  <2>1. /\ k.phase = phase /\ k.version = calls[c].version /\ k.token = calls[c].token
        /\ k.kind = calls[c].kind /\ k.request = calls[c].request
    BY <1>3 DEF Call
  <2> HIDE DEF k
  <2>2. acct.version <= acct'.version /\ issued <= issued'
    BY <1>1, <1>2 DEF Moves
  <2>3. OK(k)
    BY <1>1, <1>2, <1>3, <1>11, <2>1, <2>2, QuietOK, ConnectionAssumption
  <2> QED
    BY <2>3 DEF k
<1>12. ASSUME NEW c \in Callers, AccountBusy(c) PROVE Kept(c)
  BY <1>4, <1>5, <1>11, <1>12 DEF AccountBusy, Is
<1>13. ASSUME NEW c \in Callers, TryAcquire(c) PROVE Kept(c)
  BY <1>5, <1>11, <1>13 DEF TryAcquire
<1>14. ASSUME NEW c \in Callers
       PROVE  /\ Read(c) \in Call /\ Read(c).version = acct.version /\ Read(c).token = acct.token
              /\ Read(c).kind = calls[c].kind /\ Read(c).request = calls[c].request
  <2>1. Read(c) \in Call
    BY <1>1, CallsTyped, ConnectionAssumption
  <2> QED
    BY <1>3, <2>1 DEF Read, Call
<1>15. ASSUME NEW c \in Callers, AttemptRefresh(c) PROVE Kept(c)
  <2>1. UNCHANGED <<acct, issued, origin, accepted>> /\ calls[c].kind # "callback"
    BY <1>15 DEF AttemptRefresh, provider, Is
  <2>2. OK(Unreadable(Read(c)))
    <3>1. /\ Read(c) \in Call /\ Read(c).version <= acct.version /\ Read(c).token <= issued
          /\ Read(c).kind # "callback"
      BY <1>2, <1>14, <2>1
    <3> QED
      BY <1>8, <3>1
  <2> DEFINE open == [Read(c) EXCEPT !.phase = "answered", !.answer = "circuit_open"]
             sent == [Read(c) EXCEPT !.phase = "sent"]
  <2>3. /\ open.phase = "answered" /\ open.answer = "circuit_open" /\ open.version = acct.version
        /\ open.token = acct.token /\ open.kind = calls[c].kind
    BY <1>14 DEF Call
  <2>4. /\ sent.phase = "sent" /\ sent.version = acct.version
        /\ sent.token = acct.token /\ sent.kind = calls[c].kind
    BY <1>14 DEF Call
  <2> HIDE DEF open, sent
  <2>5. OK(open)
    BY <1>1, <1>2, <2>1, <2>3, QuietOK, ConnectionAssumption
  <2>6. acct.token # 0 => OK(sent)
    BY <1>1, <1>2, <2>1, <2>4, QuietOK, ConnectionAssumption
  <2>7. MayAttempt(c) => acct.token # 0
    BY DEF MayAttempt, Recoverable, Eligible
  <2>8. \/ End(c)
        \/ Go(c, Unreadable(Read(c)))
        \/ Go(c, open)
        \/ MayAttempt(c) /\ Go(c, sent)
    BY <1>15 DEF AttemptRefresh, EndOrDecryptionFails, open, sent
  <2> QED
    BY <1>5, <1>6, <2>2, <2>5, <2>6, <2>7, <2>8
<1>16. ASSUME NEW c \in Callers, NEW answer
       PROVE  /\ Answered(c, answer).phase = "answered" /\ Answered(c, answer).answer = answer
              /\ Answered(c, answer).version = calls[c].version
              /\ Answered(c, answer).token = calls[c].token
              /\ Answered(c, answer).kind = calls[c].kind
              /\ Answered(c, answer).request = calls[c].request
  BY <1>3 DEF Answered, Call
<1>17. ASSUME NEW c \in Callers, NEW answer, calls[c].kind # "callback",
              answer \notin {"success", "invalid_grant"}
       PROVE  OK(Answered(c, answer))
  <2>1. acct.version <= acct'.version /\ issued <= issued'
    BY <1>1, <1>2 DEF Moves
  <2> QED
    BY <1>1, <1>2, <1>3, <1>16, <1>17, <2>1, QuietOK, ConnectionAssumption
<1>18. ASSUME NEW c \in Callers, NEW t, t = issued + 1, issued' = t, calls[c].phase = "sent",
              UNCHANGED acct, origin'[t] = IF calls[c].kind = "callback" THEN calls[c].request
                                           ELSE origin[calls[c].token],
              origin'[acct.token] = origin[acct.token] \/ acct.token = 0
       PROVE  OK([Answered(c, "success") EXCEPT !.token = t])
  <2> DEFINE k == [Answered(c, "success") EXCEPT !.token = t]
  <2>1. /\ k.phase = "answered" /\ k.answer = "success" /\ k.version = calls[c].version
        /\ k.token = t /\ k.kind = calls[c].kind /\ k.request = calls[c].request
    BY <1>3 DEF Answered, Call
  <2> HIDE DEF k
  <2>2. calls[c].kind # "callback" =>
          calls[c].token # 0 /\ (calls[c].version = acct.version => calls[c].token = acct.token)
    BY <1>3, <1>18 DEF CallOK
  <2>3. OK(k)
    BY <1>2, <1>3, <1>18, <2>1, <2>2 DEF CallOK
  <2> QED
    BY <2>3 DEF k
<1>19. ASSUME NEW c \in Callers, ProviderAccepts(c) PROVE Kept(c)
  <2>1. /\ calls[c].phase = "sent" /\ calls[c].kind # "callback" /\ issued' = issued + 1
        /\ UNCHANGED acct
    BY <1>19 DEF ProviderAccepts, At, Is
  <2>2. issued' \in Tokens /\ origin'[issued'] = origin[calls[c].token]
    BY <1>1, <1>19 DEF ProviderAccepts, TypeOK
  <2>3. origin'[acct.token] = origin[acct.token] \/ acct.token = 0
    BY <1>1, <1>2 DEF Moves
  <2>4. OK([Answered(c, "success") EXCEPT !.token = issued'])
    BY <1>18, <2>1, <2>2, <2>3
  <2>5. \A answer \in LostAnswers : OK(Answered(c, answer))
    BY <1>17, <2>1, ConnectionAssumption
  <2> QED
    BY <1>5, <1>19, <2>4, <2>5 DEF ProviderAccepts
<1>20. ASSUME NEW c \in Callers, ProviderRejects(c) PROVE Kept(c)
  <2>1. /\ calls[c].phase = "sent" /\ calls[c].kind # "callback"
        /\ UNCHANGED <<acct, issued, origin, accepted>>
    BY <1>20 DEF ProviderRejects, At, Is, provider
  <2>2. \A answer \in Deferrals : OK(Answered(c, answer))
    BY <1>17, <2>1 DEF Deferrals
  <2>3. calls[c].token \notin accepted => OK(Answered(c, "invalid_grant"))
    BY <1>3, <1>16, <2>1 DEF CallOK
  <2> QED
    BY <1>5, <1>20, <2>2, <2>3 DEF ProviderRejects
<1>21. ASSUME NEW c \in Callers, DeferRefresh(c) PROVE Kept(c)
  <2>1. OK(Unreadable(calls[c]))
    BY <1>3, <1>8
  <2>2. End(c) \/ Go(c, Unreadable(calls[c]))
    BY <1>21 DEF DeferRefresh, EndOrDecryptionFails
  <2> QED
    BY <1>5, <1>6, <2>1, <2>2
<1>22. ASSUME NEW c \in Callers, NEW r \in Requests, ClaimByState(c, r) PROVE Kept(c)
  <2>1. PICK phase \in {"waiting", "refused"} :
          Go(c, [Idle EXCEPT !.phase = phase, !.kind = "callback", !.request = r])
    BY <1>22 DEF ClaimByState
  <2> DEFINE k == [Idle EXCEPT !.phase = phase, !.kind = "callback", !.request = r]
  <2>2. /\ k.phase = phase /\ k.version = 0 /\ k.token = 0
        /\ k.kind = "callback" /\ k.request = r
    BY <1>7 DEF Call
  <2>3. Go(c, k)
    BY <2>1
  <2> HIDE DEF k
  <2>4. OK(k)
    BY <1>1, <1>2, <2>2, QuietOK, ConnectionAssumption
  <2> QED
    BY <1>5, <2>3, <2>4
<1>23. ASSUME NEW c \in Callers, SendCode(c) PROVE Kept(c)
  <2>1. calls[c].kind = "callback" /\ UNCHANGED <<acct, issued, origin, accepted>>
    BY <1>23 DEF SendCode, Is, provider
  <2> DEFINE k == [calls[c] EXCEPT !.phase = "sent", !.version = acct.version]
  <2>2. /\ k.phase = "sent" /\ k.version = acct.version /\ k.token = calls[c].token
        /\ k.kind = "callback" /\ k.request = calls[c].request
    BY <1>3, <2>1 DEF Call
  <2>3. Go(c, k) \/ Go(c, [calls[c] EXCEPT !.phase = "refused"])
    BY <1>23 DEF SendCode
  <2> HIDE DEF k
  <2>4. OK(k)
    BY <1>1, <1>2, <1>3, <2>1, <2>2, QuietOK, ConnectionAssumption
  <2>5. OK([calls[c] EXCEPT !.phase = "refused"])
    BY <1>11, <2>1
  <2> QED
    BY <1>5, <2>3, <2>4, <2>5
<1>24. ASSUME NEW c \in Callers, NEW code, calls[c].kind = "callback"
       PROVE  OK(Refused(c, code))
  <2>1. /\ Refused(c, code).phase = "refused" /\ Refused(c, code).kind = "callback"
        /\ Refused(c, code).version = calls[c].version /\ Refused(c, code).token = calls[c].token
        /\ Refused(c, code).request = calls[c].request
    BY <1>3, <1>24 DEF Refused, Call
  <2>2. acct.version <= acct'.version /\ issued <= issued'
    BY <1>1, <1>2 DEF Moves
  <2> QED
    BY <1>1, <1>2, <1>3, <1>24, <2>1, <2>2, QuietOK, ConnectionAssumption
<1>25. ASSUME NEW c \in Callers, ExchangeSucceeds(c) PROVE Kept(c)
  <2>1. /\ calls[c].phase = "sent" /\ calls[c].kind = "callback" /\ issued' = issued + 1
        /\ UNCHANGED acct
    BY <1>25 DEF ExchangeSucceeds, At, Is
  <2>2. issued' \in Tokens /\ origin'[issued'] = calls[c].request
    BY <1>1, <1>25 DEF ExchangeSucceeds, TypeOK
  <2>3. origin'[acct.token] = origin[acct.token] \/ acct.token = 0
    BY <1>1, <1>2 DEF Moves
  <2>4. OK([Answered(c, "success") EXCEPT !.token = issued'])
    BY <1>18, <2>1, <2>2, <2>3
  <2>5. OK(Refused(c, "none"))
    BY <1>24, <2>1
  <2> QED
    BY <1>5, <1>25, <2>4, <2>5 DEF ExchangeSucceeds
<1>26. ASSUME NEW c \in Callers, ExchangeFails(c) \/ SellerTaken(c) PROVE Kept(c)
  <2>1. calls[c].kind = "callback" /\ \E code : Go(c, Refused(c, code))
    BY <1>26 DEF ExchangeFails, SellerTaken, Is
  <2> QED
    BY <1>5, <1>24, <2>1
<1>27. ASSUME NEW c \in Callers, ApplyConnection(c) PROVE Kept(c)
  <2>1. calls[c].kind = "callback" /\ (End(c) \/ Go(c, Refused(c, "none")))
    BY <1>27 DEF ApplyConnection, Is
  <2> QED
    BY <1>5, <1>6, <1>24, <2>1
<1>28. ASSUME NEW c \in Callers, FinalizeFailure(c) PROVE Kept(c)
  BY <1>5, <1>6, <1>11, <1>28 DEF FinalizeFailure
<1>29. ASSUME NEW c \in Callers,
              \/ ApplyRefreshedTokens(c) \/ MarkTokenExpired(c) \/ MarkError(c) \/ Throws(c)
       PROVE  Kept(c)
  BY <1>6, <1>29 DEF ApplyRefreshedTokens, MarkTokenExpired, MarkError, Throws
<1>30. ASSUME NEW c \in Callers, EnsureValidAccessToken(c) PROVE Kept(c)
  BY <1>9, <1>30 DEF EnsureValidAccessToken, provider
<1>31. ASSUME RenewDueAccount PROVE Kept(Job)
  <2>1. Job \in Callers
    BY DEF Callers
  <2> QED
    BY <1>9, <1>31, <2>1 DEF RenewDueAccount, provider
<1>32. ASSUME NEW i \in Instances, Crash(i) PROVE Kept(Job)
  BY <1>4, <1>32 DEF Crash
<1>33. \/ \E c \in Callers : Kept(c)
       \/ UNCHANGED calls
  <2>1. Job \in Callers /\ Users \subseteq Callers
    BY DEF Callers
  <2> HIDE DEF Kept
  <2>2. CASE UserStep
    BY <1>10, <1>22, <1>30, <2>1, <2>2 DEF UserStep, StartConnection
  <2>3. CASE \E c \in Callers : CallStep(c)
    BY <1>12, <1>13, <1>15, <1>19, <1>20, <1>21, <1>23, <1>25, <1>26, <1>27, <1>28, <1>29, <2>3
       DEF CallStep
  <2>4. CASE CleanUp \/ RenewDueAccount \/ TimeStep
    BY <1>31, <2>1, <2>4 DEF CleanUp, TimeStep, TokenNears, RetryDue, CircuitCools, AttemptIsLate
  <2>5. CASE Disturbance
    BY <1>29, <1>32, <2>1, <2>5 DEF Disturbance, SellerRevokes, LoseLock
  <2>6. CASE UNCHANGED vars
    BY <2>6 DEF vars
  <2> QED
    BY <2>2, <2>3, <2>4, <2>5, <2>6 DEF Next
<1>34. \A d \in Callers : calls'[d] = calls[d] \/ OK(calls'[d])
  BY <1>33
<1> QED
  BY <1>1, <1>34, CallsStayOK, ConnectionAssumption

---------------------------------------------------------------------------
(* The theorems                                                            *)

\* The inductive invariant holds of every state that can be reached.
THEOREM SoundTheorem == Spec => []Sound
<1>1. Init => TypeOK
  BY ConnectionAssumption, ConnectionInit
<1>2. Init => Sound
  <2> SUFFICES ASSUME Init PROVE Sound
    OBVIOUS
  <2>0. acct.token \in {0, 1} /\ acct.status # "TOKEN_EXPIRED"
    <3>1. CASE acct = FreshRow
      BY <3>1 DEF FreshRow
    <3>2. CASE acct = [FreshRow EXCEPT !.status = "CONNECTED", !.token = 1, !.known = TRUE]
      BY <3>2 DEF FreshRow
    <3>3. CASE acct = [FreshRow EXCEPT !.status = "ERROR", !.token = 1, !.known = TRUE,
                                       !.failure = "recoverable"]
      BY <3>3 DEF FreshRow
    <3> QED
      BY <3>1, <3>2, <3>3 DEF Init
  <2>1. acct.token <= issued
    BY <2>0 DEF Init
  <2>2. ExpiredIsConfirmed
    BY <2>0 DEF ExpiredIsConfirmed
  <2>3. TokenFromSuccess
    <3>1. 1 \in Tokens
      BY ConnectionAssumption DEF Tokens
    <3> QED
      BY <2>0, <3>1 DEF Init, TokenFromSuccess
  <2>4. CallsOK
    <3>1. acct \in Row /\ issued \in Tokens /\ \A c \in Callers : calls[c] = Idle
      BY <1>1 DEF Init, TypeOK
    <3> QED
      BY <3>1, IdleOK, ConnectionAssumption DEF CallsOK
  <2> QED
    BY <1>1, <2>1, <2>2, <2>3, <2>4 DEF Sound
<1>3. Sound /\ [Next]_vars => Sound'
  <2> SUFFICES ASSUME Sound, [Next]_vars PROVE Sound'
    OBVIOUS
  <2> QED
    BY TypeInductive, StepKeepsGrant, StepKeepsCalls, ConnectionAssumption DEF Sound
<1> QED
  BY <1>2, <1>3, PTL DEF Spec

\* A late answer, or a call that lost its lock, never expires a connection whose
\* refresh token the provider still accepts.
THEOREM ExpiredTheorem == Spec => []ExpiredIsConfirmed
<1>1. Sound => ExpiredIsConfirmed
  BY DEF Sound
<1> QED
  BY <1>1, SoundTheorem, PTL

\* The stored tokens descend from an attempt that is SUCCESS.
THEOREM FromSuccessTheorem == Spec => []TokenFromSuccess
<1>1. Sound => TokenFromSuccess
  BY DEF Sound
<1> QED
  BY <1>1, SoundTheorem, PTL

\* Stored tokens are only replaced by ones issued later.
THEOREM TokensTheorem == Spec => TokensNeverRegress
<1>1. Sound /\ [Next]_vars => [acct'.token # acct.token => acct'.token > acct.token]_acct
  <2> SUFFICES ASSUME Sound, [Next]_vars, acct'.token # acct.token PROVE acct'.token > acct.token
    OBVIOUS
  <2>1. PICK c \in Callers : RowTakesTokens(c)
    BY RowsWritten, ConnectionAssumption DEF RowKeepsTokens
  <2>2. CallOK(calls[c], acct, issued, origin, accepted)
    BY DEF Sound, CallsOK
  <2> QED
    BY <2>1, <2>2 DEF RowTakesTokens, CallOK, Current
<1> QED
  BY <1>1, SoundTheorem, PTL DEF Spec, TokensNeverRegress

\* A closed attempt never changes: the job and a late callback never both end it.
THEOREM AttemptsTheorem == Spec => ClosedAttemptsFrozen
<1>1. TypeOK /\ [Next]_vars =>
        [\A r \in Requests : requests[r].status \in Closed => requests'[r] = requests[r]]_requests
  BY StepKeepsClosed, ConnectionAssumption
<1> QED
  BY <1>1, ConnectionTypeTheorem, PTL DEF Spec, ClosedAttemptsFrozen

---------------------------------------------------------------------------
(* Without failures: the lock keeps the calls apart                        *)

Undamaged == budget.faults = MaxFaults

\* Between its acquisition and its last write a call holds the lock.
HoldsLock == \A c \in Callers : calls[c].phase \in {"locked", "sent", "answered"} => lock = c

\* What a call read under the lock is still the row.
ReadIsCurrent == \A c \in Callers : calls[c].phase \in {"sent", "answered"} => Current(c)

\* The attempt of a callback is its own, and open until the callback closes it.
OnAttempt(c) ==
    calls[c].kind = "callback" /\ calls[c].phase \in Phases \ {"idle", "marking"}

AttemptIsOwn ==
    /\ \A c \in Callers : OnAttempt(c) =>
          requests[calls[c].request].status = "PROCESSING" /\ ~requests[calls[c].request].late
    /\ \A c, d \in Callers : OnAttempt(c) /\ OnAttempt(d) /\ c # d =>
          calls[c].request # calls[d].request

\* The provider has decided, and accepts the token it handed out.
AnswersDecide ==
    \A c \in Callers : calls[c].phase = "answered" =>
       /\ calls[c].answer \in {"success", "invalid_grant"}
       /\ calls[c].answer = "success" /\ ~revoked => calls[c].token \in accepted

StoredIsAccepted ==
    ~revoked /\ acct.status = "CONNECTED" /\ (\A c \in Callers : calls[c].phase # "answered")
        => acct.token \in accepted

GrantInv ==
    /\ budget.faults <= MaxFaults
    /\ acct.token # 0 => acct.known
    /\ acct.status = "CONNECTED" => acct.token # 0
    /\ Undamaged => /\ circuit = {}
                    /\ HoldsLock
                    /\ ReadIsCurrent
                    /\ AttemptIsOwn
                    /\ AnswersDecide
                    /\ StoredIsAccepted

LEMMA BudgetSpent ==
  ASSUME TypeOK, budget.faults <= MaxFaults, ConnectionAssumption, [Next]_vars
  PROVE  /\ budget'.faults <= MaxFaults
         /\ Undamaged' => Undamaged /\ ~Fault
<1>1. budget \in [{"calls", "faults"} -> Nat] /\ MaxFaults \in Nat
  BY ConnectionAssumption DEF TypeOK
<1>2. budget.faults \in Nat
  BY <1>1
<1>3. ASSUME NEW what, Spend(what)
      PROVE  /\ budget'.faults <= budget.faults
             /\ "faults" \in what => budget'.faults < budget.faults
  BY <1>1, <1>2, <1>3 DEF Spend
<1>4. UNCHANGED budget \/ \E what : Spend(what)
  BY DEF Next, UserStep, CallStep, TimeStep, Disturbance, vars, Fault,
       EnsureValidAccessToken, RecoverConnection, AccountBusy, TryAcquire, AttemptRefresh,
       EndOrDecryptionFails, DeferRefresh, MarkError, MarkTokenExpired, ApplyRefreshedTokens,
       ProviderAccepts, ProviderRejects, StartConnection, ClaimByState, SendCode, ApplyConnection,
       ExchangeSucceeds, ExchangeFails, SellerTaken, FinalizeFailure, CleanUp,
       RenewDueAccount, RetryDue, TokenNears, CircuitCools, AttemptIsLate, SellerRevokes,
       LoseLock, Throws, Crash
<1>5. budget'.faults <= budget.faults
  BY <1>2, <1>3, <1>4
<1>6. budget'.faults \in Nat
  BY TypeInductive, ConnectionAssumption DEF TypeOK
<1>7. Fault => budget'.faults < budget.faults
  BY <1>3 DEF Fault
<1> QED
  BY <1>1, <1>2, <1>5, <1>6, <1>7 DEF Undamaged

\* An account that was never connected has no tokens, and a connected one has.
LEMMA RowStaysKnown ==
  ASSUME Sound, ConnectionAssumption, [Next]_vars,
         acct.token # 0 => acct.known, acct.status = "CONNECTED" => acct.token # 0
  PROVE  /\ acct'.token # 0 => acct'.known
         /\ acct'.status = "CONNECTED" => acct'.token # 0
<1>1. acct \in Row
  BY DEF Sound, TypeOK
<1>2. ASSUME NEW c \in Callers, Current(c), calls[c].phase = "answered", calls[c].answer = "success"
      PROVE  calls[c].token # 0 /\ (calls[c].kind # "callback" => acct.token # 0)
  <2>1. CallOK(calls[c], acct, issued, origin, accepted) /\ acct.token \in Nat
    BY <1>1, ConnectionAssumption DEF Sound, CallsOK, Row
  <2> QED
    BY <1>2, <2>1 DEF CallOK, Current
<1>3. ASSUME NEW c \in Callers, ApplyRefreshedTokens(c)
      PROVE  (acct'.token # 0 => acct'.known) /\ (acct'.status = "CONNECTED" => acct'.token # 0)
  <2>1. RefreshedRow(c).token = calls[c].token /\ RefreshedRow(c).known = acct.known
    BY DEF RefreshedRow
  <2> QED
    BY <1>2, <1>3, <2>1 DEF ApplyRefreshedTokens, At, Is
<1>4. ASSUME NEW c \in Callers, ApplyConnection(c)
      PROVE  (acct'.token # 0 => acct'.known) /\ (acct'.status = "CONNECTED" => acct'.token # 0)
  <2>1. ConnectedRow(c).token = calls[c].token /\ ConnectedRow(c).known
    BY DEF ConnectedRow
  <2>2. calls[c].answer = "success"
    BY <1>4 DEF ApplyConnection, At, Is, Sound, CallsOK, CallOK
  <2> QED
    BY <1>2, <1>4, <2>1, <2>2 DEF ApplyConnection, At
<1>5. ASSUME NEW row, row.token = acct.token, row.known = acct.known,
             row.status # "CONNECTED" \/ row.status = acct.status, acct' = row
      PROVE  (acct'.token # 0 => acct'.known) /\ (acct'.status = "CONNECTED" => acct'.token # 0)
  BY <1>5
<1>6. /\ RejectedRow.token = acct.token /\ RejectedRow.known = acct.known
      /\ RejectedRow.status = "TOKEN_EXPIRED"
  BY <1>1 DEF RejectedRow, Row
<1>7. /\ DeferredRow.token = acct.token /\ DeferredRow.known = acct.known
      /\ DeferredRow.status = acct.status
  BY <1>1 DEF DeferredRow, Row
<1>8. ASSUME NEW c \in Callers, MarkError(c)
      PROVE  (acct'.token # 0 => acct'.known) /\ (acct'.status = "CONNECTED" => acct'.token # 0)
  <2> DEFINE row == [acct EXCEPT !.status = "ERROR", !.failure = calls[c].code]
  <2>1. row.token = acct.token /\ row.known = acct.known /\ row.status = "ERROR"
    BY <1>1 DEF Row
  <2>2. acct' = row \/ UNCHANGED acct
    BY <1>8 DEF MarkError
  <2> HIDE DEF row
  <2> QED
    BY <1>5, <2>1, <2>2
<1>9. ASSUME RetryDue
      PROVE  (acct'.token # 0 => acct'.known) /\ (acct'.status = "CONNECTED" => acct'.token # 0)
  <2> DEFINE row == [acct EXCEPT !.retryLater = FALSE]
  <2>1. row.token = acct.token /\ row.known = acct.known /\ row.status = acct.status
    BY <1>1 DEF Row
  <2>2. acct' = row
    BY <1>9 DEF RetryDue
  <2> HIDE DEF row
  <2> QED
    BY <1>5, <2>1, <2>2
<1>10. ASSUME NEW c \in Callers, MarkTokenExpired(c) \/ DeferRefresh(c)
       PROVE  (acct'.token # 0 => acct'.known) /\ (acct'.status = "CONNECTED" => acct'.token # 0)
  BY <1>5, <1>6, <1>7, <1>10 DEF MarkTokenExpired, DeferRefresh
<1> QED
  BY <1>3, <1>4, <1>8, <1>9, <1>10, RowWriters

Held == {"locked", "sent", "answered"}

\* One call moves: it holds the lock if it goes on with it, and takes it from
\* nobody.
LEMMA LockKept ==
  ASSUME HoldsLock, NEW c \in Callers, \A d \in Callers : d # c => calls'[d] = calls[d],
         calls'[c].phase \in Held => lock' = c,
         lock' = lock \/ lock \in {c, NoCaller}, NoCaller \notin Callers
  PROVE  HoldsLock'
BY DEF HoldsLock, Held

LEMMA HoldsLockStays ==
  ASSUME Sound, ConnectionAssumption, HoldsLock, ~Fault, [Next]_vars
  PROVE  HoldsLock'
<1>1. TypeOK /\ NoCaller \notin Callers /\ Users \subseteq Callers /\ Job \in Callers
  BY ConnectionAssumption DEF Sound, Callers
<1>2. /\ Idle.phase = "idle"
      /\ \A k \in Call : \A p : [k EXCEPT !.phase = p].phase = p
  BY DEF Idle, Call
<1>0. Idle \in Call /\ calls \in [Callers -> Call]
  BY <1>1, CallsTyped, ConnectionAssumption DEF TypeOK
<1>3. ASSUME NEW c \in Callers, NEW k, Go(c, k), k.phase \notin Held, UNCHANGED lock
      PROVE  HoldsLock'
  BY <1>1, <1>3, CallGoes, LockKept
<1>4. ASSUME NEW c \in Callers, NEW k, Go(c, k), calls[c].phase \in Held, UNCHANGED lock
      PROVE  HoldsLock'
  BY <1>1, <1>4, CallGoes, LockKept DEF HoldsLock, Held
<1>5. ASSUME NEW c \in Callers, End(c)
      PROVE  HoldsLock'
  BY <1>1, <1>2, <1>5, CallGoes, LockKept DEF End, Freed, Held
<1>6. ASSUME NEW c \in Callers, TryAcquire(c)
      PROVE  HoldsLock'
  BY <1>1, <1>6, CallGoes, LockKept DEF TryAcquire
<1>7. ASSUME NEW c \in Callers, BeginEnsure(c), UNCHANGED lock
      PROVE  HoldsLock'
  <2> DEFINE snapshot == [Idle EXCEPT !.version = acct.version, !.token = acct.token]
  <2>1. snapshot \in Call
    BY <1>1, CallsTyped, ConnectionAssumption
  <2>2. Go(c, Unreadable(snapshot)) \/ Go(c, [snapshot EXCEPT !.phase = "waiting"])
    BY <1>7 DEF BeginEnsure
  <2> HIDE DEF snapshot
  <2>3. Unreadable(snapshot).phase = "marking" /\ [snapshot EXCEPT !.phase = "waiting"].phase = "waiting"
    BY <2>1 DEF Unreadable, Call
  <2> QED
    BY <1>3, <1>7, <2>2, <2>3 DEF Held
<1>8. ASSUME NEW c \in Callers, AccountBusy(c)
      PROVE  HoldsLock'
  BY <1>0, <1>2, <1>3, <1>8 DEF AccountBusy, Held
<1>9. ASSUME NEW c \in Callers, RecoverConnection(c)
      PROVE  HoldsLock'
  <2>1. [Idle EXCEPT !.phase = "waiting", !.kind = "recover"].phase = "waiting"
    BY <1>0 DEF Call
  <2> QED
    BY <1>3, <1>9, <2>1 DEF RecoverConnection, Held
<1>10. ASSUME NEW c \in Callers, NEW r \in Requests, ClaimByState(c, r)
       PROVE  HoldsLock'
  <2>1. PICK phase \in {"waiting", "refused"} :
          Go(c, [Idle EXCEPT !.phase = phase, !.kind = "callback", !.request = r])
    BY <1>10 DEF ClaimByState
  <2>2. [Idle EXCEPT !.phase = phase, !.kind = "callback", !.request = r].phase = phase
    BY <1>0 DEF Call
  <2> QED
    BY <1>3, <1>10, <2>1, <2>2 DEF ClaimByState, Held
<1>11. ASSUME NEW c \in Callers, AttemptRefresh(c)
       PROVE  HoldsLock'
  BY <1>4, <1>5, <1>11 DEF AttemptRefresh, EndOrDecryptionFails, At, Held
<1>12. ASSUME NEW c \in Callers,
              \/ ProviderAccepts(c) \/ ProviderRejects(c) \/ SendCode(c) \/ ExchangeSucceeds(c)
              \/ ExchangeFails(c) \/ SellerTaken(c)
       PROVE  HoldsLock'
  BY <1>4, <1>12
     DEF ProviderAccepts, ProviderRejects, SendCode, ExchangeSucceeds, ExchangeFails, SellerTaken,
         At, Held
<1>13. ASSUME NEW c \in Callers,
              \/ ApplyRefreshedTokens(c) \/ MarkTokenExpired(c) \/ MarkError(c) \/ DeferRefresh(c)
              \/ ApplyConnection(c)
       PROVE  HoldsLock'
  BY <1>4, <1>5, <1>13
     DEF ApplyRefreshedTokens, MarkTokenExpired, MarkError, DeferRefresh, EndOrDecryptionFails,
         ApplyConnection, At, Held
<1>14. ASSUME NEW c \in Callers, FinalizeFailure(c)
       PROVE  HoldsLock'
  <2>1. [calls[c] EXCEPT !.phase = "marking"].phase \notin Held
    BY <1>0, <1>2 DEF Held
  <2>2. End(c) \/ (Go(c, [calls[c] EXCEPT !.phase = "marking"]) /\ UNCHANGED lock)
    BY <1>14 DEF FinalizeFailure
  <2> QED
    BY <1>3, <1>5, <2>1, <2>2
<1>15. ASSUME UNCHANGED <<calls, lock>>
       PROVE  HoldsLock'
  BY <1>15 DEF HoldsLock
<1>16. CASE UserStep
  BY <1>1, <1>7, <1>9, <1>10, <1>15, <1>16
     DEF UserStep, EnsureValidAccessToken, StartConnection
<1>17. ASSUME NEW c \in Callers, CallStep(c)
       PROVE  HoldsLock'
  BY <1>6, <1>8, <1>11, <1>12, <1>13, <1>14, <1>17 DEF CallStep
<1>18. CASE CleanUp \/ RenewDueAccount \/ TimeStep
  BY <1>1, <1>7, <1>15, <1>18
     DEF CleanUp, RenewDueAccount, TimeStep, TokenNears, RetryDue, CircuitCools, AttemptIsLate
<1>19. CASE Disturbance
  BY <1>15, <1>19 DEF Disturbance, SellerRevokes, LoseLock, Throws, Crash
<1> QED
  BY <1>15, <1>16, <1>17, <1>18, <1>19 DEF Next, vars

\* What a step of a call makes of it when nothing fails.
Continues(c) ==
    /\ calls[c].phase # "idle"
    /\ \A d \in Callers : d # c => calls'[d] = calls[d]
    /\ \/ calls'[c].phase \in {"idle", "marking"}
       \/ /\ calls[c].phase # "marking"
          /\ calls'[c].kind = calls[c].kind /\ calls'[c].request = calls[c].request
          /\ \/ calls'[c].phase \in {"locked", "refused"}
             \/ /\ calls'[c].phase = "sent" /\ calls[c].phase = "locked"
                /\ calls'[c].version = acct.version
                /\ UNCHANGED <<acct, accepted, revoked>>
             \/ /\ calls'[c].phase = "answered" /\ calls[c].phase = "sent"
                /\ calls'[c].version = calls[c].version
                /\ calls'[c].answer \in {"success", "invalid_grant"}
                /\ calls'[c].answer = "success" => calls'[c].token \in accepted'
                /\ UNCHANGED <<acct, revoked>>

LEMMA CallContinues ==
  ASSUME Sound, ConnectionAssumption, ~Fault, circuit = {}, NEW c \in Callers, CallStep(c)
  PROVE  Continues(c)
<1>1. TypeOK /\ calls \in [Callers -> Call] /\ calls[c] \in Call /\ Idle \in Call
  BY CallsTyped, ConnectionAssumption DEF Sound, TypeOK
<1>2. Idle.phase = "idle" /\ \A k \in Call : Unreadable(k).phase = "marking"
  BY DEF Idle, Unreadable, Call
<1>3. ASSUME End(c) PROVE calls'[c].phase = "idle" /\ \A d \in Callers : d # c => calls'[d] = calls[d]
  BY <1>1, <1>2, <1>3, CallGoes
<1>4. ASSUME NEW k, Go(c, k) PROVE calls'[c] = k /\ \A d \in Callers : d # c => calls'[d] = calls[d]
  BY <1>1, <1>4, CallGoes
<1>5. ASSUME NEW phase
      PROVE  LET k == [calls[c] EXCEPT !.phase = phase] IN
             k.phase = phase /\ k.kind = calls[c].kind /\ k.request = calls[c].request
  BY <1>1 DEF Call
<1>6. CASE AccountBusy(c)
  <2> DEFINE k == [calls[c] EXCEPT !.phase = "refused"]
  <2>1. Go(c, k) \/ Go(c, Idle)
    BY <1>6 DEF AccountBusy
  <2>2. k.phase = "refused" /\ k.kind = calls[c].kind /\ k.request = calls[c].request
    BY <1>5
  <2> HIDE DEF k
  <2> QED
    BY <1>2, <1>4, <1>6, <2>1, <2>2 DEF AccountBusy, At, Continues
<1>7. CASE TryAcquire(c)
  <2> DEFINE k == [calls[c] EXCEPT !.phase = "locked"]
  <2>1. Go(c, k)
    BY <1>7 DEF TryAcquire
  <2>2. k.phase = "locked" /\ k.kind = calls[c].kind /\ k.request = calls[c].request
    BY <1>5
  <2> HIDE DEF k
  <2> QED
    BY <1>4, <1>7, <2>1, <2>2 DEF TryAcquire, At, Continues
<1>8. CASE AttemptRefresh(c)
  <2> DEFINE k == [Read(c) EXCEPT !.phase = "sent"]
  <2>1. End(c) \/ Go(c, k)
    BY <1>8 DEF AttemptRefresh, EndOrDecryptionFails
  <2>2. /\ k.phase = "sent" /\ k.kind = calls[c].kind /\ k.request = calls[c].request
        /\ k.version = acct.version
    BY <1>1 DEF Read, Call
  <2> HIDE DEF k
  <2> QED
    BY <1>3, <1>4, <1>8, <2>1, <2>2 DEF AttemptRefresh, At, Continues, provider
<1>9. CASE SendCode(c)
  <2> DEFINE k == [calls[c] EXCEPT !.phase = "sent", !.version = acct.version]
  <2>1. Go(c, k)
    BY <1>9 DEF SendCode
  <2>2. /\ k.phase = "sent" /\ k.kind = calls[c].kind /\ k.request = calls[c].request
        /\ k.version = acct.version
    BY <1>1 DEF Call
  <2> HIDE DEF k
  <2> QED
    BY <1>4, <1>9, <2>1, <2>2 DEF SendCode, At, Continues, provider
<1>10. CASE ProviderAccepts(c) \/ ExchangeSucceeds(c)
  <2> DEFINE k == [Answered(c, "success") EXCEPT !.token = issued']
  <2>1. Go(c, k) /\ issued' \in accepted'
    BY <1>10 DEF ProviderAccepts, ExchangeSucceeds
  <2>2. /\ k.phase = "answered" /\ k.kind = calls[c].kind /\ k.request = calls[c].request
        /\ k.version = calls[c].version /\ k.answer = "success" /\ k.token = issued'
    BY <1>1 DEF Answered, Call
  <2> HIDE DEF k
  <2> QED
    BY <1>4, <1>10, <2>1, <2>2 DEF ProviderAccepts, ExchangeSucceeds, At, Continues
<1>11. CASE ProviderRejects(c)
  <2> DEFINE k == Answered(c, "invalid_grant")
  <2>1. Go(c, k)
    BY <1>11 DEF ProviderRejects
  <2>2. /\ k.phase = "answered" /\ k.kind = calls[c].kind /\ k.request = calls[c].request
        /\ k.version = calls[c].version /\ k.answer = "invalid_grant"
    BY <1>1 DEF Answered, Call
  <2> HIDE DEF k
  <2> QED
    BY <1>4, <1>11, <2>1, <2>2 DEF ProviderRejects, At, Continues, provider
<1>12. ASSUME NEW code, Go(c, Refused(c, code)), calls[c].phase \notin {"idle", "marking"}
       PROVE  Continues(c)
  <2>1. /\ Refused(c, code).phase = "refused" /\ Refused(c, code).kind = calls[c].kind
        /\ Refused(c, code).request = calls[c].request
    BY <1>1 DEF Refused, Call
  <2> QED
    BY <1>4, <1>12, <2>1 DEF Continues
<1>13. CASE ExchangeFails(c) \/ SellerTaken(c)
  BY <1>12, <1>13 DEF ExchangeFails, SellerTaken, At
<1>14. CASE ApplyConnection(c)
  BY <1>3, <1>12, <1>14 DEF ApplyConnection, At, Continues
<1>15. CASE FinalizeFailure(c)
  <2> DEFINE k == [calls[c] EXCEPT !.phase = "marking"]
  <2>1. End(c) \/ Go(c, k)
    BY <1>15 DEF FinalizeFailure
  <2>2. k.phase = "marking"
    BY <1>5
  <2> HIDE DEF k
  <2> QED
    BY <1>3, <1>4, <1>15, <2>1, <2>2 DEF FinalizeFailure, At, Continues
<1>16. CASE ApplyRefreshedTokens(c) \/ MarkTokenExpired(c) \/ DeferRefresh(c) \/ MarkError(c)
  BY <1>3, <1>16
     DEF ApplyRefreshedTokens, MarkTokenExpired, DeferRefresh, EndOrDecryptionFails, MarkError,
         At, Continues
<1> QED
  BY <1>6, <1>7, <1>8, <1>9, <1>10, <1>11, <1>13, <1>14, <1>15, <1>16 DEF CallStep

\* What the start of a call makes of it.
Begins(c) ==
    /\ calls[c].phase = "idle"
    /\ \A d \in Callers : d # c => calls'[d] = calls[d]
    /\ calls'[c].phase \in {"waiting", "refused", "marking"}
    /\ UNCHANGED <<acct, accepted, revoked>>

LEMMA CallsMove ==
  ASSUME Sound, ConnectionAssumption, ~Fault, circuit = {}, [Next]_vars
  PROVE  \/ UNCHANGED calls
         \/ \E c \in Callers : CallStep(c) /\ Continues(c)
         \/ \E c \in Callers : Begins(c) /\ calls'[c].kind # "callback" /\ UNCHANGED requests
         \/ \E c \in Callers, r \in Requests :
              ClaimByState(c, r) /\ Begins(c) /\ calls'[c].request = r
<1>1. TypeOK /\ Users \subseteq Callers /\ Job \in Callers /\ Idle \in Call
  BY CallsTyped, ConnectionAssumption DEF Sound, Callers
<1>2. ASSUME NEW c \in Callers, NEW k, Go(c, k), k.phase \in {"waiting", "refused", "marking"},
             calls[c].phase = "idle", UNCHANGED <<acct, accepted, revoked>>
      PROVE  Begins(c) /\ calls'[c] = k
  BY <1>1, <1>2, CallGoes DEF Begins
<1>3. ASSUME NEW c \in Callers, BeginEnsure(c), calls[c].phase = "idle",
             UNCHANGED <<acct, accepted, revoked>>
      PROVE  Begins(c) /\ calls'[c].kind # "callback"
  <2> DEFINE snapshot == [Idle EXCEPT !.version = acct.version, !.token = acct.token]
             waiting == [snapshot EXCEPT !.phase = "waiting"]
  <2>1. snapshot \in Call /\ snapshot.kind = "ensure"
    BY <1>1, CallsTyped, ConnectionAssumption DEF Idle
  <2>2. Go(c, Unreadable(snapshot)) \/ Go(c, waiting)
    BY <1>3 DEF BeginEnsure
  <2> HIDE DEF snapshot
  <2>3. /\ Unreadable(snapshot).phase = "marking" /\ Unreadable(snapshot).kind = "ensure"
        /\ waiting.phase = "waiting" /\ waiting.kind = "ensure"
    BY <2>1 DEF Unreadable, Call
  <2> HIDE DEF waiting
  <2> QED
    BY <1>2, <1>3, <2>2, <2>3
<1>4. ASSUME NEW c \in Users, RecoverConnection(c)
      PROVE  Begins(c) /\ calls'[c].kind # "callback" /\ UNCHANGED requests
  <2> DEFINE k == [Idle EXCEPT !.phase = "waiting", !.kind = "recover"]
  <2>1. k.phase = "waiting" /\ k.kind = "recover"
    BY DEF Idle
  <2>2. Go(c, k)
    BY <1>4 DEF RecoverConnection
  <2> HIDE DEF k
  <2> QED
    BY <1>1, <1>2, <1>4, <2>1, <2>2 DEF RecoverConnection, At, provider
<1>5. ASSUME NEW c \in Users, NEW r \in Requests, ClaimByState(c, r)
      PROVE  Begins(c) /\ calls'[c].request = r
  <2>1. PICK phase \in {"waiting", "refused"} :
          Go(c, [Idle EXCEPT !.phase = phase, !.kind = "callback", !.request = r])
    BY <1>5 DEF ClaimByState
  <2> DEFINE k == [Idle EXCEPT !.phase = phase, !.kind = "callback", !.request = r]
  <2>2. k.phase = phase /\ k.request = r
    BY <1>1 DEF Call
  <2>3. Go(c, k)
    BY <2>1
  <2> HIDE DEF k
  <2> QED
    BY <1>1, <1>2, <1>5, <2>2, <2>3 DEF ClaimByState, At, provider
<1>6. CASE UserStep
  BY <1>1, <1>3, <1>4, <1>5, <1>6
     DEF UserStep, EnsureValidAccessToken, StartConnection, At, provider
<1>7. CASE CleanUp \/ RenewDueAccount \/ TimeStep
  BY <1>1, <1>3, <1>7
     DEF CleanUp, RenewDueAccount, TimeStep, TokenNears, RetryDue, CircuitCools, AttemptIsLate,
         At, provider
<1>8. CASE Disturbance
  BY <1>8 DEF Disturbance, SellerRevokes, LoseLock, Throws, Crash
<1>9. ASSUME NEW c \in Callers, CallStep(c)
      PROVE  Continues(c)
  BY <1>9, CallContinues, ConnectionAssumption
<1> QED
  BY <1>6, <1>7, <1>8, <1>9 DEF Next, vars

\* A call that writes new tokens has received them, and is over.
LEMMA TakerEnds ==
  ASSUME Sound, ConnectionAssumption, [Next]_vars,
         acct'.version # acct.version \/ acct'.token # acct.token
  PROVE  \E c \in Callers :
            /\ ApplyRefreshedTokens(c) \/ ApplyConnection(c)
            /\ calls[c].phase = "answered" /\ calls[c].answer = "success" /\ Current(c)
            /\ calls'[c].phase = "idle"
            /\ acct'.token = calls[c].token
<1>1. acct \in Row /\ TypeOK /\ Idle.phase = "idle"
  BY DEF Sound, TypeOK, Idle
<1>2. ASSUME NEW c \in Callers, MarkTokenExpired(c) \/ DeferRefresh(c) \/ MarkError(c) \/ RetryDue
      PROVE  acct'.version = acct.version /\ acct'.token = acct.token
  BY <1>1, <1>2 DEF MarkTokenExpired, DeferRefresh, MarkError, RetryDue, RejectedRow, DeferredRow, Row
<1>3. Job \in Callers
  BY DEF Callers
<1>4. PICK c \in Callers : ApplyRefreshedTokens(c) \/ ApplyConnection(c)
  BY <1>2, <1>3, RowWriters
<1>5. CASE ApplyRefreshedTokens(c)
  BY <1>1, <1>5, CallGoes DEF ApplyRefreshedTokens, RefreshedRow, At
<1>6. CASE ApplyConnection(c)
  <2>1. calls[c].answer = "success"
    BY <1>6 DEF ApplyConnection, At, Is, Sound, CallsOK, CallOK
  <2> QED
    BY <1>1, <1>6, <2>1, CallGoes DEF ApplyConnection, ConnectedRow, At
<1> QED
  BY <1>4, <1>5, <1>6

\* Only the call that holds the lock counts the version, and then it is over.
LEMMA ReadStaysCurrent ==
  ASSUME Sound, ConnectionAssumption, ~Fault, circuit = {}, HoldsLock, ReadIsCurrent, [Next]_vars
  PROVE  ReadIsCurrent'
<1>1. SUFFICES ASSUME NEW d \in Callers, calls'[d].phase \in {"sent", "answered"}
               PROVE  calls'[d].version = acct'.version
  BY DEF ReadIsCurrent, Current
<1>2. CASE calls'[d] = calls[d]
  <2>1. lock = d /\ calls[d].version = acct.version
    BY <1>1, <1>2 DEF HoldsLock, ReadIsCurrent, Current
  <2>2. acct'.version = acct.version
    BY <1>1, <1>2, <2>1, TakerEnds, ConnectionAssumption DEF HoldsLock
  <2> QED
    BY <1>2, <2>1, <2>2
<1>3. CASE calls'[d] # calls[d]
  <2>1. CASE \E c \in Callers : Continues(c)
    BY <1>1, <1>3, <2>1 DEF Continues, ReadIsCurrent, Current
  <2>2. CASE \E c \in Callers : Begins(c)
    BY <1>1, <1>3, <2>2 DEF Begins
  <2> QED
    BY <1>3, <2>1, <2>2, CallsMove, ConnectionAssumption
<1> QED
  BY <1>2, <1>3

\* What the provider accepts changes while its caller has the lock, or the
\* seller revokes.
LEMMA AcceptedChanges ==
  ASSUME Sound, ConnectionAssumption, ~Fault, [Next]_vars
  PROVE  /\ revoked => revoked'
         /\ \/ accepted' = accepted
            \/ revoked'
            \/ \E c \in Callers : calls[c].phase = "sent" /\ calls'[c].phase = "answered"
<1>1. revoked => revoked'
  BY DEF Next, UserStep, CallStep, TimeStep, Disturbance, vars, provider,
       EnsureValidAccessToken, RecoverConnection, AccountBusy, TryAcquire, AttemptRefresh,
       ProviderRejects, StartConnection, ClaimByState, SendCode, ApplyRefreshedTokens,
       MarkTokenExpired, DeferRefresh, MarkError, RetryDue, ApplyConnection,
       ExchangeFails, SellerTaken, FinalizeFailure, CleanUp, ProviderAccepts, ExchangeSucceeds,
       RenewDueAccount, TokenNears, CircuitCools, AttemptIsLate, SellerRevokes,
       LoseLock, Throws, Crash
<1>2. ASSUME NEW c \in Callers, ProviderAccepts(c) \/ ExchangeSucceeds(c)
      PROVE  calls[c].phase = "sent" /\ calls'[c].phase = "answered"
  <2> DEFINE k == [Answered(c, "success") EXCEPT !.token = issued']
  <2>1. Go(c, k) /\ calls[c].phase = "sent"
    BY <1>2 DEF ProviderAccepts, ExchangeSucceeds, At
  <2>2. k.phase = "answered"
    BY DEF Answered, Sound, TypeOK, Call
  <2> HIDE DEF k
  <2> QED
    BY <2>1, <2>2, CallGoes DEF Sound
<1> QED
  BY <1>1, <1>2, TokenWriters DEF SellerRevokes

LEMMA AnswersStayDecided ==
  ASSUME Sound, ConnectionAssumption, ~Fault, circuit = {}, HoldsLock, AnswersDecide, [Next]_vars
  PROVE  AnswersDecide'
<1>1. SUFFICES ASSUME NEW d \in Callers, calls'[d].phase = "answered"
               PROVE  /\ calls'[d].answer \in {"success", "invalid_grant"}
                      /\ calls'[d].answer = "success" /\ ~revoked' => calls'[d].token \in accepted'
  BY DEF AnswersDecide
<1>2. CASE calls'[d] = calls[d]
  <2>1. lock = d
    BY <1>1, <1>2 DEF HoldsLock
  <2>2. accepted' = accepted \/ revoked'
    BY <1>1, <1>2, <2>1, AcceptedChanges, ConnectionAssumption DEF HoldsLock
  <2> QED
    BY <1>1, <1>2, <2>2, AcceptedChanges, ConnectionAssumption DEF AnswersDecide
<1>3. CASE calls'[d] # calls[d]
  <2>1. CASE \E c \in Callers : Continues(c)
    BY <1>1, <1>3, <2>1 DEF Continues
  <2>2. CASE \E c \in Callers : Begins(c)
    BY <1>1, <1>3, <2>2 DEF Begins
  <2> QED
    BY <1>3, <2>1, <2>2, CallsMove, ConnectionAssumption
<1> QED
  BY <1>2, <1>3

LEMMA CircuitStaysClosed ==
  ASSUME Sound, circuit = {}, AnswersDecide, [Next]_vars
  PROVE  circuit' = {}
<1>1. ASSUME NEW c \in Callers, DeferRefresh(c)
      PROVE  circuit' = {}
  BY <1>1 DEF DeferRefresh, AnswersDecide, At, Deferrals
<1> QED
  BY <1>1
  DEF Next, UserStep, CallStep, TimeStep, Disturbance, vars,
       EnsureValidAccessToken, RecoverConnection, AccountBusy, TryAcquire, AttemptRefresh,
       ProviderRejects, StartConnection, ClaimByState, SendCode, ApplyRefreshedTokens,
       MarkTokenExpired, MarkError, RetryDue, ApplyConnection,
       ExchangeFails, SellerTaken, FinalizeFailure, CleanUp, ProviderAccepts, ExchangeSucceeds,
       RenewDueAccount, TokenNears, CircuitCools, AttemptIsLate, SellerRevokes,
       LoseLock, Throws, Crash

\* The attempt of a callback stays PROCESSING and in time until the callback
\* closes it: starts and clean-ups close only those that are PENDING or late.
LEMMA AttemptStaysOwn ==
  ASSUME Sound, ConnectionAssumption, ~Fault, circuit = {}, AttemptIsOwn, [Next]_vars
  PROVE  AttemptIsOwn'
<1>1. requests \in [Requests -> Attempt] /\ TypeOK /\ TypeOK'
  BY TypeInductive, ConnectionAssumption DEF Sound, TypeOK
<1>2. ASSUME NEW d \in Callers, OnAttempt(d)
      PROVE  /\ calls[d].request \in Requests
             /\ requests[calls[d].request].status = "PROCESSING"
             /\ ~requests[calls[d].request].late
  BY <1>2 DEF AttemptIsOwn, OnAttempt, Sound, CallsOK, CallOK
<1>3. ASSUME NEW d \in Callers, OnAttempt(d), OnAttempt(d)'
      PROVE  requests'[calls[d].request] = requests[calls[d].request]
  <2> DEFINE r == calls[d].request
  <2>1. /\ r \in Requests /\ requests[r].status = "PROCESSING" /\ ~requests[r].late
        /\ d \in Callers /\ calls[d].phase # "idle"
    BY <1>2, <1>3 DEF OnAttempt
  <2>2. \A c \in Callers : OnAttempt(c) /\ c # d => calls[c].request # r
    BY <1>3 DEF AttemptIsOwn
  <2>3. calls'[d].phase \notin {"idle", "marking"}
    BY <1>3 DEF OnAttempt
  <2>4. \A q, status : q # r /\ requests' = Finished(q, status) => requests'[r] = requests[r]
    BY <1>1, <2>1 DEF Finished
  <2> HIDE DEF r
  <2>5. ASSUME NEW c \in Callers, ApplyConnection(c)
        PROVE  requests'[r] = requests[r]
    <3>1. OnAttempt(c)
      BY <2>5 DEF ApplyConnection, At, Is, OnAttempt, Phases
    <3>2. \/ UNCHANGED requests
          \/ End(c) /\ requests' = Finished(calls[c].request, "SUCCESS")
      BY <2>5 DEF ApplyConnection
    <3>3. End(c) => c # d
      BY <1>1, <2>3, CallGoes DEF Idle
    <3> QED
      BY <2>2, <2>4, <3>1, <3>2, <3>3
  <2>6. ASSUME NEW c \in Callers, FinalizeFailure(c)
        PROVE  requests'[r] = requests[r]
    <3>1. OnAttempt(c)
      BY <2>6 DEF FinalizeFailure, At, OnAttempt, Phases, Sound, CallsOK, CallOK
    <3>2. UNCHANGED requests \/ requests' = Finished(calls[c].request, "FAILED")
      BY <2>6 DEF FinalizeFailure
    <3> DEFINE k == [calls[c] EXCEPT !.phase = "marking"]
    <3>3. k.phase = "marking" /\ (End(c) \/ Go(c, k))
      BY <1>1, <2>6 DEF TypeOK, Call, FinalizeFailure
    <3> HIDE DEF k
    <3>4. c # d
      BY <1>1, <2>3, <3>3, CallGoes DEF Idle
    <3> QED
      BY <2>2, <2>4, <3>1, <3>2, <3>4
  <2>7. ASSUME NEW c \in Users, NEW q \in Requests, ClaimByState(c, q)
        PROVE  requests'[r] = requests[r]
    BY <2>1, <2>4, <2>7 DEF ClaimByState
  <2>8. ASSUME NEW q \in Requests, StartConnection(q)
        PROVE  requests'[r] = requests[r]
    BY <2>1, <2>8 DEF StartConnection, WithStatus
  <2>9. ASSUME NEW q \in Requests, AttemptIsLate(q)
        PROVE  requests'[r] = requests[r]
    <3>1. Working(r)
      BY <2>1 DEF Working, At, r
    <3>2. q # r
      BY <2>1, <2>9, <3>1 DEF AttemptIsLate
    <3> QED
      BY <1>1, <2>1, <2>9, <3>2 DEF AttemptIsLate
  <2>10. ASSUME CleanUp
         PROVE  requests'[r] = requests[r]
    BY <2>1, <2>10 DEF CleanUp, Cleaned
  <2>11. requests'[r] = requests[r]
    BY <2>5, <2>6, <2>7, <2>8, <2>9, <2>10, AttemptWriters
  <2> QED
    BY <2>11 DEF r
<1>4. ASSUME NEW d \in Callers, OnAttempt(d)'
      PROVE  \/ OnAttempt(d) /\ calls'[d].request = calls[d].request
             \/ /\ \A e \in Callers : e # d => calls'[e] = calls[e]
                /\ \E r \in Requests : ClaimByState(d, r) /\ calls'[d].request = r
  <2>1. calls'[d].kind = "callback" /\ calls'[d].phase \notin {"idle", "marking"}
        /\ calls[d].phase \in Phases
    BY <1>1, <1>4 DEF OnAttempt, TypeOK, Call
  <2>2. CASE calls'[d] = calls[d]
    BY <2>1, <2>2 DEF OnAttempt
  <2>3. CASE calls'[d] # calls[d] /\ Continues(d)
    BY <2>1, <2>3 DEF OnAttempt, Continues
  <2>4. ASSUME NEW r \in Requests, ClaimByState(d, r), Begins(d), calls'[d].request = r
        PROVE  /\ \A e \in Callers : e # d => calls'[e] = calls[e]
               /\ \E q \in Requests : ClaimByState(d, q) /\ calls'[d].request = q
    BY <2>4 DEF Begins
  <2> QED
    BY <2>1, <2>2, <2>3, <2>4, CallsMove, ConnectionAssumption DEF Continues, Begins
<1>5. ASSUME NEW d \in Callers, NEW r \in Requests, ClaimByState(d, r)
      PROVE  /\ requests[r].status = "PENDING"
             /\ requests'[r].status = "PROCESSING" /\ ~requests'[r].late
  BY <1>1, <1>5 DEF ClaimByState, Finished
<1>6. ASSUME NEW d \in Callers, OnAttempt(d)'
      PROVE  /\ requests'[calls'[d].request].status = "PROCESSING"
             /\ ~requests'[calls'[d].request].late
  BY <1>2, <1>3, <1>4, <1>5, <1>6
<1>7. ASSUME NEW c \in Callers, NEW d \in Callers, OnAttempt(c)', OnAttempt(d)', c # d
      PROVE  calls'[c].request # calls'[d].request
  <2>1. CASE OnAttempt(c) /\ calls'[c].request = calls[c].request /\ OnAttempt(d)
             /\ calls'[d].request = calls[d].request
    BY <1>7, <2>1 DEF AttemptIsOwn
  <2>2. ASSUME NEW e \in Callers, NEW f \in Callers, OnAttempt(f)', e # f,
               \A g \in Callers : g # e => calls'[g] = calls[g],
               NEW r \in Requests, ClaimByState(e, r), calls'[e].request = r
        PROVE  calls'[e].request # calls'[f].request
    <3>1. OnAttempt(f) /\ calls'[f] = calls[f]
      BY <2>2 DEF OnAttempt
    <3> QED
      BY <1>2, <1>5, <2>2, <3>1
  <2> QED
    BY <1>4, <1>7, <2>1, <2>2
<1> QED
  BY <1>6, <1>7 DEF AttemptIsOwn

\* What is stored is accepted again as soon as no answer is on its way.
LEMMA StoredStaysAccepted ==
  ASSUME Sound, ConnectionAssumption, ~Fault, circuit = {}, HoldsLock, ReadIsCurrent,
         AttemptIsOwn, AnswersDecide, StoredIsAccepted, [Next]_vars,
         acct.token # 0 => acct.known, acct.status = "CONNECTED" => acct.token # 0
  PROVE  StoredIsAccepted'
<1>1. SUFFICES ASSUME ~revoked', acct'.status = "CONNECTED",
                      \A c \in Callers : calls'[c].phase # "answered"
               PROVE  acct'.token \in accepted'
  BY DEF StoredIsAccepted
<1>2. ~revoked /\ accepted' = accepted
  BY <1>1, AcceptedChanges, ConnectionAssumption
<1>3. CASE acct'.version # acct.version \/ acct'.token # acct.token
  BY <1>2, <1>3, TakerEnds, ConnectionAssumption DEF AnswersDecide
<1>4. CASE acct'.version = acct.version /\ acct'.token = acct.token
  <2>1. acct \in Row /\ acct.version \in Nat
    BY DEF Sound, TypeOK, Row
  <2>2. ASSUME NEW c \in Callers
        PROVE  ~(ApplyRefreshedTokens(c) /\ acct' = RefreshedRow(c))
               /\ ~(ApplyConnection(c) /\ acct' = ConnectedRow(c))
    BY <1>4, <2>1 DEF RefreshedRow, ConnectedRow
  <2>3. acct.status = "CONNECTED" /\ \A c \in Callers : ~(MarkTokenExpired(c) /\ Current(c))
    <3>1. ASSUME NEW c \in Callers, MarkTokenExpired(c), Current(c)
          PROVE  FALSE
      BY <1>1, <2>1, <3>1 DEF MarkTokenExpired, RejectedRow, Row
    <3>2. ASSUME NEW c \in Callers, MarkError(c)
          PROVE  acct.status = "CONNECTED"
      BY <1>1, <2>1, <3>2 DEF MarkError, Row
    <3>3. ASSUME NEW c \in Callers, DeferRefresh(c) \/ RetryDue
          PROVE  acct.status = "CONNECTED"
      BY <1>1, <2>1, <3>3 DEF DeferRefresh, RetryDue, DeferredRow, Row
    <3>4. Job \in Callers
      BY DEF Callers
    <3>5. ASSUME NEW c \in Callers, ApplyRefreshedTokens(c) \/ ApplyConnection(c)
          PROVE  acct.status = "CONNECTED"
      BY <1>1, <2>2, <3>5 DEF ApplyRefreshedTokens, ApplyConnection
    <3>6. ASSUME NEW c \in Callers, MarkTokenExpired(c)
          PROVE  acct.status = "CONNECTED"
      BY <1>1, <3>1, <3>6 DEF MarkTokenExpired
    <3> QED
      BY <1>1, <3>1, <3>2, <3>3, <3>4, <3>5, <3>6, RowWriters
  <2>4. ASSUME NEW c \in Callers, calls[c].phase = "answered"
        PROVE  FALSE
    <3>1. Current(c) /\ calls[c].answer \in {"success", "invalid_grant"} /\ acct.known
      BY <2>3, <2>4 DEF ReadIsCurrent, AnswersDecide
    <3>2. calls'[c] # calls[c]
      BY <1>1, <2>4
    <3>3. CallStep(c)
      BY <2>4, <3>2, CallsMove, ConnectionAssumption DEF Continues, Begins
    <3>4. \/ ApplyRefreshedTokens(c) \/ MarkTokenExpired(c) \/ DeferRefresh(c)
          \/ ApplyConnection(c) \/ SellerTaken(c)
      BY <2>4, <3>3
         DEF CallStep, AccountBusy, TryAcquire, AttemptRefresh, ProviderAccepts, ProviderRejects,
             MarkError, SendCode, ExchangeSucceeds, ExchangeFails, FinalizeFailure, At
    <3>5. ~DeferRefresh(c) /\ ~SellerTaken(c) /\ ~MarkTokenExpired(c)
      BY <2>3, <3>1 DEF DeferRefresh, SellerTaken, Deferrals
    <3>6. CASE ApplyRefreshedTokens(c)
      BY <2>2, <3>1, <3>6 DEF ApplyRefreshedTokens
    <3>7. CASE ApplyConnection(c)
      <4>1. OnAttempt(c)
        BY <3>7 DEF ApplyConnection, At, Is, OnAttempt, Phases
      <4> QED
        BY <2>2, <3>1, <3>7, <4>1 DEF ApplyConnection, AttemptIsOwn
    <3> QED
      BY <3>4, <3>5, <3>6, <3>7
  <2> QED
    BY <1>2, <1>4, <2>3, <2>4 DEF StoredIsAccepted
<1> QED
  BY <1>3, <1>4

LEMMA GrantInductive ==
  ASSUME Sound, GrantInv, ConnectionAssumption, [Next]_vars
  PROVE  GrantInv'
<1>1. budget'.faults <= MaxFaults /\ (Undamaged' => Undamaged /\ ~Fault)
  BY BudgetSpent, ConnectionAssumption DEF GrantInv, Sound
<1>2. (acct'.token # 0 => acct'.known) /\ (acct'.status = "CONNECTED" => acct'.token # 0)
  BY RowStaysKnown, ConnectionAssumption DEF GrantInv
<1>3. ASSUME Undamaged'
      PROVE  /\ circuit' = {}
             /\ HoldsLock' /\ ReadIsCurrent' /\ AttemptIsOwn' /\ AnswersDecide'
             /\ StoredIsAccepted'
  <2>1. /\ ~Fault /\ circuit = {} /\ HoldsLock /\ ReadIsCurrent /\ AttemptIsOwn
        /\ AnswersDecide /\ StoredIsAccepted
    BY <1>1, <1>3 DEF GrantInv
  <2> QED
    BY <2>1, CircuitStaysClosed, HoldsLockStays, ReadStaysCurrent, AttemptStaysOwn,
       AnswersStayDecided, StoredStaysAccepted, ConnectionAssumption DEF GrantInv
<1> QED
  BY <1>1, <1>2, <1>3 DEF GrantInv

LEMMA GrantInit ==
  ASSUME Init, ConnectionAssumption
  PROVE  GrantInv
<1>1. /\ acct.token # 0 => acct.known
      /\ acct.status = "CONNECTED" => acct.token # 0 /\ acct.token \in accepted
  <2>1. CASE acct = FreshRow
    BY <2>1 DEF FreshRow
  <2>2. CASE /\ acct = [FreshRow EXCEPT !.status = "CONNECTED", !.token = 1, !.known = TRUE]
             /\ accepted = {1}
    BY <2>2 DEF FreshRow
  <2>3. CASE acct = [FreshRow EXCEPT !.status = "ERROR", !.token = 1, !.known = TRUE,
                                     !.failure = "recoverable"]
    BY <2>3 DEF FreshRow
  <2> QED
    BY <2>1, <2>2, <2>3 DEF Init
<1>2. \A c \in Callers : calls[c].phase = "idle"
  BY DEF Init, Idle
<1>3. HoldsLock /\ ReadIsCurrent /\ AttemptIsOwn /\ AnswersDecide /\ StoredIsAccepted
  BY <1>1, <1>2 DEF HoldsLock, ReadIsCurrent, AttemptIsOwn, OnAttempt, AnswersDecide,
                    StoredIsAccepted
<1>4. budget.faults <= MaxFaults /\ circuit = {}
  BY DEF Init, ConnectionAssumption
<1> QED
  BY <1>1, <1>3, <1>4 DEF GrantInv

\* Without failures, and unless the seller revokes it, the account's
\* authorisation is never lost: not to overlapping renewals and recoveries, nor
\* to a callback while a renewal is under way.
THEOREM GrantTheorem == Spec => []GrantNotLost
<1>1. Init => GrantInv
  BY GrantInit, ConnectionAssumption
<1>2. Sound /\ GrantInv /\ [Next]_vars => GrantInv'
  BY GrantInductive, ConnectionAssumption
<1>3. GrantInv => GrantNotLost
  BY DEF GrantInv, GrantNotLost, Undamaged, StoredIsAccepted, Between
<1> QED
  BY <1>1, <1>2, <1>3, SoundTheorem, PTL DEF Spec

===========================================================================
