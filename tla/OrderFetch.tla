----------------------------- MODULE OrderFetch -----------------------------
(***************************************************************************)
(* The two fetchAllPages loops: the one of amazon-orders-sync.service.ts   *)
(* follows nextToken, retries transient failures of a page and renews the  *)
(* access token once; the one of mercado-livre-orders-sync.service.ts      *)
(* counts an offset up to the total it is told and gives up at the first   *)
(* failure.  Both stop at safety caps.  The provider answers anything.     *)
(***************************************************************************)
EXTENDS ProviderAnswers, Sequences, FiniteSets, Functions

CONSTANTS
    MaxPages,       \* bound: pages the provider has for the window
    PageSize,       \* ORDERS_PAGE_LIMIT, and the largest page of Amazon
    OrderCap,       \* HARD_SAFETY_ORDER_CAP
    PageCap,        \* HARD_SAFETY_PAGE_CAP
    OffsetCap,      \* HARD_SAFETY_OFFSET_CAP
    MaxRetries,     \* MAX_TRANSIENT_RETRIES_PER_PAGE
    MaxRenewals     \* MAX_TOKEN_RENEWAL_ATTEMPTS

ASSUME FetchAssumption ==
    /\ {MaxPages, PageSize, OrderCap, PageCap, OffsetCap} \subseteq Nat \ {0}
    /\ {MaxRetries, MaxRenewals} \subseteq Nat

VARIABLES
    pages,   \* at the provider: how many orders each page of the window has
    fetch    \* the loop

fetchVars == <<pages, fetch>>

\* page: the one asked for; got: pages received; retries: transientAttempts;
\* result: "running", what is returned, or the code that is thrown
Fetch ==
    [market : {"AMAZON", "ML"}, page : 1..(MaxPages + 1), got : SUBSET (1..MaxPages),
     retries : 0..MaxRetries, renewals : 0..MaxRenewals,
     result : {"running", "whole", "truncated", "PROVIDER_UNAVAILABLE",
               "PROVIDER_RATE_LIMITED", "PROVIDER_REJECTED_REQUEST",
               "INVALID_PROVIDER_RESPONSE", "SYNC_FAILED"}]

\* Every variable of the fetch keeps its type.
FetchTypeOK ==
    /\ pages \in UNION {[1..n -> 0..PageSize] : n \in 1..MaxPages}
    /\ fetch \in Fetch

\* The pages of Mercado Livre are full but for the last one.
FetchInit ==
    /\ pages \in UNION {[1..n -> 0..PageSize] : n \in 1..MaxPages}
    /\ fetch \in {[market |-> m, page |-> 1, got |-> {}, retries |-> 0, renewals |-> 0,
                   result |-> "running"] : m \in {"AMAZON", "ML"}}
    /\ fetch.market = "ML" => \A n \in 1..(Len(pages) - 1) : pages[n] = PageSize

Running == fetch.result = "running"
Throw(code) == fetch' = [fetch EXCEPT !.result = code]

\* a body that validateOrdersSearchResponseBody refuses, because of a single
\* order, counts as an invalid response
Validated(outcome, a) ==
    IF outcome = "success" /\ a.body # "valid" THEN "invalid_response" ELSE outcome

\* anything a connection can bring
AmazonOutcomes == {Validated(SearchOutcome(a), a) : a \in HttpAnswer}
MlOutcomes == {Validated(MlOrdersOutcome(a), a) : a \in HttpAnswer}

\* rawOrders.length after page n has come in
OrdersWith(n) == SumFunctionOnSet(pages, fetch.got \cup {n})

Received == [fetch EXCEPT !.got = @ \cup {fetch.page}, !.page = @ + 1, !.retries = 0]

-----------------------------------------------------------------------------
(* Amazon. *)

\* nextToken is there while more pages are
HasNext == fetch.page < Len(pages)

\* Mutant of AmazonEnd: the cap on pages ends a fetch as if it were whole.
AmazonEndUntold ==
    IF OrdersWith(fetch.page) >= OrderCap THEN (IF HasNext THEN "truncated" ELSE "whole")
    ELSE IF ~HasNext THEN "whole"
    ELSE IF Cardinality(fetch.got) + 1 >= PageCap THEN "whole"
    ELSE "running"

\* the caps are looked at before and after the token, in this order
AmazonEnd ==
    IF OrdersWith(fetch.page) >= OrderCap THEN (IF HasNext THEN "truncated" ELSE "whole")
    ELSE IF ~HasNext THEN "whole"
    ELSE IF Cardinality(fetch.got) + 1 >= PageCap THEN "truncated"
    ELSE "running"

AmazonPage == fetch' = [Received EXCEPT !.result = AmazonEnd]

\* Mutant of AmazonUnauthorized: a renewal forgives the retries of the page
\* and is not counted.
UnauthorizedForgives == fetch' = [fetch EXCEPT !.retries = 0]

\* the renewal itself may throw an error of AmazonAuthService
AmazonUnauthorized ==
    IF fetch.renewals >= MaxRenewals
    THEN Throw("PROVIDER_UNAVAILABLE")
    ELSE \/ fetch' = [fetch EXCEPT !.renewals = @ + 1]
         \/ fetch' = [fetch EXCEPT !.renewals = @ + 1, !.result = "SYNC_FAILED"]

TransientCode(outcome) ==
    IF outcome = "rate_limited" THEN "PROVIDER_RATE_LIMITED" ELSE "PROVIDER_UNAVAILABLE"

AmazonTransient(outcome) ==
    IF fetch.retries + 1 > MaxRetries
    THEN Throw(TransientCode(outcome))
    ELSE fetch' = [fetch EXCEPT !.retries = @ + 1]

AskAmazon ==
    /\ fetch.market = "AMAZON" /\ Running
    /\ \E outcome \in AmazonOutcomes :
           CASE outcome = "success" -> AmazonPage
             [] outcome = "unauthorized" -> AmazonUnauthorized
             [] outcome = "client_error" -> Throw("PROVIDER_REJECTED_REQUEST")
             [] outcome = "invalid_response" -> Throw("INVALID_PROVIDER_RESPONSE")
             [] OTHER -> AmazonTransient(outcome)
    /\ UNCHANGED pages

-----------------------------------------------------------------------------
(* Mercado Livre. *)

Total == SumFunction(pages)

\* the condition of the loop once page n has come in, and its break
MlEnd(n) ==
    IF n * PageSize < Total /\ n * PageSize < OffsetCap /\ pages[n] # 0
    THEN "running" ELSE "whole"

MlPage == fetch' = [Received EXCEPT !.result = MlEnd(fetch.page)]

AskMl ==
    /\ fetch.market = "ML" /\ Running
    /\ \E outcome \in MlOutcomes :
           CASE outcome = "success" -> MlPage
             [] outcome = "rate_limited" -> Throw("PROVIDER_RATE_LIMITED")
             [] outcome = "invalid_response" -> Throw("INVALID_PROVIDER_RESPONSE")
             [] OTHER -> Throw("PROVIDER_UNAVAILABLE")
    /\ UNCHANGED pages

FetchNext == AskAmazon \/ AskMl

\* every request is answered or times out
FetchFairness == WF_fetchVars(FetchNext)

FetchSpec == FetchInit /\ [][FetchNext]_fetchVars

-----------------------------------------------------------------------------
(* A fetch that is not reported as truncated has every order of the        *)
(* window: on Amazon whatever cap it met, on Mercado Livre below the       *)
(* offset cap (amazon-orders-sync.service.ts:405-412).                     *)
WholeIsWhole ==
    fetch.result = "whole" =>
        \A n \in DOMAIN pages :
            \/ pages[n] = 0
            \/ n \in fetch.got
            \/ fetch.market = "ML" /\ (n - 1) * PageSize >= OffsetCap

(* A fetch is typed and tells the truth about what it left out.            *)
FetchInv == FetchTypeOK /\ WholeIsWhole

(* Every fetch ends: a provider that refuses and stalls by turns exhausts  *)
(* the retries of the page or the renewals of the run.                     *)
FetchEnds == []<>(fetch.result # "running")
=============================================================================
