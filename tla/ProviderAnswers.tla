--------------------------- MODULE ProviderAnswers ---------------------------
(***************************************************************************)
(* How the HTTP clients of the backend read an answer of a provider: the   *)
(* token service of Amazon (amazon-lwa.client.ts), the Selling Partner API *)
(* (amazon-sp-api.client.ts), and the orders and shipments of Mercado      *)
(* Livre (mercado-livre-orders-http.client.ts,                             *)
(* mercado-livre-shipment.client.ts).  An answer is the record of what the *)
(* clients look at; each client maps it to one of a closed set of          *)
(* outcomes, in the order of its tests.                                    *)
(***************************************************************************)
EXTENDS Naturals

\* wire: "none" when fetch throws (timeout or network), "cut" when the timer
\* fires while the body is read
\* body: "valid", "invalid" (fails the validator), "garbled" (not JSON, or the
\* connection breaks before its end)
HttpAnswer ==
    [wire : {"none", "cut", "whole"},
     status : {200, 400, 401, 403, 404, 429, 500},
     error : {"invalid_grant", "invalid_client", "other"},
     body : {"valid", "invalid", "garbled"}]

ClientError(a) == a.status \in 400..499
Unreadable(a) == a.wire = "cut" \/ a.body = "garbled"

\* refreshAccessToken of AmazonLwaClient; a 4xx whose body cannot be read has
\* no error code and proves nothing of the refresh token
LwaOutcome(a) ==
    IF a.wire = "none" THEN "unknown_result"
    ELSE IF a.status = 429 THEN "rate_limited"
    ELSE IF ClientError(a) /\ Unreadable(a) THEN "unknown_result"
    ELSE IF ClientError(a) /\ a.error = "invalid_grant" THEN "invalid_grant"
    ELSE IF ClientError(a) /\ a.error = "invalid_client" THEN "client_configuration_error"
    ELSE IF ClientError(a) THEN "unknown_result"
    ELSE IF a.status # 200 THEN "provider_unavailable"
    ELSE IF a.wire = "cut" THEN "unknown_result"
    ELSE IF a.body # "valid" THEN "invalid_response"
    ELSE "success"

\* searchOrders of AmazonSpApiClient
SearchOutcome(a) ==
    IF a.wire = "none" THEN "provider_unavailable"
    ELSE IF a.status \in {401, 403} THEN "unauthorized"
    ELSE IF a.status = 429 THEN "rate_limited"
    ELSE IF ClientError(a) THEN "client_error"
    ELSE IF a.status # 200 THEN "provider_unavailable"
    ELSE IF a.wire = "cut" THEN "provider_unavailable"
    ELSE IF a.body = "garbled" THEN "invalid_response"
    ELSE "success"

\* fetchOrdersPage of MercadoLivreOrdersHttpClient
MlOrdersOutcome(a) ==
    IF a.wire = "none" THEN "provider_unavailable"
    ELSE IF a.status \in {401, 403} THEN "unauthorized"
    ELSE IF a.status = 429 THEN "rate_limited"
    ELSE IF a.status # 200 THEN "provider_unavailable"
    ELSE IF a.wire = "cut" THEN "provider_unavailable"
    ELSE IF a.body = "garbled" THEN "invalid_response"
    ELSE "success"

\* fetchShipment of MercadoLivreShipmentClient
ShipmentOutcome(a) ==
    IF a.wire = "none" THEN "provider_unavailable"
    ELSE IF a.status = 404 THEN "not_found"
    ELSE IF a.status = 429 THEN "rate_limited"
    ELSE IF a.status # 200 THEN "provider_unavailable"
    ELSE IF a.wire = "cut" THEN "provider_unavailable"
    ELSE IF a.body # "valid" THEN "invalid_response"
    ELSE "success"

Sound(status) == [wire |-> "whole", status |-> status, error |-> "other", body |-> "valid"]
=============================================================================
