---------------------------- MODULE RenewalBatch ----------------------------
(***************************************************************************)
(* Which accounts the renewal job reaches: findConnectedDueForRenewal      *)
(* takes the CONNECTED accounts whose tokens expire first, a batch at a    *)
(* time, of either marketplace, and renewDueAccounts tries each.  What a   *)
(* renewal does to its account is MlConnection.                            *)
(***************************************************************************)
EXTENDS Naturals, Sequences, FiniteSets, SequencesExt

CONSTANTS
    RenewedAccounts,
    NeverRenewed,    \* accounts that stay CONNECTED and due: those of Amazon
                     \* nobody uses, and those whose renewal is deferred
    BatchSize        \* RENEWAL_BATCH_SIZE

ASSUME BatchAssumption ==
    /\ IsFiniteSet(RenewedAccounts)
    /\ NeverRenewed \subseteq RenewedAccounts
    /\ BatchSize \in Nat \ {0}

VARIABLES
    due,       \* CONNECTED accounts within the leeway, earliest expiry first
    batch      \* accounts of the batch in hand that are still to be tried

batchVars == <<due, batch>>

\* Every variable of the batch keeps its type.
BatchTypeOK ==
    /\ due \in UNION {[1..n -> RenewedAccounts] : n \in 0..Cardinality(RenewedAccounts)}
    /\ IsInjective(due)
    /\ batch \in UNION {[1..n -> RenewedAccounts] : n \in 0..BatchSize}

BatchInit ==
    /\ due = <<>>
    /\ batch = <<>>

\* an expiry comes within the leeway; later expiries come later
TokenFallsDue(a) ==
    /\ a \notin Range(due)
    /\ due' = Append(due, a)
    /\ UNCHANGED batch

\* order by token_expires_at, take RENEWAL_BATCH_SIZE
Taken(accounts) ==
    IF Len(accounts) <= BatchSize THEN accounts ELSE SubSeq(accounts, 1, BatchSize)

TakeBatch ==
    /\ batch = <<>> /\ due # <<>>
    /\ batch' = Taken(due)
    /\ UNCHANGED due

\* the accounts without one of them
Without(accounts, a) ==
    RemoveAt(accounts, CHOOSE n \in DOMAIN accounts : accounts[n] = a)

\* a renewed token expires later than every due one: the account leaves
RenewNext ==
    /\ batch # <<>>
    /\ batch' = Tail(batch)
    /\ due' = IF Head(batch) \in NeverRenewed THEN due ELSE Without(due, Head(batch))

BatchNext ==
    \/ \E a \in RenewedAccounts : TokenFallsDue(a)
    \/ TakeBatch
    \/ RenewNext

\* the cron fires every five minutes; nothing makes tokens fall due in time
BatchFairness == WF_batchVars(TakeBatch) /\ WF_batchVars(RenewNext)

BatchSpec == BatchInit /\ [][BatchNext]_batchVars

-----------------------------------------------------------------------------
(* With fewer accounts that cannot be renewed than the batch has places,   *)
(* every other due account is renewed: the order by expiry starves nobody  *)
(* (marketplace-accounts.service.ts:393-396).                              *)
EveryDueAccountIsRenewed ==
    Cardinality(NeverRenewed) < BatchSize =>
        \A a \in RenewedAccounts \ NeverRenewed : []<>(a \notin Range(due))
=============================================================================
