-------------------------------- MODULE SyncBatch --------------------------------
(***************************************************************************)
(* "Sincronizar todas as lojas" (handleSyncAll of the synchronisation      *)
(* page): the connected accounts are synchronised one after the other, in  *)
(* the order of the page, each by a request of its own.                    *)
(***************************************************************************)
EXTENDS Naturals

CONSTANTS PageAccounts,  \* accounts of the page, Mercado Livre and Amazon
          Connected      \* those a synchronisation can be asked for

ASSUME SyncBatchAssumption == PageAccounts \subseteq Nat \ {0} /\ Connected \subseteq PageAccounts

VARIABLES outcome, \* outcome of each row
          running  \* runningRef, with the row being synchronised; 0 when free

syncBatchVars == <<outcome, running>>
NoRow == 0

\* loadAccounts: accounts that cannot be synchronised are skipped
SyncBatchInit ==
  /\ outcome = [r \in PageAccounts |-> IF r \in Connected THEN "PENDING" ELSE "SKIPPED"]
  /\ running = NoRow

Pending == {r \in PageAccounts : outcome[r] = "PENDING"}
FirstOf(S) == CHOOSE r \in S : \A q \in S : r <= q

\* handleSyncAll: runningRef keeps a second batch out
ClickSyncAll ==
  /\ running = NoRow /\ Pending # {}
  /\ running' = FirstOf(Pending)
  /\ UNCHANGED outcome

\* the loop goes on with the next pending row, whatever this one came to
RowAfter(r, result) == IF Pending = {r} THEN NoRow ELSE FirstOf(Pending \ {r})

RowAnswers(result) ==
  /\ running # NoRow
  /\ outcome' = [outcome EXCEPT ![running] = result]
  /\ running' = RowAfter(running, result)

SyncBatchNext ==
  \/ ClickSyncAll
  \/ RowAnswers("SUCCESS")
  \/ RowAnswers("FAILED")

\* every request is answered or fails; nobody has to click again
SyncBatchFairness == WF_syncBatchVars(RowAnswers("SUCCESS") \/ RowAnswers("FAILED"))

SyncBatchSpec == SyncBatchInit /\ [][SyncBatchNext]_syncBatchVars /\ SyncBatchFairness

SyncBatchTypeOK ==
  /\ outcome \in [PageAccounts -> {"PENDING", "SKIPPED", "SUCCESS", "FAILED"}]
  /\ running \in PageAccounts \cup {NoRow}

\* A batch once begun reaches every connected account and no other: a row
\* that fails does not keep the rows behind it waiting for another click.
BatchReachesEveryRow ==
  [](running # NoRow => running \in Connected) /\ []<>(Pending = {} \/ Pending = Connected)
================================================================================
