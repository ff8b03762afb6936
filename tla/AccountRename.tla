--------------------------- MODULE AccountRename ---------------------------
(***************************************************************************)
(* MlConnection, and a user who renames the account meanwhile.  rename     *)
(* reads the entity, looks for a duplicate, and saves the entity: save     *)
(* loads the row again and writes every column in which the entity         *)
(* differs, those of the connection included.  The theorems about          *)
(* MlConnection are about an account nobody renames.                       *)
(***************************************************************************)
EXTENDS MlConnection

VARIABLE entity  \* the row as rename read it

NoEntity == <<>>

renameVars == <<vars, entity>>

RenameInit == Init /\ entity = NoEntity

\* findByIdOrFail
ReadEntity ==
    /\ entity = NoEntity
    /\ entity' = acct
    /\ UNCHANGED vars

\* The nickname is another account's, or the process dies.
AbandonRename ==
    /\ entity # NoEntity
    /\ entity' = NoEntity
    /\ UNCHANGED vars

\* repository.save; the nickname itself is left out.
SaveEntity ==
    /\ entity # NoEntity
    /\ acct' = entity
    /\ entity' = NoEntity
    /\ UNCHANGED <<requests, lock, calls, circuit, cron, provider, budget>>

RenameNext ==
    \/ Next /\ UNCHANGED entity
    \/ ReadEntity
    \/ AbandonRename
    \/ SaveEntity

RenameSpec == RenameInit /\ [][RenameNext]_renameVars

---------------------------------------------------------------------------
(* Properties                                                              *)

\* rename: it never touches the status, the tokens or the version.
RenameIsVisual ==
    [][SaveEntity => /\ acct'.status = acct.status
                     /\ acct'.token = acct.token
                     /\ acct'.version = acct.version]_renameVars
===========================================================================
