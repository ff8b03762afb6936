----------------------------- MODULE MCDashboard ------------------------------
(***************************************************************************)
(* The dashboard page alone: two views, one account, one synchronisation   *)
(* whose reload may race a change of the filters.                          *)
(***************************************************************************)
EXTENDS Dashboard

MCViews == {"january", "february"}
MCShopAccounts == {"shop"}
================================================================================
