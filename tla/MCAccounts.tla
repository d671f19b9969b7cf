----------------------------- MODULE MCAccounts -----------------------------
(***************************************************************************)
(* TLC instances of Accounts: three addresses, one of them throw-away;     *)
(* three wrong passwords lock; three sessions; two recovery codes and two  *)
(* pending tokens; five windows of the one-time codes.                     *)
(***************************************************************************)
EXTENDS AccountsProps
=============================================================================
