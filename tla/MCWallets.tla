------------------------------ MODULE MCWallets ------------------------------
(***************************************************************************)
(* Instances of WalletCommands for TLC.                                    *)
(***************************************************************************)
EXTENDS WalletCommands

CONSTANTS funder, fund
=============================================================================
