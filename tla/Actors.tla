------------------------------- MODULE Actors -------------------------------
(***************************************************************************)
(* Who sends and from where: the constants the nonce manager, the node and *)
(* the engine modules share.                                               *)
(***************************************************************************)
CONSTANTS Wallets,  \* the accounts a run sends from
          VUs       \* virtual users, the goroutines that send
=============================================================================
