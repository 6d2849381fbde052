----------------------------- MODULE MCTxClient -----------------------------
(* Two invocations from one account: the same wallet in two tabs.             *)
EXTENDS TxClient

CONSTANTS first, second, wallet

Calls  == {first, second}
Wallet == {wallet}
OneWallet == [c \in Calls |-> wallet]
=============================================================================
