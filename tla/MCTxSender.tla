------------------------------ MODULE MCTxSender ------------------------------
(* Two goroutines on one key, one a relay; the price is fixed or follows the   *)
(* node's suggestion times 1.5, so that a retry replaces what is pending; a    *)
(* configuration with both is refused.                                         *)
EXTENDS TxSender
CONSTANTS submit, relay

MCCalls == {submit, relay}
MCRelays == {relay}
MCSuggested == {10, 20}
MCGasConfigs == {[fixed |-> 25, multiplier |-> 0], [fixed |-> 0, multiplier |-> 150],
                 [fixed |-> 25, multiplier |-> 150]}
==============================================================================
