------------------------------- MODULE TxPromise ------------------------------
(***************************************************************************)
(* What a sender of transactions may rely on.  A call of ExecuteWithRetry  *)
(* around SendRawTx is open until it reports.  Success means that the      *)
(* transaction is on the chain and that no further copy of it follows; a   *)
(* relay may also succeed because its message is on the chain already.     *)
(* Failure means nothing: the transaction may have landed, or may land     *)
(* later.                                                                  *)
(***************************************************************************)
CONSTANTS
  Call,    \* calls of ExecuteWithRetry
  Relays   \* those that relay a message; the contract takes a message once

VARIABLES
  result,  \* what each call has reported
  landed   \* nonces of its transactions that succeeded on the chain

vars == <<result, landed>>

Land(c) ==
  /\ result[c] # "ok"
  /\ c \in Relays => landed[c] = {}
  /\ \E n \in landed'[c] \ landed[c] : landed' = [landed EXCEPT ![c] = @ \cup {n}]
  /\ UNCHANGED result

Succeed(c) ==
  /\ result[c] = "open"
  /\ landed[c] # {} \/ c \in Relays
  /\ result' = [result EXCEPT ![c] = "ok"]
  /\ UNCHANGED landed

Fail(c) ==
  /\ result[c] = "open"
  /\ result' = [result EXCEPT ![c] = "failed"]
  /\ UNCHANGED landed

Init ==
  /\ result = [c \in Call |-> "open"]
  /\ landed = [c \in Call |-> {}]

Next == \E c \in Call : Land(c) \/ Succeed(c) \/ Fail(c)

Spec == Init /\ [][Next]_vars
==============================================================================
