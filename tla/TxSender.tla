------------------------------- MODULE TxSender -------------------------------
(***************************************************************************)
(* Sending transactions from one account (utils/chain/tx_utils.go, with    *)
(* ExecuteWithRetry of client/shared/utils.go).  Each call is a goroutine: *)
(* submit1 and submit2 of neighbouring epochs use one key, and so do the   *)
(* queue processor and the timer goroutines of the finalizer.  The node,   *)
(* its pool and the contract are external, modelled from how SendRawTx     *)
(* uses them: every request may fail, and an error from SendTransaction    *)
(* does not tell whether the node has taken the transaction.               *)
(*                                                                         *)
(* A transaction is its nonce, the call that sends it and its gas price:   *)
(* with the same three and the same gas limit the hash is the same, with   *)
(* another gas limit the pool treats it alike.                             *)
(***************************************************************************)
EXTENDS Naturals, FiniteSets

CONSTANTS
  Call,        \* calls of ExecuteWithRetry
  Relays,      \* those that send a relay transaction
  MaxRetries,  \* maxRetries
  Suggested,   \* gas prices that the node suggests
  GasConfigs   \* gas configurations: fixed price, multiplier in hundredths

ASSUME SenderAssumption ==
  /\ Relays \subseteq Call
  /\ MaxRetries \in Nat \ {0}
  /\ Suggested \subseteq Nat
  /\ GasConfigs \subseteq [fixed : Nat, multiplier : Nat]

VARIABLES
  gasConfig,  \* configuration of the account's transactions
  pc,         \* control of each call
  ri,         \* failed attempts of each call
  tx,         \* transaction of the current attempt
  next,       \* chain: nonce of the account in the mined state
  pool,       \* chain: transactions that may still be mined
  mined,      \* chain: mined transactions with their status
  relayed,    \* contract: relay calls whose message is on the chain
  lost        \* history: attempts given up without knowing the outcome

chainVars == <<next, pool, mined, relayed>>
vars == <<gasConfig, pc, ri, tx, chainVars, lost>>

Tx == [nonce : Nat, call : Call, price : Nat]
Open == {"nonce", "prepare", "send", "wait", "receipt"}

\* No goroutine survives a panic.
Alive == \A c \in Call : pc[c] # "panic"

\* validateGasConfig: at most one of the two is set.
ValidGasConfig(g) == g.fixed = 0 \/ g.multiplier = 0

GetGasPrice(suggested) ==
  IF gasConfig.fixed # 0 THEN gasConfig.fixed
  ELSE IF gasConfig.multiplier # 0 THEN (suggested * gasConfig.multiplier) \div 100
  ELSE suggested

\* Mutant of AttemptFails: the attempts start over.
AttemptFailsForever(c) ==
  /\ ri' = [ri EXCEPT ![c] = (@ + 1) % MaxRetries]
  /\ pc' = [pc EXCEPT ![c] = "nonce"]

\* The attempt fails: sleep and try again, or report the failure.
AttemptFails(c) ==
  /\ ri' = [ri EXCEPT ![c] = @ + 1]
  /\ pc' = [pc EXCEPT ![c] = IF ri[c] + 1 < MaxRetries THEN "nonce" ELSE "failed"]

\* Mutant of NonceAt: the nonce after the pending transactions.
NonceAtPending(c) ==
  /\ Alive /\ pc[c] = "nonce"
  /\ \/ /\ pc' = [pc EXCEPT ![c] = "prepare"]
        /\ tx' = [tx EXCEPT ![c].nonce = next + Cardinality({t.nonce : t \in pool})]
        /\ UNCHANGED ri
     \/ AttemptFails(c) /\ UNCHANGED tx
  /\ UNCHANGED <<gasConfig, chainVars, lost>>

\* NonceAt with no block number: the nonce of the mined state.
NonceAt(c) ==
  /\ Alive /\ pc[c] = "nonce"
  /\ \/ /\ pc' = [pc EXCEPT ![c] = "prepare"]
        /\ tx' = [tx EXCEPT ![c].nonce = next]
        /\ UNCHANGED ri
     \/ AttemptFails(c) /\ UNCHANGED tx
  /\ UNCHANGED <<gasConfig, chainVars, lost>>

\* Dry run, gas limit, gas price, chain id and signature.  The dry run of a
\* message that is on the chain fails with a non-fatal error, which counts as
\* success.
Prepare(c) ==
  /\ Alive /\ pc[c] = "prepare"
  /\ \/ /\ pc' = [pc EXCEPT ![c] = "send"]
        /\ \E s \in Suggested : tx' = [tx EXCEPT ![c].price = GetGasPrice(s)]
        /\ UNCHANGED ri
     \/ c \in relayed /\ pc' = [pc EXCEPT ![c] = "ok"] /\ UNCHANGED <<tx, ri>>
     \/ AttemptFails(c) /\ UNCHANGED tx
  /\ UNCHANGED <<gasConfig, chainVars, lost>>

\* The pool refuses a used nonce and, for a nonce it holds, what is not priced
\* higher.
Accepts(t) ==
  /\ t.nonce >= next
  /\ \A u \in pool : u.nonce = t.nonce => u.price < t.price

\* SendTransaction: taken, refused, or an error on the way back.
SendTransaction(c) ==
  /\ Alive /\ pc[c] = "send"
  /\ \/ /\ Accepts(tx[c])
        /\ pool' = pool \cup {tx[c]}
        /\ \/ pc' = [pc EXCEPT ![c] = "wait"] /\ UNCHANGED <<ri, lost>>
           \/ AttemptFails(c) /\ lost' = [lost EXCEPT ![c] = @ + 1]
     \/ AttemptFails(c) /\ UNCHANGED <<pool, lost>>
  /\ UNCHANGED <<gasConfig, tx, next, mined, relayed>>

\* Mutant of ReceiptFound: the status of the receipt is not looked at.
ReceiptFoundOnly(c) ==
  /\ Alive /\ pc[c] = "wait"
  /\ \E m \in mined : m.tx = tx[c]
  /\ pc' = [pc EXCEPT ![c] = "receipt"]
  /\ UNCHANGED <<gasConfig, ri, tx, chainVars, lost>>

\* WaitUntilMined sees the receipt.  For a failed transaction errorReason replays
\* the call: an error or a reason fails the attempt (one that says that the
\* message is relayed is non-fatal), a result shorter than a selector panics.
ReceiptFound(c) ==
  /\ Alive /\ pc[c] = "wait"
  /\ \E m \in mined :
       /\ m.tx = tx[c]
       /\ \/ m.ok /\ pc' = [pc EXCEPT ![c] = "receipt"] /\ UNCHANGED ri
          \/ ~m.ok /\ AttemptFails(c)
          \/ ~m.ok /\ c \in relayed /\ pc' = [pc EXCEPT ![c] = "ok"] /\ UNCHANGED ri
          \/ ~m.ok /\ pc' = [pc EXCEPT ![c] = "panic"] /\ UNCHANGED ri
  /\ UNCHANGED <<gasConfig, tx, chainVars, lost>>

\* WaitUntilMined times out; the transaction stays where it is.
WaitTimeout(c) ==
  /\ Alive /\ pc[c] = "wait"
  /\ AttemptFails(c)
  /\ lost' = [lost EXCEPT ![c] = @ + 1]
  /\ UNCHANGED <<gasConfig, tx, chainVars>>

\* Mutant of TransactionReceipt: an error sends the transaction again at once.
TransactionReceiptOrResend(c) ==
  /\ Alive /\ pc[c] = "receipt"
  /\ pc' \in {[pc EXCEPT ![c] = "ok"], [pc EXCEPT ![c] = "nonce"]}
  /\ UNCHANGED <<gasConfig, ri, tx, chainVars, lost>>

\* The receipt is read once more; an error fails the attempt.
TransactionReceipt(c) ==
  /\ Alive /\ pc[c] = "receipt"
  /\ \/ pc' = [pc EXCEPT ![c] = "ok"] /\ UNCHANGED <<ri, lost>>
     \/ AttemptFails(c) /\ lost' = [lost EXCEPT ![c] = @ + 1]
  /\ UNCHANGED <<gasConfig, tx, chainVars>>

\* A block takes a transaction with the next nonce, also one that was replaced
\* at this node; the others with that nonce are void.  It succeeds or not.
Mine(t) ==
  /\ t \in pool
  /\ t.nonce = next
  /\ next' = next + 1
  /\ pool' = {u \in pool : u.nonce # t.nonce}
  /\ \E ok \in BOOLEAN :
       /\ ok => t.call \notin relayed
       /\ mined' = mined \cup {[tx |-> t, ok |-> ok]}
       /\ relayed' = IF ok /\ t.call \in Relays THEN relayed \cup {t.call} ELSE relayed
  /\ UNCHANGED <<gasConfig, pc, ri, tx, lost>>

\* Another finalizer relays the message of c.
OtherRelays(c) ==
  /\ c \in Relays \ relayed
  /\ relayed' = relayed \cup {c}
  /\ UNCHANGED <<gasConfig, pc, ri, tx, next, pool, mined, lost>>

Init ==
  /\ gasConfig \in {g \in GasConfigs : ValidGasConfig(g)}
  /\ pc = [c \in Call |-> "nonce"]
  /\ ri = [c \in Call |-> 0]
  /\ tx = [c \in Call |-> [nonce |-> 0, call |-> c, price |-> 0]]
  /\ next = 0 /\ pool = {} /\ mined = {} /\ relayed = {}
  /\ lost = [c \in Call |-> 0]

SendRawTx(c) ==
  \/ NonceAt(c) \/ Prepare(c) \/ SendTransaction(c)
  \/ ReceiptFound(c) \/ WaitTimeout(c) \/ TransactionReceipt(c)

Next ==
  \/ \E c \in Call : SendRawTx(c) \/ OtherRelays(c)
  \/ \E t \in pool : Mine(t)

Spec == Init /\ [][Next]_vars

\* Requests return and WaitUntilMined has a timeout, so each goroutine goes on;
\* that the chain mines anything is not assumed.
FairSpec == Spec /\ \A c \in Call : WF_vars(SendRawTx(c))

(***************************************************************************)
(* Properties.                                                             *)
(***************************************************************************)

TypeOK ==
  /\ gasConfig \in GasConfigs
  /\ pc \in [Call -> Open \cup {"ok", "failed", "panic"}]
  /\ ri \in [Call -> 0 .. MaxRetries]
  /\ tx \in [Call -> Tx]
  /\ next \in Nat /\ pool \subseteq Tx
  /\ mined \subseteq [tx : Tx, ok : BOOLEAN]
  /\ relayed \subseteq Relays
  /\ lost \in [Call -> 0 .. MaxRetries]

\* What a call has reported, and its transactions that succeeded: the state of
\* TxPromise.
Result == [c \in Call |-> IF pc[c] \in {"ok", "failed"} THEN pc[c] ELSE "open"]
Landed ==
  [c \in Call |-> {m.tx.nonce : m \in {x \in mined : x.ok /\ x.tx.call = c}}]

Promise == INSTANCE TxPromise WITH result <- Result, landed <- Landed

\* Concurrent calls on one key keep the promise of TxPromise: when a call reports
\* success its transaction is on the chain, and no copy of it that an earlier
\* attempt gave up can land any more.
KeepsPromise == Promise!Spec

\* Senders that share the key never queue up behind each other: all that may
\* still be mined has the next nonce, so no transaction waits for a nonce that
\* nobody has sent.
NoNonceGap == \A t \in pool : t.nonce = next

\* A payload is on the chain more often than once only if as many attempts were
\* given up with their transaction out.
CopiesExplained ==
  /\ TypeOK
  /\ \A c \in Call :
       Cardinality(Landed[c]) <= lost[c] + (IF pc[c] \in {"wait", "receipt", "ok"} THEN 1 ELSE 0)

\* Every call reports, even if nothing is ever mined, or a panic ends the process.
CallsReport == \A c \in Call : <>(pc[c] \in {"ok", "failed"} \/ ~Alive)
==============================================================================
