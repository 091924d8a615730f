----------------------------- MODULE SharedProofs -----------------------------
(***************************************************************************)
(* Proofs about the two parts that the clients share, which are            *)
(* independent of each other: TxSender implements TxPromise, for every set *)
(* of calls, number of retries and gas configuration; the search and the   *)
(* draw of VoterSet are right for every list of voters and weights whose   *)
(* sum fits in 16 bits, and for every value drawn.                         *)
(***************************************************************************)
EXTENDS TxSender, VoterSet, FiniteSetTheorems, TLAPS

\* Leaves without a pragma are for Zenon; the others need arithmetic or records.
USE ZenonT(30)

(***************************************************************************)
(* Sending transactions.                                                   *)
(***************************************************************************)

\* The attempt has read its nonce.
HasNonce(c) == pc[c] \in {"prepare", "send", "wait", "receipt"}

\* What is on the chain: nonces below the next one, and the relays that succeeded.
ChainInv ==
  /\ next \in Nat
  /\ \A t \in pool : t.call \in Call /\ t.nonce = next
  /\ \A m \in mined : m.tx.nonce \in Nat /\ m.tx.nonce < next
  /\ \A m \in mined : m.ok /\ m.tx.call \in Relays => m.tx.call \in relayed
  /\ relayed \subseteq Relays

\* What an attempt knows: its nonce is not beyond the chain, and no transaction
\* of its call that is still in the pool has a higher one.
AttemptInv ==
  /\ gasConfig \in GasConfigs
  /\ tx \in [Call -> Tx]
  /\ pc \in [Call -> Open \cup {"ok", "failed", "panic"}]
  /\ \A c \in Call : tx[c].call = c
  /\ \A c \in Call : HasNonce(c) => tx[c].nonce <= next
  /\ \A t \in pool : HasNonce(t.call) => t.nonce <= tx[t.call].nonce

\* What is known of a call that has its receipt, or has reported success.
ReportInv ==
  /\ \A c \in Call : pc[c] = "receipt" => \E m \in mined : m.tx = tx[c] /\ m.ok
  /\ \A c \in Call :
       pc[c] = "ok" => \/ c \in relayed
                       \/ /\ \E m \in mined : m.tx.call = c /\ m.ok
                          /\ \A t \in pool : t.call # c

IInv == ChainInv /\ AttemptInv /\ ReportInv

\* Nonces with which a payload of c is on the chain or may still get there,
\* without that of an attempt that is waiting for its transaction.
Copies(c) == {t.nonce : t \in {x \in pool : x.call = c}} \cup Landed[c]
Spare(c) == IF pc[c] \in {"wait", "receipt"} THEN Copies(c) \ {tx[c].nonce} ELSE Copies(c)

\* Every such copy is of an attempt that was given up, or is the one reported; a
\* nonce is mined once, and only a failed attempt is given up.
CopyInv ==
  /\ TypeOK
  /\ \A m, l \in mined : m.tx.nonce = l.tx.nonce => m = l
  /\ \A c \in Call : lost[c] <= ri[c] /\ (pc[c] \in Open => ri[c] < MaxRetries)
  /\ \A c \in Call : Cardinality(Spare(c)) <= lost[c] + (IF pc[c] = "ok" THEN 1 ELSE 0)

\* The prices that SendRawTx computes are numbers.
LEMMA PriceType ==
  ASSUME gasConfig \in GasConfigs, NEW s \in Suggested PROVE GetGasPrice(s) \in Nat
BY SMTT(30), SenderAssumption DEF GetGasPrice

\* The invariant holds initially.
LEMMA InitInv == Init => IInv
BY SMTT(30) DEF Init, IInv, ChainInv, AttemptInv, ReportInv, HasNonce, Tx, Open

\* A step of one call, or of the chain, keeps the invariant.
LEMMA StepInv ==
  ASSUME IInv, [Next]_vars PROVE IInv'
<1> USE DEF IInv
<1>1. ASSUME NEW c \in Call, NonceAt(c) PROVE IInv'
  <2> USE <1>1 DEF NonceAt, AttemptFails, chainVars
  <2>1. ChainInv' BY DEF ChainInv
  <2>2. AttemptInv' BY SMTT(30) DEF ChainInv, AttemptInv, HasNonce, Tx, Open
  <2>3. ReportInv' BY SMTT(30) DEF AttemptInv, ReportInv, Open
  <2> QED BY <2>1, <2>2, <2>3
<1>2. ASSUME NEW c \in Call, Prepare(c) PROVE IInv'
  <2> USE <1>2 DEF Prepare, AttemptFails, chainVars
  <2>1. ChainInv' BY DEF ChainInv
  <2>2. AttemptInv' BY SMTT(30), PriceType DEF ChainInv, AttemptInv, HasNonce, Tx, Open
  <2>3. ReportInv' BY SMTT(30) DEF AttemptInv, ReportInv, Open
  <2> QED BY <2>1, <2>2, <2>3
<1>3. ASSUME NEW c \in Call, SendTransaction(c) PROVE IInv'
  <2> USE <1>3 DEF SendTransaction, AttemptFails, Accepts
  <2>1. ChainInv'
    <3>0. tx[c].nonce \in Nat /\ next \in Nat /\ tx[c].nonce <= next
      BY DEF ChainInv, AttemptInv, HasNonce, Tx
    <3>1. Accepts(tx[c]) => tx[c].nonce = next BY SMTT(30), <3>0
    <3>2. tx[c].call = c BY DEF AttemptInv
    <3> QED BY <3>1, <3>2 DEF ChainInv
  <2>2. AttemptInv' BY SMTT(30) DEF ChainInv, AttemptInv, HasNonce, Tx, Open
  <2>3. ReportInv' BY SMTT(30) DEF AttemptInv, ReportInv, Open
  <2> QED BY <2>1, <2>2, <2>3
<1>4. ASSUME NEW c \in Call, ReceiptFound(c) PROVE IInv'
  <2> USE <1>4 DEF ReceiptFound, AttemptFails, chainVars
  <2>1. ChainInv' BY DEF ChainInv
  <2>2. AttemptInv' BY SMTT(30) DEF ChainInv, AttemptInv, HasNonce, Tx, Open
  <2>3. ReportInv' BY SMTT(30) DEF AttemptInv, ReportInv, Open
  <2> QED BY <2>1, <2>2, <2>3
<1>5. ASSUME NEW c \in Call, WaitTimeout(c) PROVE IInv'
  <2> USE <1>5 DEF WaitTimeout, AttemptFails, chainVars
  <2>1. ChainInv' BY DEF ChainInv
  <2>2. AttemptInv' BY SMTT(30) DEF ChainInv, AttemptInv, HasNonce, Tx, Open
  <2>3. ReportInv' BY SMTT(30) DEF AttemptInv, ReportInv, Open
  <2> QED BY SMTT(30), <2>1, <2>2, <2>3
<1>6. ASSUME NEW c \in Call, TransactionReceipt(c) PROVE IInv'
  <2> USE <1>6 DEF TransactionReceipt, AttemptFails, chainVars
  <2>1. ChainInv' BY SMTT(30) DEF ChainInv
  <2>2. AttemptInv' BY SMTT(30) DEF ChainInv, AttemptInv, HasNonce, Tx, Open
  <2>3. \A t \in pool : pc[c] = "receipt" => t.call # c
    BY SMTT(30) DEF ChainInv, AttemptInv, ReportInv, HasNonce, Tx
  <2>4. ReportInv' BY SMTT(30), <2>3 DEF AttemptInv, ReportInv, Open
  <2> QED BY SMTT(30), <2>1, <2>2, <2>4
<1>7. ASSUME NEW t \in pool, Mine(t) PROVE IInv'
  <2> USE <1>7 DEF Mine
  <2>1. pool' = {} BY DEF ChainInv
  <2>2. ChainInv' BY SMTT(30), <2>1 DEF ChainInv
  <2>3. AttemptInv' BY SMTT(30), <2>1 DEF ChainInv, AttemptInv, HasNonce, Tx
  <2>4. ReportInv' BY SMTT(30), <2>1 DEF ReportInv
  <2> QED BY SMTT(30), <2>2, <2>3, <2>4
<1>8. ASSUME NEW c \in Call, OtherRelays(c) PROVE IInv'
  BY SMTT(30), <1>8 DEF OtherRelays, ChainInv, AttemptInv, ReportInv, HasNonce
<1>9. CASE UNCHANGED vars
  BY SMTT(30), <1>9 DEF vars, chainVars, ChainInv, AttemptInv, ReportInv, HasNonce
<1> QED BY <1>1, <1>2, <1>3, <1>4, <1>5, <1>6, <1>7, <1>8, <1>9 DEF Next, SendRawTx

\* The invariant holds in every reachable state.
THEOREM Inductive == Spec => []IInv
<1>1. IInv /\ [Next]_vars => IInv' BY StepInv
<1> QED BY <1>1, InitInv, PTL DEF Spec

\* Senders that share a key never queue up behind each other, whatever their
\* number: NonceAt reads the mined state.
THEOREM NonceTheorem == Spec => []NoNonceGap
<1>1. IInv => NoNonceGap BY DEF IInv, ChainInv, NoNonceGap
<1> QED BY <1>1, Inductive, PTL

(***************************************************************************)
(* Refinement.  A step of TxSender changes the result of one call, or adds *)
(* the next nonce to what one call has on the chain, or neither.           *)
(***************************************************************************)

\* A step of a call that leaves the chain alone changes no more than its result.
LEMMA ReportStep ==
  ASSUME IInv, NEW c \in Call, UNCHANGED mined,
         NEW q \in Open \cup {"ok", "failed", "panic"},
         pc[c] \in Open, pc' = [pc EXCEPT ![c] = q],
         q = "ok" => c \in Relays \/ \E m \in mined : m.tx.call = c /\ m.ok
  PROVE  [Promise!Next]_Promise!vars
<1>1. UNCHANGED Landed BY DEF Landed
<1>2. CASE q = "ok"
  <2>1. Result' = [Result EXCEPT ![c] = "ok"]
    BY <1>2 DEF Result, IInv, AttemptInv
  <2>2. Result[c] = "open" BY DEF Result, Open
  <2>3. Landed[c] # {} \/ c \in Relays BY <1>2 DEF Landed
  <2> QED BY <1>1, <2>1, <2>2, <2>3 DEF Promise!Next, Promise!Succeed
<1>3. CASE q = "failed"
  <2>1. Result' = [Result EXCEPT ![c] = "failed"]
    BY <1>3 DEF Result, IInv, AttemptInv
  <2>2. Result[c] = "open" BY DEF Result, Open
  <2> QED BY <1>1, <2>1, <2>2 DEF Promise!Next, Promise!Fail
<1>4. CASE q \notin {"ok", "failed"}
  <2>1. UNCHANGED Result BY <1>4 DEF Result, IInv, AttemptInv, Open
  <2> QED BY <1>1, <2>1 DEF Promise!vars
<1> QED BY <1>2, <1>3, <1>4

\* Mining a transaction is a Land step of its call, or leaves the promise alone.
LEMMA MineStep ==
  ASSUME IInv, NEW t \in pool, Mine(t) PROVE [Promise!Next]_Promise!vars
<1> DEFINE c == t.call
<1>1. c \in Call /\ t.nonce = next BY DEF IInv, ChainInv
<1>2. UNCHANGED Result BY DEF Mine, Result
<1>3. PICK ok \in BOOLEAN : /\ ok => c \notin relayed
                            /\ mined' = mined \cup {[tx |-> t, ok |-> ok]}
  BY DEF Mine
<1>4. CASE ~ok
  <2>1. UNCHANGED Landed BY SMTT(30), <1>3, <1>4 DEF Landed
  <2> QED BY <1>2, <2>1 DEF Promise!vars
<1>5. CASE ok
  <2>1. next \notin Landed[c] BY SMTT(30), <1>1 DEF Landed, IInv, ChainInv
  <2>2. Landed' = [Landed EXCEPT ![c] = @ \cup {next}]
    <3> DEFINE L(M, d) == {m.tx.nonce : m \in {x \in M : x.ok /\ x.tx.call = d}}
               new == [tx |-> t, ok |-> ok]
    <3>1. new.tx = t /\ new.ok BY <1>5
    <3>2. \A d : L(mined \cup {new}, d) = IF d = c THEN L(mined, d) \cup {next} ELSE L(mined, d)
      <4> HIDE DEF new
      <4> QED BY <1>1, <3>1
    <3> QED BY <1>1, <1>3, <3>2 DEF Landed
  <2>3. Landed'[c] = Landed[c] \cup {next} BY <1>1, <2>2 DEF Landed
  <2>4. Result[c] # "ok" BY <1>1, <1>3, <1>5 DEF Result, IInv, ReportInv
  <2>5. c \in Relays => Landed[c] = {}
    BY <1>1, <1>3, <1>5 DEF Landed, IInv, ChainInv
  <2> QED BY <1>1, <1>2, <2>1, <2>2, <2>3, <2>4, <2>5 DEF Promise!Next, Promise!Land
<1> QED BY <1>4, <1>5

\* Every step of TxSender is a step of TxPromise or changes nothing it speaks of.
LEMMA StepRefines ==
  ASSUME IInv, [Next]_vars PROVE [Promise!Next]_Promise!vars
<1> DEFINE Failing == {"nonce", "failed"}
<1>1. ASSUME NEW c \in Call, AttemptFails(c)
      PROVE  \E q \in Failing : pc' = [pc EXCEPT ![c] = q]
  BY <1>1 DEF AttemptFails
<1>2. ASSUME NEW c \in Call, UNCHANGED mined, pc[c] \in Open, AttemptFails(c)
      PROVE  [Promise!Next]_Promise!vars
  BY <1>1, <1>2, ReportStep DEF Open
<1>3. ASSUME NEW c \in Call, NonceAt(c) PROVE [Promise!Next]_Promise!vars
  BY <1>2, <1>3, ReportStep DEF NonceAt, Open, chainVars
<1>4. ASSUME NEW c \in Call, Prepare(c) PROVE [Promise!Next]_Promise!vars
  <2>1. relayed \subseteq Relays BY DEF IInv, ChainInv
  <2> QED BY <1>2, <1>4, <2>1, ReportStep DEF Prepare, Open, chainVars
<1>5. ASSUME NEW c \in Call, SendTransaction(c) PROVE [Promise!Next]_Promise!vars
  BY <1>2, <1>5, ReportStep DEF SendTransaction, Open
<1>6. ASSUME NEW c \in Call, ReceiptFound(c) PROVE [Promise!Next]_Promise!vars
  <2>1. relayed \subseteq Relays BY DEF IInv, ChainInv
  <2> QED BY <1>2, <1>6, <2>1, ReportStep DEF ReceiptFound, Open, chainVars
<1>7. ASSUME NEW c \in Call, WaitTimeout(c) PROVE [Promise!Next]_Promise!vars
  BY <1>2, <1>7 DEF WaitTimeout, Open, chainVars
<1>8. ASSUME NEW c \in Call, TransactionReceipt(c) PROVE [Promise!Next]_Promise!vars
  <2>1. pc[c] = "receipt" => \E m \in mined : m.tx.call = c /\ m.ok
    BY SMTT(30) DEF IInv, ReportInv, AttemptInv
  <2> QED BY <1>2, <1>8, <2>1, ReportStep DEF TransactionReceipt, Open, chainVars
<1>9. ASSUME NEW c \in Call, OtherRelays(c) PROVE [Promise!Next]_Promise!vars
  BY <1>9 DEF OtherRelays, Promise!vars, Result, Landed
<1>10. CASE UNCHANGED vars
  BY <1>10 DEF vars, chainVars, Promise!vars, Result, Landed
<1> QED BY <1>3, <1>4, <1>5, <1>6, <1>7, <1>8, <1>9, <1>10, MineStep DEF Next, SendRawTx

\* TxSender implements TxPromise: a call that reports success has its transaction
\* on the chain and no copy of it follows, however many goroutines send from the
\* key, however many attempts are given up and whatever the node does.
THEOREM Refinement == Spec => KeepsPromise
<1>1. Init => Promise!Init
  BY SMTT(30) DEF Init, Promise!Init, Result, Landed
<1> QED BY <1>1, Inductive, StepRefines, PTL DEF Spec, KeepsPromise, Promise!Spec

(***************************************************************************)
(* The copies of a payload.                                                *)
(***************************************************************************)

\* The nonces of a call's copies are finitely many.
LEMMA CopiesFinite ==
  ASSUME IInv, NEW c \in Call
  PROVE  /\ IsFiniteSet(Copies(c)) /\ IsFiniteSet(Spare(c)) /\ Spare(c) \subseteq Copies(c)
         /\ Cardinality(Spare(c)) \in Nat
<1>1. next \in Nat /\ \A k \in Copies(c) : k \in Nat /\ k <= next
  BY SMTT(30) DEF IInv, ChainInv, Copies, Landed
<1>2. Copies(c) \in SUBSET Nat
  BY <1>1
<1>3. IsFiniteSet(Copies(c))
  BY <1>1, <1>2, FS_BoundedSetOfNaturals
<1>4. Spare(c) \in SUBSET Copies(c)
  BY DEF Spare
<1>5. IsFiniteSet(Spare(c))
  BY <1>3, <1>4, FS_Subset
<1> QED
  BY <1>3, <1>4, <1>5, FS_CardinalityType

\* A set that has at most one new element is larger by at most one.
LEMMA OneMore ==
  ASSUME NEW S, IsFiniteSet(S), NEW x, NEW T \in SUBSET (S \cup {x})
  PROVE  Cardinality(T) <= Cardinality(S) + 1 /\ Cardinality(T) \in Nat
<1>1. /\ IsFiniteSet(S \cup {x}) /\ Cardinality(S) \in Nat
      /\ Cardinality(S \cup {x}) = IF x \in S THEN Cardinality(S) ELSE Cardinality(S) + 1
  BY FS_AddElement, FS_CardinalityType
<1>2. IsFiniteSet(T) /\ Cardinality(T) <= Cardinality(S \cup {x})
  BY <1>1, FS_Subset
<1>3. Cardinality(T) \in Nat
  BY <1>2, FS_CardinalityType
<1> QED
  BY SMTT(30), <1>1, <1>2, <1>3

\* What a step of the call d has to show.
LEMMA OneCall ==
  ASSUME IInv, CopyInv, NEW d \in Call, TypeOK', pc[d] # "ok",
         mined' = mined, pool' = pool \/ pool' = pool \cup {tx[d]},
         \A c \in Call \ {d} : /\ pc'[c] = pc[c] /\ ri'[c] = ri[c]
                               /\ tx'[c] = tx[c] /\ lost'[c] = lost[c],
         lost'[d] <= ri'[d] /\ (pc'[d] \in Open => ri'[d] < MaxRetries),
         \/ Spare(d)' \subseteq Spare(d) /\ lost'[d] = lost[d]
         \/ /\ \E x : Spare(d)' \subseteq Spare(d) \cup {x}
            /\ lost'[d] = lost[d] + 1 \/ (lost'[d] = lost[d] /\ pc'[d] = "ok")
  PROVE  CopyInv'
<1>1. lost[d] \in Nat
  BY SMTT(30) DEF CopyInv, TypeOK
<1>2. Cardinality(Spare(d)) <= lost[d] /\ Cardinality(Spare(d)) \in Nat /\ IsFiniteSet(Spare(d))
  <2>1. Cardinality(Spare(d)) <= lost[d] + 0
    BY DEF CopyInv
  <2> QED
    BY SMTT(30), <1>1, <2>1, CopiesFinite
<1>3. Cardinality(Spare(d)') <= lost'[d] + (IF pc'[d] = "ok" THEN 1 ELSE 0)
  <2>1. CASE Spare(d)' \subseteq Spare(d) /\ lost'[d] = lost[d]
    <3>1. Cardinality(Spare(d)') <= Cardinality(Spare(d)) /\ Cardinality(Spare(d)') \in Nat
      BY <1>2, <2>1, FS_Subset, FS_CardinalityType
    <3> QED
      BY SMTT(30), <1>1, <1>2, <2>1, <3>1
  <2>2. CASE /\ \E x : Spare(d)' \subseteq Spare(d) \cup {x}
             /\ lost'[d] = lost[d] + 1 \/ (lost'[d] = lost[d] /\ pc'[d] = "ok")
    <3>1. PICK x : Spare(d)' \subseteq Spare(d) \cup {x}
      BY <2>2
    <3>2. Cardinality(Spare(d)') <= Cardinality(Spare(d)) + 1 /\ Cardinality(Spare(d)') \in Nat
      BY <1>2, <3>1, OneMore
    <3> QED
      BY SMTT(30), <1>1, <1>2, <2>2, <3>2
  <2> QED
    BY <2>1, <2>2
<1>4. tx[d].call = d
  BY DEF IInv, AttemptInv
<1>5. ASSUME NEW c \in Call \ {d}
      PROVE  Spare(c)' = Spare(c)
  <2>1. Landed'[c] = Landed[c]
    BY DEF Landed
  <2>2. {x \in pool' : x.call = c} = {x \in pool : x.call = c}
    BY <1>4
  <2>3. Copies(c)' = Copies(c)
    BY <2>1, <2>2 DEF Copies
  <2> QED
    BY <2>3 DEF Spare
<1>6. \A c \in Call : Cardinality(Spare(c)') <= lost'[c] + (IF pc'[c] = "ok" THEN 1 ELSE 0)
  <2>1. ASSUME NEW c \in Call \ {d}
        PROVE  Cardinality(Spare(c)') <= lost'[c] + (IF pc'[c] = "ok" THEN 1 ELSE 0)
    BY <1>5, <2>1 DEF CopyInv
  <2> QED
    BY <1>3, <2>1
<1>7. \A m, l \in mined' : m.tx.nonce = l.tx.nonce => m = l
  BY DEF CopyInv
<1>8. \A c \in Call : lost'[c] <= ri'[c] /\ (pc'[c] \in Open => ri'[c] < MaxRetries)
  BY DEF CopyInv
<1> QED
  BY <1>6, <1>7, <1>8 DEF CopyInv

\* The attempt of d fails.
LEMMA FailedAttempt ==
  ASSUME CopyInv, NEW d \in Call, pc[d] \in Open, AttemptFails(d)
  PROVE  /\ pc' \in [Call -> Open \cup {"ok", "failed", "panic"}] /\ ri' \in [Call -> 0 .. MaxRetries]
         /\ \A c \in Call \ {d} : pc'[c] = pc[c] /\ ri'[c] = ri[c]
         /\ pc'[d] \in {"nonce", "failed"} /\ ri'[d] = ri[d] + 1 /\ ri[d] \in Nat
         /\ lost[d] \in Nat /\ lost[d] <= ri[d] /\ lost[d] + 1 \in 0 .. MaxRetries
         /\ pc'[d] \in Open => ri'[d] < MaxRetries
<1>1. /\ ri \in [Call -> 0 .. MaxRetries] /\ lost \in [Call -> 0 .. MaxRetries]
      /\ pc \in [Call -> Open \cup {"ok", "failed", "panic"}]
  BY DEF CopyInv, TypeOK
<1>2. MaxRetries \in Nat /\ ri[d] < MaxRetries /\ lost[d] <= ri[d]
  BY SenderAssumption DEF CopyInv
<1>3. ri' = [ri EXCEPT ![d] = ri[d] + 1]
      /\ pc' = [pc EXCEPT ![d] = IF ri[d] + 1 < MaxRetries THEN "nonce" ELSE "failed"]
  BY DEF AttemptFails
<1>4. ri[d] \in Nat /\ lost[d] \in Nat /\ ri[d] + 1 \in 0 .. MaxRetries /\ lost[d] + 1 \in 0 .. MaxRetries
  BY SMTT(30), <1>1, <1>2
<1> QED
  BY <1>1, <1>2, <1>3, <1>4 DEF Open

\* The call d goes on, or its attempt fails.
Moves(d) ==
  \/ \E st \in Open \cup {"ok", "panic"} : pc' = [pc EXCEPT ![d] = st] /\ ri' = ri
  \/ AttemptFails(d)

\* A step of d in which no transaction of d is accepted or given up.
LEMMA QuietCall ==
  ASSUME IInv, CopyInv, NEW d \in Call, pc[d] \in Open, Moves(d),
         gasConfig' = gasConfig /\ UNCHANGED chainVars /\ lost' = lost,
         tx' \in [Call -> Tx], \A c \in Call \ {d} : tx'[c] = tx[c],
         \/ Spare(d)' \subseteq Spare(d)
         \/ (\E x : Spare(d)' \subseteq Spare(d) \cup {x}) /\ pc'[d] = "ok"
  PROVE  CopyInv'
<1>1. TypeOK /\ lost[d] <= ri[d] /\ ri[d] < MaxRetries
  BY DEF CopyInv
<1>2. /\ pc' \in [Call -> Open \cup {"ok", "failed", "panic"}] /\ ri' \in [Call -> 0 .. MaxRetries]
      /\ \A c \in Call \ {d} : pc'[c] = pc[c] /\ ri'[c] = ri[c]
      /\ lost'[d] <= ri'[d] /\ (pc'[d] \in Open => ri'[d] < MaxRetries)
  <2>1. CASE \E st \in Open \cup {"ok", "panic"} : pc' = [pc EXCEPT ![d] = st] /\ ri' = ri
    BY SMTT(30), <1>1, <2>1 DEF TypeOK
  <2>2. CASE AttemptFails(d)
    BY SMTT(30), <2>2, FailedAttempt
  <2> QED
    BY <2>1, <2>2 DEF Moves
<1>3. TypeOK'
  BY <1>1, <1>2 DEF TypeOK, chainVars
<1>4. pc[d] # "ok" /\ mined' = mined /\ pool' = pool
  BY DEF Open, chainVars
<1> QED
  BY <1>2, <1>3, <1>4, OneCall

\* A step of d that gives up a transaction.
LEMMA LosingCall ==
  ASSUME IInv, CopyInv, NEW d \in Call, pc[d] \in Open, gasConfig' = gasConfig,
         mined' = mined /\ next' = next /\ relayed' = relayed /\ tx' = tx,
         pool' = pool \/ pool' = pool \cup {tx[d]},
         AttemptFails(d), lost' = [lost EXCEPT ![d] = @ + 1],
         \E x : Spare(d)' \subseteq Spare(d) \cup {x}
  PROVE  CopyInv'
<1>1. TypeOK
  BY DEF CopyInv
<1>2. /\ pc' \in [Call -> Open \cup {"ok", "failed", "panic"}] /\ ri' \in [Call -> 0 .. MaxRetries]
      /\ \A c \in Call \ {d} : pc'[c] = pc[c] /\ ri'[c] = ri[c]
      /\ ri'[d] = ri[d] + 1 /\ ri[d] \in Nat
      /\ lost[d] \in Nat /\ lost[d] <= ri[d] /\ lost[d] + 1 \in 0 .. MaxRetries
      /\ pc'[d] \in Open => ri'[d] < MaxRetries
  BY FailedAttempt
<1>3. lost \in [Call -> 0 .. MaxRetries] /\ tx \in [Call -> Tx]
  BY <1>1 DEF TypeOK
<1>4. /\ lost' \in [Call -> 0 .. MaxRetries] /\ lost'[d] = lost[d] + 1
      /\ \A c \in Call \ {d} : lost'[c] = lost[c]
  BY <1>2, <1>3
<1>5. pool' \subseteq Tx
  BY SMTT(30), <1>1, <1>3 DEF TypeOK
<1>6. TypeOK'
  BY <1>1, <1>2, <1>4, <1>5 DEF TypeOK
<1>7. pc[d] # "ok" /\ lost'[d] <= ri'[d]
  BY SMTT(30), <1>2, <1>4 DEF Open
<1> QED
  BY <1>2, <1>4, <1>6, <1>7, OneCall

\* Spare(c) when the chain does not change.
LEMMA SameCopies ==
  ASSUME IInv, UNCHANGED chainVars, NEW c \in Call
  PROVE  Copies(c)' = Copies(c)
<1>1. Landed' = Landed
  BY DEF Landed, chainVars
<1> QED
  BY <1>1 DEF Copies, chainVars

\* A call keeps the invariant.
LEMMA CallCopies ==
  ASSUME IInv, CopyInv, NEW d \in Call, SendRawTx(d)
  PROVE  CopyInv'
<1>1. TypeOK /\ tx \in [Call -> Tx] /\ pc \in [Call -> Open \cup {"ok", "failed", "panic"}]
      /\ next \in Nat
  BY DEF CopyInv, TypeOK
<1>2. tx[d] \in Tx /\ tx[d].call = d
  BY <1>1 DEF IInv, AttemptInv
<1>3. CASE NonceAt(d)
  <2>1. /\ pc[d] = "nonce" /\ gasConfig' = gasConfig /\ UNCHANGED chainVars /\ UNCHANGED lost
        /\ \/ pc' = [pc EXCEPT ![d] = "prepare"] /\ UNCHANGED ri
           \/ AttemptFails(d)
        /\ tx' = [tx EXCEPT ![d].nonce = next] \/ tx' = tx
    BY <1>3 DEF NonceAt, chainVars
  <2>2. tx' \in [Call -> Tx] /\ \A c \in Call \ {d} : tx'[c] = tx[c]
    BY SMTT(30), <1>1, <2>1 DEF Tx
  <2>3. pc'[d] \in {"prepare", "nonce", "failed"}
    BY <1>1, <2>1 DEF AttemptFails
  <2>4. Spare(d)' = Spare(d)
    BY <2>1, <2>3, SameCopies DEF Spare
  <2>5. pc[d] \in Open /\ Moves(d)
    BY <2>1 DEF Open, Moves
  <2>6. Spare(d)' \subseteq Spare(d) /\ gasConfig' = gasConfig /\ UNCHANGED chainVars /\ lost' = lost
    BY <2>1, <2>4
  <2> QED
    BY <2>2, <2>5, <2>6, QuietCall
<1>4. CASE Prepare(d)
  <2>1. /\ pc[d] = "prepare" /\ gasConfig' = gasConfig /\ UNCHANGED chainVars /\ UNCHANGED lost
        /\ (\E s \in Suggested : tx' = [tx EXCEPT ![d].price = GetGasPrice(s)]) \/ tx' = tx
    BY <1>4 DEF Prepare, chainVars
  <2>2. tx' \in [Call -> Tx] /\ \A c \in Call \ {d} : tx'[c] = tx[c]
    <3>1. CASE tx' = tx
      BY <1>1, <3>1
    <3>2. CASE \E s \in Suggested : tx' = [tx EXCEPT ![d].price = GetGasPrice(s)]
      <4>1. PICK s \in Suggested : tx' = [tx EXCEPT ![d].price = GetGasPrice(s)]
        BY <3>2
      <4>2. GetGasPrice(s) \in Nat
        BY PriceType DEF IInv, AttemptInv
      <4> QED
        BY <1>1, <4>1, <4>2 DEF Tx
    <3> QED
      BY <2>1, <3>1, <3>2
  <2>3. \/ pc' = [pc EXCEPT ![d] = "send"] /\ UNCHANGED ri
        \/ pc' = [pc EXCEPT ![d] = "ok"] /\ UNCHANGED ri
        \/ AttemptFails(d)
    BY <1>4 DEF Prepare
  <2>4. pc'[d] \in {"send", "ok", "nonce", "failed"}
    BY <1>1, <2>3 DEF AttemptFails
  <2>5. Spare(d)' = Spare(d)
    BY <2>1, <2>4, SameCopies DEF Spare
  <2>6. pc[d] \in Open /\ Moves(d)
    BY <2>1, <2>3 DEF Open, Moves
  <2>7. Spare(d)' \subseteq Spare(d) /\ gasConfig' = gasConfig /\ UNCHANGED chainVars /\ lost' = lost
    BY <2>1, <2>5
  <2> QED
    BY <2>2, <2>6, <2>7, QuietCall
<1>5. CASE ReceiptFound(d)
  <2>1. /\ pc[d] = "wait" /\ gasConfig' = gasConfig /\ UNCHANGED chainVars /\ UNCHANGED lost /\ tx' = tx
    BY <1>5 DEF ReceiptFound, chainVars
  <2>2. PICK m \in mined :
       /\ m.tx = tx[d]
       /\ \/ m.ok /\ pc' = [pc EXCEPT ![d] = "receipt"] /\ UNCHANGED ri
          \/ ~m.ok /\ AttemptFails(d)
          \/ ~m.ok /\ d \in relayed /\ pc' = [pc EXCEPT ![d] = "ok"] /\ UNCHANGED ri
          \/ ~m.ok /\ pc' = [pc EXCEPT ![d] = "panic"] /\ UNCHANGED ri
    BY <1>5 DEF ReceiptFound
  <2>3. /\ pc[d] \in Open /\ Moves(d) /\ tx' \in [Call -> Tx] /\ \A c \in Call \ {d} : tx'[c] = tx[c]
        /\ gasConfig' = gasConfig /\ UNCHANGED chainVars /\ lost' = lost
    BY <1>1, <2>1, <2>2 DEF Open, Moves
  <2>4. Spare(d) = Copies(d) \ {tx[d].nonce}
    BY <2>1 DEF Spare
  <2>5. CASE m.ok
    <3>1. pc'[d] = "receipt" /\ pc' = [pc EXCEPT ![d] = "receipt"] /\ UNCHANGED ri
      BY <1>1, <2>2, <2>5
    <3>2. Spare(d)' = Spare(d)
      BY <2>1, <2>4, <3>1, SameCopies DEF Spare
    <3>3. Spare(d)' \subseteq Spare(d)
      BY <3>2
    <3> QED
      BY <2>3, <3>3, QuietCall
  <2>6. CASE ~m.ok
    <3>1. tx[d].nonce \notin Landed[d]
      BY SMTT(30), <2>2, <2>6 DEF CopyInv, Landed
    <3>2. \A t \in pool : t.nonce # tx[d].nonce
      BY SMTT(30), <2>2 DEF IInv, ChainInv
    <3>3. Spare(d) = Copies(d)
      BY <2>4, <3>1, <3>2 DEF Copies
    <3>4. Spare(d)' \subseteq Spare(d)
      BY <2>1, <3>3, SameCopies DEF Spare
    <3> QED
      BY <2>3, <3>4, QuietCall
  <2> QED
    BY <2>5, <2>6
<1>6. CASE WaitTimeout(d) \/ (TransactionReceipt(d) /\ AttemptFails(d))
  <2>1. /\ pc[d] \in {"wait", "receipt"} /\ gasConfig' = gasConfig /\ UNCHANGED chainVars /\ tx' = tx
        /\ AttemptFails(d)
    BY <1>6 DEF WaitTimeout, TransactionReceipt, chainVars
  <2>2. lost' = [lost EXCEPT ![d] = @ + 1]
    <3>1. CASE WaitTimeout(d)
      BY <3>1 DEF WaitTimeout
    <3>2. CASE TransactionReceipt(d)
      <4>1. pc'[d] # "ok"
        BY <1>1, <2>1 DEF AttemptFails
      <4> QED
        BY <1>1, <3>2, <4>1 DEF TransactionReceipt
    <3> QED
      BY <1>6, <3>1, <3>2
  <2>3. Spare(d)' \subseteq Spare(d) \cup {tx[d].nonce}
    BY <2>1, SameCopies DEF Spare
  <2>4. pc[d] \in Open /\ mined' = mined /\ next' = next /\ relayed' = relayed /\ pool' = pool
    BY <2>1 DEF Open, chainVars
  <2> QED
    BY <2>1, <2>2, <2>3, <2>4, LosingCall
<1>7. CASE TransactionReceipt(d) /\ ~AttemptFails(d)
  <2>1. /\ pc[d] = "receipt" /\ gasConfig' = gasConfig /\ UNCHANGED chainVars /\ tx' = tx
        /\ pc' = [pc EXCEPT ![d] = "ok"] /\ UNCHANGED ri /\ UNCHANGED lost
    BY <1>7 DEF TransactionReceipt, chainVars
  <2>2. Spare(d)' \subseteq Spare(d) \cup {tx[d].nonce} /\ pc'[d] = "ok"
    BY <1>1, <2>1, SameCopies DEF Spare
  <2>3. /\ pc[d] \in Open /\ Moves(d) /\ tx' \in [Call -> Tx] /\ \A c \in Call \ {d} : tx'[c] = tx[c]
        /\ gasConfig' = gasConfig /\ UNCHANGED chainVars /\ lost' = lost
    BY <1>1, <2>1 DEF Open, Moves
  <2> QED
    BY <2>2, <2>3, QuietCall
<1>8. CASE SendTransaction(d)
  <2>1. /\ pc[d] = "send" /\ gasConfig' = gasConfig /\ tx' = tx
        /\ next' = next /\ mined' = mined /\ relayed' = relayed /\ pc[d] \in Open
    BY <1>8 DEF SendTransaction, Open
  <2>2. Spare(d) = Copies(d)
    BY <2>1 DEF Spare
  <2>3. CASE AttemptFails(d) /\ UNCHANGED <<pool, lost>>
    <3>1. UNCHANGED chainVars
      BY <2>1, <2>3 DEF chainVars
    <3>2. Spare(d)' \subseteq Spare(d)
      BY <2>2, <3>1, SameCopies DEF Spare
    <3>3. /\ Moves(d) /\ tx' \in [Call -> Tx] /\ \A c \in Call \ {d} : tx'[c] = tx[c]
          /\ gasConfig' = gasConfig /\ UNCHANGED chainVars /\ lost' = lost
      BY <1>1, <2>1, <2>3, <3>1 DEF Moves
    <3> QED
      BY <2>1, <3>2, <3>3, QuietCall
  <2>4. CASE pool' = pool \cup {tx[d]}
    <3>1. Landed' = Landed
      BY <2>1 DEF Landed
    <3>2. {x \in pool' : x.call = d} = {x \in pool : x.call = d} \cup {tx[d]}
      BY <1>2, <2>4
    <3>3. Copies(d)' = Copies(d) \cup {tx[d].nonce}
      BY SMTT(30), <3>1, <3>2 DEF Copies
    <3>4. CASE AttemptFails(d) /\ lost' = [lost EXCEPT ![d] = @ + 1]
      <4>1. Spare(d)' \subseteq Spare(d) \cup {tx[d].nonce}
        BY <2>2, <3>3 DEF Spare
      <4> QED
        BY <2>1, <2>4, <3>4, <4>1, LosingCall
    <3>5. CASE pc' = [pc EXCEPT ![d] = "wait"] /\ UNCHANGED <<ri, lost>>
      <4>1. /\ pc' \in [Call -> Open \cup {"ok", "failed", "panic"}] /\ pc'[d] = "wait"
            /\ \A c \in Call \ {d} : pc'[c] = pc[c]
        BY <1>1, <3>5 DEF Open
      <4>2. Spare(d)' \subseteq Spare(d)
        BY <2>1, <2>2, <3>3, <4>1 DEF Spare
      <4>3. pool' \subseteq Tx
        BY <1>1, <1>2, <2>4 DEF TypeOK
      <4>4. TypeOK'
        BY <1>1, <2>1, <3>5, <4>1, <4>3 DEF TypeOK
      <4>5. lost'[d] <= ri'[d] /\ ri'[d] < MaxRetries /\ pc[d] # "ok"
        BY <2>1, <3>5 DEF CopyInv
      <4> QED
        BY <2>1, <2>4, <3>5, <4>1, <4>2, <4>4, <4>5, OneCall
    <3> QED
      BY <1>8, <2>3, <3>4, <3>5 DEF SendTransaction
  <2> QED
    BY <1>8, <2>3, <2>4 DEF SendTransaction
<1> QED
  BY <1>3, <1>4, <1>5, <1>6, <1>7, <1>8 DEF SendRawTx

\* A block keeps the invariant: a transaction moves from the pool to the chain,
\* the others with its nonce are void.
LEMMA MineCopies ==
  ASSUME IInv, CopyInv, NEW t \in pool, Mine(t)
  PROVE  CopyInv'
<1>1. TypeOK /\ t \in Tx /\ t.nonce = next /\ next \in Nat
  BY DEF CopyInv, TypeOK, Mine
<1>2. /\ UNCHANGED <<gasConfig, pc, ri, tx, lost>>
      /\ next' = next + 1 /\ pool' = {u \in pool : u.nonce # t.nonce}
  BY DEF Mine
<1>3. PICK ok \in BOOLEAN :
        /\ mined' = mined \cup {[tx |-> t, ok |-> ok]}
        /\ relayed' = IF ok /\ t.call \in Relays THEN relayed \cup {t.call} ELSE relayed
  BY DEF Mine
<1>4. TypeOK'
  <2>1. mined' \subseteq [tx : Tx, ok : BOOLEAN]
    <3>1. [tx |-> t, ok |-> ok] \in [tx : Tx, ok : BOOLEAN]
      BY <1>1
    <3> QED
      BY <1>1, <1>3, <3>1 DEF TypeOK
  <2>2. relayed' \subseteq Relays /\ pool' \subseteq Tx /\ next' \in Nat
    BY SMTT(30), <1>1, <1>2, <1>3 DEF TypeOK
  <2> QED
    BY <1>1, <1>2, <2>1, <2>2 DEF TypeOK
<1>5. \A m \in mined : m.tx.nonce # t.nonce
  BY SMTT(30), <1>1 DEF IInv, ChainInv
<1>6. \A m, l \in mined' : m.tx.nonce = l.tx.nonce => m = l
  <2>1. [tx |-> t, ok |-> ok].tx = t
    OBVIOUS
  <2>2. \A m \in mined' : m \in mined \/ m = [tx |-> t, ok |-> ok]
    BY <1>3
  <2> HIDE <1>3
  <2>3. ASSUME NEW m \in mined', NEW l \in mined', m.tx.nonce = l.tx.nonce PROVE m = l
    <3>1. CASE m \in mined /\ l \in mined
      BY <2>3, <3>1 DEF CopyInv
    <3>2. CASE m \notin mined
      BY <1>5, <2>1, <2>2, <2>3, <3>2
    <3>3. CASE l \notin mined
      BY <1>5, <2>1, <2>2, <2>3, <3>3
    <3> QED
      BY <3>1, <3>2, <3>3
  <2> QED
    BY <2>3
<1>7. ASSUME NEW c \in Call
      PROVE  Cardinality(Spare(c)') <= lost'[c] + (IF pc'[c] = "ok" THEN 1 ELSE 0)
  <2>1. \A k \in Landed'[c] : k \in Landed[c] \/ (k = t.nonce /\ t.call = c)
    <3>1. Landed'[c] = {m.tx.nonce : m \in {x \in mined' : x.ok /\ x.tx.call = c}}
          /\ Landed[c] = {m.tx.nonce : m \in {x \in mined : x.ok /\ x.tx.call = c}}
      BY DEF Landed
    <3>2. ASSUME NEW m \in mined', m.ok, m.tx.call = c
          PROVE  m.tx.nonce \in Landed[c] \/ (m.tx.nonce = t.nonce /\ t.call = c)
      <4>1. CASE m \in mined
        BY <3>1, <3>2, <4>1
      <4>2. CASE m = [tx |-> t, ok |-> ok]
        BY <3>2, <4>2
      <4> QED
        BY <1>3, <4>1, <4>2
    <3> QED
      BY <3>1, <3>2
  <2>2. t.call = c => t.nonce \in Copies(c)
    BY DEF Copies
  <2>3. Landed'[c] \subseteq Copies(c)
    BY <2>1, <2>2 DEF Copies
  <2>4. {u.nonce : u \in {x \in pool' : x.call = c}} \subseteq {u.nonce : u \in {x \in pool : x.call = c}}
    BY <1>2
  <2>5. Copies(c)' \subseteq Copies(c)
    BY <2>3, <2>4 DEF Copies
  <2>6. Spare(c)' \in SUBSET Spare(c)
    BY <1>2, <2>5 DEF Spare
  <2>7. Cardinality(Spare(c)') <= Cardinality(Spare(c)) /\ Cardinality(Spare(c)) \in Nat
        /\ Cardinality(Spare(c)') \in Nat
    BY <2>6, CopiesFinite, FS_Subset, FS_CardinalityType
  <2>8. Cardinality(Spare(c)) <= lost[c] + (IF pc[c] = "ok" THEN 1 ELSE 0)
    BY DEF CopyInv
  <2>9. lost[c] \in Nat
    BY SMTT(30), <1>1 DEF TypeOK
  <2> QED
    BY SMTT(30), <1>2, <2>7, <2>8, <2>9
<1>8. \A c \in Call : lost'[c] <= ri'[c] /\ (pc'[c] \in Open => ri'[c] < MaxRetries)
  BY <1>2 DEF CopyInv
<1> QED
  BY <1>4, <1>6, <1>7, <1>8 DEF CopyInv

\* Any other step leaves the copies alone.
LEMMA OtherCopies ==
  ASSUME IInv, CopyInv, UNCHANGED vars \/ \E c \in Call : OtherRelays(c)
  PROVE  CopyInv'
<1>1. UNCHANGED <<gasConfig, pc, ri, tx, next, pool, mined, lost>> /\ relayed' \subseteq Relays
  BY DEF vars, chainVars, OtherRelays, CopyInv, TypeOK
<1>2. \A c \in Call : Spare(c)' = Spare(c)
  <2>1. Landed' = Landed
    BY <1>1 DEF Landed
  <2> QED
    BY <1>1, <2>1 DEF Spare, Copies
<1>3. TypeOK'
  BY <1>1 DEF CopyInv, TypeOK
<1> QED
  BY <1>1, <1>2, <1>3 DEF CopyInv

\* The number of a payload's copies on the chain is bounded by the attempts that
\* SendRawTx gave up with their transaction out, and the one it reports.
THEOREM CopiesTheorem == Spec => []CopiesExplained
<1>1. Init => CopyInv
  <2> SUFFICES ASSUME Init PROVE CopyInv
    OBVIOUS
  <2>1. /\ 0 \in 0 .. MaxRetries /\ 0 < MaxRetries /\ MaxRetries \in Nat
    BY SMTT(30), SenderAssumption
  <2>2. TypeOK
    BY <2>1 DEF Init, TypeOK, Tx, Open
  <2>3. \A c \in Call : Landed[c] = {}
    BY DEF Init, Landed
  <2>4. \A c \in Call : Spare(c) = {}
    BY <2>3 DEF Init, Spare, Copies
  <2>5. \A c \in Call : lost[c] = 0 /\ ri[c] = 0 /\ pc[c] = "nonce" /\ Cardinality(Spare(c)) = 0
    BY <2>4, FS_EmptySet DEF Init
  <2>6. mined = {}
    BY DEF Init
  <2> QED
    BY SMTT(30), <2>1, <2>2, <2>5, <2>6 DEF CopyInv
<1>2. IInv /\ CopyInv /\ [Next]_vars => CopyInv'
  BY CallCopies, MineCopies, OtherCopies DEF Next
<1>3. IInv /\ CopyInv => CopiesExplained
  <2> SUFFICES ASSUME IInv, CopyInv PROVE CopiesExplained
    OBVIOUS
  <2>1. ASSUME NEW c \in Call
        PROVE  Cardinality(Landed[c]) <= lost[c] + (IF pc[c] \in {"wait", "receipt", "ok"} THEN 1 ELSE 0)
    <3>1. /\ Cardinality(Spare(c)) <= lost[c] + (IF pc[c] = "ok" THEN 1 ELSE 0)
          /\ Cardinality(Spare(c)) \in Nat /\ IsFiniteSet(Spare(c))
      BY CopiesFinite DEF CopyInv
    <3>2. lost[c] \in Nat
      BY SMTT(30) DEF CopyInv, TypeOK
    <3>3. CASE pc[c] \in {"wait", "receipt"}
      <4>1. Landed[c] \in SUBSET (Spare(c) \cup {tx[c].nonce})
        BY <3>3 DEF Spare, Copies
      <4>2. Cardinality(Landed[c]) <= Cardinality(Spare(c)) + 1 /\ Cardinality(Landed[c]) \in Nat
        BY <3>1, <4>1, OneMore
      <4> QED
        BY SMTT(30), <3>1, <3>2, <3>3, <4>2
    <3>4. CASE pc[c] \notin {"wait", "receipt"}
      <4>1. Landed[c] \in SUBSET Spare(c)
        BY <3>4 DEF Spare, Copies
      <4>2. Cardinality(Landed[c]) <= Cardinality(Spare(c)) /\ Cardinality(Landed[c]) \in Nat
        BY <3>1, <4>1, FS_Subset, FS_CardinalityType
      <4> QED
        BY SMTT(30), <3>1, <3>2, <3>4, <4>2
    <3> QED
      BY <3>3, <3>4
  <2> QED
    BY <2>1 DEF CopyInv, CopiesExplained
<1> QED
  BY <1>1, <1>2, <1>3, Inductive, PTL DEF Spec

(***************************************************************************)
(* The set of voters.                                                      *)
(***************************************************************************)

\* The shares lie end to end, from 0 to the total weight.
SharesInv ==
  /\ n \in Nat
  /\ weights \in [0 .. n - 1 -> Nat] /\ thresholds \in [0 .. n - 1 -> Nat]
  /\ totalWeight \in Nat
  /\ n = 0 => totalWeight = 0
  /\ n > 0 => thresholds[0] = 0 /\ totalWeight = thresholds[n - 1] + weights[n - 1]
  /\ \A i \in 0 .. n - 2 : thresholds[i + 1] = thresholds[i] + weights[i]

\* The search ends at the share that holds the value, or at an empty one that
\* begins there.
ShareFound ==
  drawPc = "select" =>
    /\ thresholds[index] <= value
    /\ weights[index] = 0 \/ value < thresholds[index] + weights[index]

\* The share that holds the value lies between left - 1 and right.
SearchInv ==
  /\ drawPc # "panic"
  /\ drawPc \in {"begin", "search", "select"} => value \in 0 .. totalWeight - 1
  /\ drawPc = "search" =>
       /\ left \in Nat /\ right \in Nat /\ left <= right /\ right < n
       /\ value < thresholds[right]
       /\ left > 0 => thresholds[left - 1] < value
  /\ drawPc = "select" => index \in 0 .. n - 1
  /\ ShareFound

VoterInv == SharesInv /\ SearchInv

\* A sum that fits in 16 bits is not reduced.
LEMMA NoOverflow ==
  ASSUME NEW x \in Nat, x <= MaxUint16 PROVE x % (MaxUint16 + 1) = x
BY SMTT(30) DEF MaxUint16

\* The invariant holds initially.
LEMMA VoterInitInv == VoterInit => VoterInv
BY SMTT(30) DEF VoterInit, VoterInv, SharesInv, SearchInv, ShareFound

\* A voter more keeps the shares end to end.
LEMMA AddVoterInv ==
  ASSUME VoterInv, NEW a \in Address, NEW w \in Weight, AddVoter(a, w) PROVE VoterInv'
<1> USE VoterSetAssumption
<1>1. totalWeight' = totalWeight + w
  BY SMTT(30), NoOverflow DEF AddVoter, VoterInv, SharesInv
<1>2. SharesInv'
  <2>1. n' = n + 1 /\ n \in Nat BY DEF AddVoter, VoterInv, SharesInv
  <2>2. /\ weights' = [i \in 0 .. n |-> IF i = n THEN w ELSE weights[i]]
        /\ thresholds' = [i \in 0 .. n |-> IF i = n THEN totalWeight ELSE thresholds[i]]
    BY DEF AddVoter, Extend
  <2>3. /\ weights' \in [0 .. n' - 1 -> Nat] /\ thresholds' \in [0 .. n' - 1 -> Nat]
        /\ n' \in Nat /\ totalWeight' \in Nat
    BY SMTT(30), <1>1, <2>1, <2>2 DEF VoterInv, SharesInv
  <2>4. n' > 0 /\ thresholds'[0] = 0 /\ totalWeight' = thresholds'[n' - 1] + weights'[n' - 1]
    BY SMTT(30), <1>1, <2>1, <2>2 DEF VoterInv, SharesInv
  <2>5. ASSUME NEW i \in 0 .. n' - 2
        PROVE  thresholds'[i + 1] = thresholds'[i] + weights'[i]
    <3>1. i \in 0 .. n /\ i + 1 \in 0 .. n /\ i # n BY SMTT(30), <2>1
    <3>2. thresholds'[i] = thresholds[i] /\ weights'[i] = weights[i] BY <2>2, <3>1
    <3>3. CASE i + 1 = n
      <4>1. thresholds'[i + 1] = totalWeight BY SMTT(30), <2>2, <3>1, <3>3
      <4>2. n > 0 /\ i = n - 1 BY SMTT(30), <2>1, <3>1, <3>3
      <4> QED BY SMTT(30), <3>2, <4>1, <4>2 DEF VoterInv, SharesInv
    <3>4. CASE i + 1 # n
      <4>1. i \in 0 .. n - 2 BY SMTT(30), <2>1, <3>1, <3>4
      <4>2. thresholds'[i + 1] = thresholds[i + 1] BY SMTT(30), <2>2, <3>1, <3>4
      <4> QED BY <3>2, <4>1, <4>2 DEF VoterInv, SharesInv
    <3> QED BY <3>3, <3>4
  <2> QED BY SMTT(30), <2>1, <2>3, <2>4, <2>5 DEF SharesInv
<1>3. SearchInv' BY DEF AddVoter, VoterInv, SearchInv, ShareFound, drawVars, searchVars
<1> QED BY <1>2, <1>3 DEF VoterInv

\* The search keeps its bounds around the share.
LEMMA SearchKeepsInv == ASSUME VoterInv, BinarySearch PROVE VoterInv'
<1>1. SharesInv'
  BY DEF VoterInv, SharesInv, BinarySearch, SearchBegin, SearchStep, SearchEnd, setVars
<1>2. ASSUME SearchBegin PROVE SearchInv'
  BY SMTT(30), <1>2 DEF SearchBegin, VoterInv, SharesInv, SearchInv, ShareFound, setVars, drawVars
<1>3. ASSUME SearchStep PROVE SearchInv'
  <2> DEFINE mid == (left + right) \div 2
  <2>0. left \in Nat /\ right \in Nat /\ left < right /\ right < n /\ n \in Nat
    BY <1>3 DEF SearchStep, VoterInv, SharesInv, SearchInv
  <2>1. mid \in Nat /\ left <= mid /\ mid < right BY SMTT(30), <2>0
  <2>2. mid \in 0 .. n - 1 BY SMTT(30), <2>0, <2>1
  <2> HIDE DEF mid
  <2>3. /\ drawPc = "search" /\ UNCHANGED <<n, weights, thresholds, totalWeight, value>>
        /\ \/ thresholds[mid] < value /\ left' = mid + 1 /\ UNCHANGED <<drawPc, right, index>>
           \/ thresholds[mid] > value /\ right' = mid /\ UNCHANGED <<drawPc, left, index>>
           \/ thresholds[mid] = value /\ drawPc' = "select" /\ index' = mid
    BY <1>3 DEF SearchStep, setVars, mid
  <2>4. value \in 0 .. totalWeight - 1 /\ value < thresholds[right]
        /\ (left > 0 => thresholds[left - 1] < value)
    BY <2>3 DEF VoterInv, SearchInv
  <2>5. CASE thresholds[mid] < value /\ left' = mid + 1 /\ UNCHANGED <<drawPc, right, index>>
    <3>1. mid + 1 > 0 /\ (mid + 1) - 1 = mid /\ mid + 1 <= right BY SMTT(30), <2>0, <2>1
    <3> QED BY SMTT(30), <2>0, <2>1, <2>3, <2>4, <2>5, <3>1 DEF SearchInv, ShareFound
  <2>6. CASE thresholds[mid] > value /\ right' = mid /\ UNCHANGED <<drawPc, left, index>>
    <3>1. value < thresholds[mid] BY <2>2, <2>4, <2>6 DEF VoterInv, SharesInv
    <3> QED BY SMTT(30), <2>0, <2>1, <2>3, <2>4, <2>6, <3>1 DEF SearchInv, ShareFound
  <2>7. CASE thresholds[mid] = value /\ drawPc' = "select" /\ index' = mid
    <3>1. weights[mid] \in Nat /\ thresholds[mid] \in Nat BY <2>2 DEF VoterInv, SharesInv
    <3>2. weights[mid] = 0 \/ value < thresholds[mid] + weights[mid] BY SMTT(30), <2>7, <3>1
    <3>3. thresholds[mid] <= value BY SMTT(30), <2>7, <3>1
    <3> QED BY <2>2, <2>3, <2>4, <2>7, <3>2, <3>3 DEF SearchInv, ShareFound
  <2> QED BY <2>3, <2>5, <2>6, <2>7
<1>4. ASSUME SearchEnd PROVE SearchInv'
  <2>0. left \in Nat /\ left = right /\ left < n /\ n \in Nat /\ value < thresholds[left]
    BY SMTT(30), <1>4 DEF SearchEnd, VoterInv, SharesInv, SearchInv
  <2>a. left # 0 BY SMTT(30), <1>4, <2>0 DEF SearchEnd, VoterInv, SharesInv, SearchInv
  <2>1. left = right /\ left > 0 /\ left \in Nat /\ left - 1 \in 0 .. n - 2
    BY SMTT(30), <2>0, <2>a
  <2>2. thresholds[left] = thresholds[left - 1] + weights[left - 1]
    BY SMTT(30), <2>1 DEF VoterInv, SharesInv
  <2>3. index' = left - 1 /\ drawPc' = "select" /\ UNCHANGED <<n, weights, thresholds, totalWeight, value>>
    BY <1>4 DEF SearchEnd, setVars
  <2>4. value \in 0 .. totalWeight - 1 /\ thresholds[left - 1] < value
    BY <1>4, <2>1 DEF SearchEnd, VoterInv, SearchInv
  <2>5. left - 1 \in 0 .. n - 1 BY SMTT(30), <2>0, <2>1
  <2>6. thresholds[left - 1] <= value
    BY SMTT(30), <2>4, <2>5 DEF VoterInv, SharesInv
  <2>7. value < thresholds[left - 1] + weights[left - 1] BY <2>0, <2>2
  <2> QED BY <2>3, <2>4, <2>5, <2>6, <2>7 DEF SearchInv, ShareFound
<1> QED BY <1>1, <1>2, <1>3, <1>4 DEF BinarySearch, VoterInv

\* Every step keeps the invariant.
LEMMA VoterStepInv == ASSUME VoterInv, [VoterNext]_voterVars PROVE VoterInv'
<1> USE DEF VoterInv, SharesInv, SearchInv, ShareFound, setVars, drawVars, searchVars
<1>1. ASSUME NEW b \in BIPS, SelectVoters(b) PROVE VoterInv' BY SMTT(30), <1>1 DEF SelectVoters
<1>2. ASSUME NEW v \in 0 .. totalWeight - 1, Draw(v) PROVE VoterInv' BY <1>2 DEF Draw
<1>3. ASSUME Select PROVE VoterInv' BY <1>3 DEF Select
<1>4. ASSUME Return PROVE VoterInv' BY <1>4 DEF Return
<1>5. CASE UNCHANGED voterVars BY <1>5 DEF voterVars
<1> QED BY <1>1, <1>2, <1>3, <1>4, <1>5, AddVoterInv, SearchKeepsInv DEF VoterNext

\* The invariant holds in every reachable state.
THEOREM VoterInductive == VoterSpec => []VoterInv
BY VoterInitInv, VoterStepInv, PTL DEF VoterSpec

\* The search neither panics nor leaves the list of voters, whatever their number.
THEOREM SearchSafe == VoterSpec => []SearchIsSafe
<1>1. VoterInv => SearchIsSafe
  BY SMTT(30) DEF VoterInv, SharesInv, SearchInv, ShareFound, SearchIsSafe
<1> QED BY <1>1, VoterInductive, PTL

\* Without voters of weight zero a voter is drawn by exactly the values of its
\* share, whatever the number of voters (BinarySearch, selectVoterIndex).
THEOREM Proportional == VoterSpec => []DrawnInProportion
<1>1. ASSUME VoterInv PROVE DrawnInProportion
  <2> SUFFICES ASSUME drawPc = "select", \A k \in 0 .. n - 1 : weights[k] > 0
      PROVE  thresholds[index] <= value /\ value < thresholds[index] + weights[index]
    BY DEF DrawnInProportion
  <2>1. index \in 0 .. n - 1 /\ ShareFound
    BY <1>1 DEF VoterInv, SearchInv
  <2>2. weights[index] > 0 /\ weights[index] \in Nat
    BY <1>1, <2>1 DEF VoterInv, SharesInv
  <2>3. weights[index] # 0
    BY SMTT(30), <2>2
  <2> QED
    BY <2>1, <2>3 DEF ShareFound
<1> QED BY <1>1, VoterInductive, PTL

(***************************************************************************)
(* Types.                                                                  *)
(***************************************************************************)

\* The type invariant by groups of variables.
SetType ==
  /\ n \in 0 .. MaxVoters
  /\ voters \in [0 .. n - 1 -> Address]
  /\ weights \in [0 .. n - 1 -> Weight]
  /\ thresholds \in [0 .. n - 1 -> 0 .. MaxUint16]
  /\ totalWeight \in 0 .. MaxUint16

DrawType ==
  /\ thresholdWeight \in 0 .. MaxUint16 /\ selectedWeight \in 0 .. MaxUint16
  /\ selectedVoters \subseteq Address /\ last \in 0 .. MaxUint16

SearchType ==
  /\ value \in 0 .. MaxUint16
  /\ left \in 0 .. MaxVoters /\ right \in -1 .. MaxVoters /\ index \in -1 .. MaxVoters

PcType == drawPc \in {"build", "error", "loop", "begin", "search", "select", "done", "panic"}

LEMMA TypeGroups == VoterTypeOK <=> PcType /\ SetType /\ DrawType /\ SearchType
BY DEF VoterTypeOK, PcType, SetType, DrawType, SearchType

LEMMA Groups ==
  /\ UNCHANGED setVars /\ SetType => SetType'
  /\ UNCHANGED drawVars /\ DrawType => DrawType'
  /\ UNCHANGED searchVars /\ SearchType => SearchType'
<1>1. ASSUME UNCHANGED setVars, SetType PROVE SetType'
  <2>1. n' = n /\ voters' = voters /\ weights' = weights /\ thresholds' = thresholds /\ totalWeight' = totalWeight
    BY <1>1 DEF setVars
  <2> QED
    BY <1>1, <2>1 DEF SetType
<1>2. ASSUME UNCHANGED drawVars, DrawType PROVE DrawType'
  BY <1>2 DEF drawVars, DrawType
<1>3. ASSUME UNCHANGED searchVars, SearchType PROVE SearchType'
  BY <1>3 DEF searchVars, SearchType
<1> QED
  BY <1>1, <1>2, <1>3

\* Numbers of the set and of the draw.
LEMMA NumberTypes ==
  ASSUME PcType, SetType, DrawType, SearchType
  PROVE  /\ MaxUint16 \in Nat /\ n \in Nat /\ n <= MaxVoters /\ MaxVoters \in Nat
         /\ totalWeight \in Nat /\ totalWeight <= MaxUint16
         /\ \A i \in 0 .. n - 1 : weights[i] \in Nat /\ voters[i] \in Address
         /\ thresholdWeight \in Nat /\ selectedWeight \in Nat
         /\ left \in Nat /\ right \in Int
<1>1. MaxUint16 \in Nat /\ MaxVoters \in Nat
  BY VoterSetAssumption, SMT DEF MaxUint16
<1>2. n \in Nat /\ n <= MaxVoters /\ totalWeight \in Nat /\ totalWeight <= MaxUint16
  BY SMTT(30), <1>1 DEF SetType
<1>3. \A i \in 0 .. n - 1 : weights[i] \in Weight /\ voters[i] \in Address
  BY DEF SetType
<1>4. thresholdWeight \in Nat /\ selectedWeight \in Nat
  BY SMTT(30), <1>1 DEF DrawType
<1>5. left \in Nat /\ right \in Int
  BY SMTT(30), <1>1 DEF SearchType
<1> QED
  BY <1>1, <1>2, <1>3, <1>4, <1>5, VoterSetAssumption

\* A voter more.
LEMMA AddVoterType ==
  ASSUME PcType, SetType, DrawType, SearchType, NEW a \in Address, NEW w \in Weight, AddVoter(a, w)
  PROVE  SetType' /\ totalWeight' = totalWeight + w /\ n' = n + 1
<1>1. /\ totalWeight + w <= MaxUint16 /\ n < MaxVoters /\ n' = n + 1
      /\ totalWeight' = (totalWeight + w) % (MaxUint16 + 1)
  BY DEF AddVoter
<1>2. totalWeight + w \in Nat /\ w \in Nat
  BY SMTT(30), NumberTypes, VoterSetAssumption
<1>3. totalWeight' = totalWeight + w
  BY <1>1, <1>2, NoOverflow
<1>4. /\ voters' = [i \in 0 .. n |-> IF i = n THEN a ELSE voters[i]]
      /\ weights' = [i \in 0 .. n |-> IF i = n THEN w ELSE weights[i]]
      /\ thresholds' = [i \in 0 .. n |-> IF i = n THEN totalWeight ELSE thresholds[i]]
  BY DEF AddVoter, Extend
<1>5. n' - 1 = n /\ n' \in 0 .. MaxVoters /\ \A i \in 0 .. n : i = n \/ i \in 0 .. n - 1
  BY SMTT(30), <1>1, NumberTypes
<1>6. ASSUME NEW i \in 0 .. n, i # n
      PROVE  voters[i] \in Address /\ weights[i] \in Weight /\ thresholds[i] \in 0 .. MaxUint16
  BY <1>5, <1>6 DEF SetType
<1>7. voters' \in [0 .. n -> Address] /\ weights' \in [0 .. n -> Weight]
  BY <1>4, <1>6
<1>8. totalWeight \in 0 .. MaxUint16
  BY DEF SetType
<1>9. thresholds' \in [0 .. n -> 0 .. MaxUint16]
  BY <1>4, <1>6, <1>8
<1>10. totalWeight' \in 0 .. MaxUint16
  BY SMTT(30), <1>1, <1>2, <1>3, NumberTypes
<1>11. SetType'
  BY <1>5, <1>7, <1>9, <1>10 DEF SetType
<1> QED
  BY <1>1, <1>3, <1>11

\* The wanted weight is at most half of the total.
Wanted(total, bips) == (total * bips) \div 10000

LEMMA HalfOfTotal ==
  ASSUME NEW total \in Nat, NEW bips \in Nat, bips <= MaxBIPS
  PROVE  Wanted(total, bips) \in Nat /\ 2 * Wanted(total, bips) <= total
<1>1. total * bips \in Nat
  BY SMT
<1>2. total * bips <= total * 5000
  <2>1. \A x, y, z \in Nat : y <= z => x * y <= x * z
    BY SMT
  <2>2. bips <= 5000
    BY SMT DEF MaxBIPS
  <2> QED
    BY <2>1, <2>2, SMT
<1>3. \A p, u \in Nat : p <= u * 5000 => p \div 10000 \in Nat /\ 2 * (p \div 10000) <= u
  BY SMT
<1> QED
  BY <1>1, <1>2, <1>3, SMT DEF Wanted

\* Every step keeps the types; the search stays in the list of voters.
LEMMA TypeStep == ASSUME VoterTypeOK, VoterInv, [VoterNext]_voterVars PROVE VoterTypeOK'
<1>0. PcType /\ SetType /\ DrawType /\ SearchType
  BY TypeGroups
<1>1. MaxUint16 \in Nat /\ MaxVoters \in Nat /\ n \in Nat /\ n <= MaxVoters /\ totalWeight \in Nat
      /\ totalWeight <= MaxUint16
  BY <1>0, NumberTypes
<1> SUFFICES PcType' /\ SetType' /\ DrawType' /\ SearchType'
  BY TypeGroups DEF VoterTypeOK, PcType, SetType, DrawType, SearchType
<1>2. PcType'
  BY SMTT(30), <1>0 DEF VoterNext, AddVoter, SelectVoters, Draw, BinarySearch, SearchBegin, SearchStep, SearchEnd,
              Select, Return, PcType, voterVars
<1>3. ASSUME NEW a \in Address, NEW w \in Weight, AddVoter(a, w) PROVE SetType' /\ DrawType' /\ SearchType'
  <2>1. UNCHANGED drawVars /\ UNCHANGED searchVars
    BY <1>3 DEF AddVoter
  <2> QED
    BY <1>0, <1>3, <2>1, AddVoterType, Groups
<1>4. ASSUME NEW b \in BIPS, SelectVoters(b) PROVE SetType' /\ DrawType' /\ SearchType'
  <2>1. UNCHANGED setVars /\ UNCHANGED searchVars
    BY SMTT(30), <1>4 DEF SelectVoters
  <2>2. b \in Nat
    BY VoterSetAssumption
  <2>3. CASE b > MaxBIPS
    <3>1. UNCHANGED drawVars
      BY SMTT(30), <1>4, <2>3 DEF SelectVoters
    <3> QED
      BY SMTT(30), <1>0, <2>1, <3>1, Groups
  <2>4. CASE ~(b > MaxBIPS)
    <3>1. /\ thresholdWeight' = (totalWeight * b) \div 10000
          /\ selectedWeight' = 0 /\ selectedVoters' = {} /\ last' = 0
      BY SMTT(30), <1>4, <2>4 DEF SelectVoters
    <3>2. b <= MaxBIPS
      BY <2>2, <2>4, SMT DEF MaxBIPS
    <3>3. PICK t : t = thresholdWeight'
      OBVIOUS
    <3>4. t \in Nat /\ 2 * t <= totalWeight
      <4>1. t = Wanted(totalWeight, b)
        BY SMTT(30), <3>1, <3>3 DEF Wanted
      <4> QED
        BY <1>1, <2>2, <3>2, <4>1, HalfOfTotal
    <3>5. t \in 0 .. MaxUint16 /\ 0 \in 0 .. MaxUint16
      BY SMTT(30), <1>1, <3>4
    <3>6. DrawType'
      BY SMTT(30), <3>1, <3>3, <3>5 DEF DrawType
    <3> QED
      BY SMTT(30), <1>0, <2>1, <3>6, Groups
  <2> QED
    BY SMTT(30), <2>3, <2>4
<1>5. ASSUME NEW v \in 0 .. totalWeight - 1, Draw(v) PROVE SetType' /\ DrawType' /\ SearchType'
  <2>1. UNCHANGED setVars /\ UNCHANGED drawVars /\ value' = v /\ UNCHANGED <<left, right, index>>
    BY <1>5 DEF Draw
  <2>2. v \in 0 .. MaxUint16
    BY SMTT(30), <1>1
  <2>3. SearchType'
    BY <1>0, <2>1, <2>2 DEF SearchType
  <2> QED
    BY <1>0, <2>1, <2>3, Groups
<1>6. ASSUME SearchBegin PROVE SetType' /\ DrawType' /\ SearchType'
  <2>1. /\ UNCHANGED setVars /\ UNCHANGED drawVars /\ UNCHANGED value
        /\ left' = 0 /\ right' = n - 1 /\ index' \in {index, n - 1}
    BY <1>6 DEF SearchBegin
  <2>2. 0 \in 0 .. MaxVoters /\ n - 1 \in -1 .. MaxVoters
    BY SMTT(30), <1>1
  <2>3. SearchType'
    BY <1>0, <2>1, <2>2 DEF SearchType
  <2> QED
    BY <1>0, <2>1, <2>3, Groups
<1>7. ASSUME SearchStep PROVE SetType' /\ DrawType' /\ SearchType'
  <2>1. PICK mid : mid = (left + right) \div 2
    OBVIOUS
  <2>2. left \in Nat /\ right \in Int /\ left < right /\ right <= MaxVoters
    BY SMTT(30), <1>0, <1>1, <1>7 DEF SearchStep, SearchType
  <2>3. mid + 1 \in 0 .. MaxVoters /\ mid \in -1 .. MaxVoters
    BY SMTT(30), <1>1, <2>1, <2>2
  <2>4. /\ UNCHANGED setVars /\ UNCHANGED drawVars /\ UNCHANGED value
        /\ left' \in {left, mid + 1} /\ right' \in {right, mid} /\ index' \in {index, mid}
    BY <1>7, <2>1 DEF SearchStep
  <2>5. SearchType'
    BY <1>0, <2>3, <2>4 DEF SearchType
  <2> QED
    BY <1>0, <2>4, <2>5, Groups
<1>8. ASSUME SearchEnd PROVE SetType' /\ DrawType' /\ SearchType'
  <2>1. /\ UNCHANGED setVars /\ UNCHANGED drawVars /\ UNCHANGED <<value, left, right>>
        /\ index' = left - 1
    BY <1>8 DEF SearchEnd
  <2>2. left - 1 \in -1 .. MaxVoters
    BY SMTT(30), <1>0, <1>1 DEF SearchType
  <2>3. SearchType'
    BY <1>0, <2>1, <2>2 DEF SearchType
  <2> QED
    BY <1>0, <2>1, <2>3, Groups
<1>9. ASSUME Select PROVE SetType' /\ DrawType' /\ SearchType'
  <2>1. index \in 0 .. n - 1
    BY <1>9 DEF Select, VoterInv, SearchInv
  <2>2. voters[index] \in Address /\ weights[index] \in Nat /\ selectedWeight \in Nat
    BY <1>0, <2>1, NumberTypes
  <2>3. PICK w, x : w = weights[index] /\ x = (selectedWeight + w) % (MaxUint16 + 1)
    OBVIOUS
  <2>4. w \in 0 .. MaxUint16
    <3>1. PICK t : t = thresholds[index]
      OBVIOUS
    <3>2. t \in Nat
      BY <2>1, <3>1 DEF VoterInv, SharesInv
    <3>3. CASE index = n - 1
      <4>1. totalWeight = t + w
        BY SMTT(30), <1>1, <2>1, <2>3, <3>1, <3>3 DEF VoterInv, SharesInv
      <4> QED
        BY SMTT(30), <1>1, <2>2, <2>3, <3>2, <4>1
    <3>4. CASE index # n - 1
      <4>1. index \in 0 .. n - 2 /\ index + 1 \in 0 .. n - 1
        BY SMTT(30), <1>1, <2>1, <3>4
      <4>2. thresholds[index + 1] = t + w
        BY <2>3, <3>1, <4>1 DEF VoterInv, SharesInv
      <4>3. thresholds[index + 1] \in 0 .. MaxUint16
        BY <1>0, <4>1 DEF SetType
      <4> QED
        BY SMTT(30), <1>1, <2>2, <2>3, <3>2, <4>2, <4>3
    <3> QED
      BY <3>3, <3>4
  <2>5. x \in 0 .. MaxUint16
    BY SMTT(30), <1>1, <2>2, <2>3
  <2>6. /\ UNCHANGED setVars /\ thresholdWeight' = thresholdWeight
        /\ selectedVoters' \in {selectedVoters, selectedVoters \cup {voters[index]}}
        /\ selectedWeight' \in {selectedWeight, x} /\ last' \in {last, w}
        /\ value' = 0 /\ left' = 0 /\ right' = 0 /\ index' = 0
    BY <1>9, <2>3 DEF Select
  <2>7. DrawType'
    BY <1>0, <2>2, <2>4, <2>5, <2>6 DEF DrawType
  <2>8. SearchType'
    BY SMTT(30), <1>1, <2>6 DEF SearchType
  <2> QED
    BY <1>0, <2>6, <2>7, <2>8, Groups
<1>10. ASSUME Return \/ UNCHANGED voterVars PROVE SetType' /\ DrawType' /\ SearchType'
  <2>1. UNCHANGED setVars /\ UNCHANGED drawVars /\ UNCHANGED searchVars
    BY <1>10 DEF Return, voterVars
  <2> QED
    BY <1>0, <2>1, Groups
<1> QED
  BY <1>2, <1>3, <1>4, <1>5, <1>6, <1>7, <1>8, <1>9, <1>10 DEF VoterNext, BinarySearch

\* The variables of the voter set and of the draw keep their types.
LEMMA TypeInvariant == VoterSpec => []VoterTypeOK
<1>1. VoterInit => VoterTypeOK
  <2> SUFFICES ASSUME VoterInit PROVE PcType /\ SetType /\ DrawType /\ SearchType
    BY TypeGroups
  <2>1. MaxUint16 \in Nat /\ MaxVoters \in Nat
    BY VoterSetAssumption, SMT DEF MaxUint16
  <2>2. PcType /\ DrawType /\ SearchType
    BY SMTT(30), <2>1 DEF VoterInit, PcType, DrawType, SearchType
  <2>3. 0 .. n - 1 = {} /\ n \in 0 .. MaxVoters /\ totalWeight \in 0 .. MaxUint16
    BY SMTT(30), <2>1 DEF VoterInit
  <2>4. SetType
    BY <2>3 DEF VoterInit, SetType
  <2> QED
    BY <2>2, <2>4
<1>2. VoterTypeOK /\ VoterInv /\ [VoterNext]_voterVars => VoterTypeOK'
  BY TypeStep
<1> QED
  BY <1>1, <1>2, VoterInductive, PTL DEF VoterSpec

(***************************************************************************)
(* The weight of the voters drawn.                                         *)
(***************************************************************************)

Indices == 0 .. n - 1

\* The voters drawn, by their indices.
Chosen == {i \in Indices : voters[i] \in selectedVoters}

\* W gives the weight of every set of voters: it is additive and at most the total.
Additive(W) ==
  /\ W \in [SUBSET Indices -> Nat]
  /\ W[{}] = 0
  /\ \A I \in SUBSET Indices : W[I] <= totalWeight
  /\ \A I \in SUBSET Indices : \A i \in I : W[I] = weights[i] + W[I \ {i}]

\* There is such a W, and the selected weight is what it gives the voters drawn.
SumInv == \E W : Additive(W) /\ (Distinct => selectedWeight = W[Chosen])

Drawing == {"loop", "begin", "search", "select", "done"}

\* What the loop of the draw keeps: the wanted weight is missed without the last
\* voter, and while the loop goes on.
LoopInv ==
  /\ drawPc = "build" => selectedVoters = {} /\ selectedWeight = 0
  /\ drawPc \in Drawing => 2 * thresholdWeight <= totalWeight
  /\ drawPc \in {"begin", "search", "select"} => selectedWeight < thresholdWeight
  /\ drawPc \in Drawing /\ Distinct /\ thresholdWeight > 0 => selectedWeight - last < thresholdWeight
  /\ drawPc = "done" => thresholdWeight <= selectedWeight

\* The voters drawn are finitely many voters of the list.
DrawnInv == IsFiniteSet(selectedVoters) /\ \A a \in selectedVoters : \E i \in Indices : voters[i] = a

DrawInv == SumInv /\ LoopInv /\ DrawnInv

\* A voter more extends the weights of sets of voters.
LEMMA AddVoterSum ==
  ASSUME VoterTypeOK, NEW a \in Address, NEW w \in Weight, AddVoter(a, w), NEW W, Additive(W),
         selectedVoters = {}, selectedWeight = 0
  PROVE  SumInv'
<1>0. PcType /\ SetType /\ DrawType /\ SearchType
  BY TypeGroups
<1>1. n \in Nat /\ totalWeight \in Nat /\ w \in Nat
  BY <1>0, NumberTypes, VoterSetAssumption
<1>2. totalWeight' = totalWeight + w /\ n' = n + 1
  BY <1>0, AddVoterType
<1>3. weights' = [i \in 0 .. n |-> IF i = n THEN w ELSE weights[i]]
  BY DEF AddVoter, Extend
<1>4. selectedVoters' = {} /\ selectedWeight' = 0
  BY DEF AddVoter, drawVars
<1>5. Indices' = 0 .. n /\ Indices = 0 .. n - 1
  BY SMTT(30), <1>1, <1>2 DEF Indices
<1>6. \A I \in SUBSET (0 .. n) : I \ {n} \in SUBSET Indices
  BY SMTT(30), <1>1, <1>5
<1>7. PICK U : U = [I \in SUBSET (0 .. n) |-> W[I \ {n}] + IF n \in I THEN w ELSE 0]
  OBVIOUS
<1>8. \A I \in SUBSET (0 .. n) : U[I] = W[I \ {n}] + IF n \in I THEN w ELSE 0
  BY <1>7
<1>9. \A I \in SUBSET Indices : W[I] \in Nat
  BY DEF Additive
<1>10. \A I \in SUBSET (0 .. n) : U[I] \in Nat /\ U[I] <= totalWeight + w
  <2> SUFFICES ASSUME NEW I \in SUBSET (0 .. n) PROVE U[I] \in Nat /\ U[I] <= totalWeight + w
    OBVIOUS
  <2>1. I \ {n} \in SUBSET Indices
    BY <1>6
  <2>2. W[I \ {n}] \in Nat /\ W[I \ {n}] <= totalWeight
    BY <1>9, <2>1 DEF Additive
  <2>3. U[I] = W[I \ {n}] + IF n \in I THEN w ELSE 0
    BY <1>8
  <2> QED
    BY SMTT(30), <1>1, <2>2, <2>3
<1>11. U \in [SUBSET (0 .. n) -> Nat]
  BY <1>7, <1>8, <1>10
<1>12. U[{}] = 0
  <2>1. {} \in SUBSET (0 .. n) /\ {} \ {n} = {} /\ n \notin {}
    OBVIOUS
  <2>2. U[{}] = W[{}] + 0
    BY <1>8, <2>1
  <2> QED
    BY SMTT(30), <2>2 DEF Additive
<1>13. ASSUME NEW I \in SUBSET (0 .. n), NEW i \in I PROVE U[I] = weights'[i] + U[I \ {i}]
  <2>1. U[I] = W[I \ {n}] + IF n \in I THEN w ELSE 0
    BY <1>8
  <2>2. I \ {i} \in SUBSET (0 .. n) /\ i \in 0 .. n
    OBVIOUS
  <2>3. U[I \ {i}] = W[(I \ {i}) \ {n}] + IF n \in I \ {i} THEN w ELSE 0
    BY <1>8, <2>2
  <2>4. I \ {n} \in SUBSET Indices
    BY <1>6
  <2>5. W[I \ {n}] \in Nat
    BY <1>9, <2>4
  <2>6. CASE i = n
    <3>1. (I \ {i}) \ {n} = I \ {n} /\ n \notin I \ {i} /\ n \in I
      BY <2>6
    <3>2. weights'[i] = w
      BY <1>3, <2>2, <2>6
    <3>3. U[I] = W[I \ {n}] + w /\ U[I \ {i}] = W[I \ {n}] + 0
      BY <2>1, <2>3, <3>1
    <3> QED
      BY SMTT(30), <1>1, <2>5, <3>2, <3>3
  <2>7. CASE i # n
    <3>1. weights'[i] = weights[i]
      BY <1>3, <2>2, <2>7
    <3>2. i \in I \ {n} /\ (I \ {i}) \ {n} = (I \ {n}) \ {i} /\ (n \in I <=> n \in I \ {i})
      BY <2>7
    <3>3. W[I \ {n}] = weights[i] + W[(I \ {n}) \ {i}]
      BY <2>4, <3>2 DEF Additive
    <3>4. (I \ {n}) \ {i} \in SUBSET Indices
      BY <2>4
    <3>5. W[(I \ {n}) \ {i}] \in Nat
      BY <1>9, <3>4
    <3>6. weights[i] \in Nat
      BY <1>0, <2>4, <3>2, NumberTypes DEF Indices
    <3>7. PICK x : x = IF n \in I THEN w ELSE 0
      OBVIOUS
    <3>8. U[I] = W[I \ {n}] + x /\ U[I \ {i}] = W[(I \ {n}) \ {i}] + x
      BY <2>1, <2>3, <3>2, <3>7
    <3>9. x \in Nat
      BY <1>1, <3>7
    <3> QED
      BY SMTT(30), <3>1, <3>3, <3>5, <3>6, <3>8, <3>9
  <2> QED
    BY <2>6, <2>7
<1>14. Additive(U)'
  BY <1>2, <1>5, <1>10, <1>11, <1>12, <1>13 DEF Additive
<1>15. Chosen' = {}
  BY <1>4 DEF Chosen
<1> QED
  BY <1>4, <1>12, <1>14, <1>15 DEF SumInv

\* A voter drawn for the first time adds its weight, which fits in 16 bits.
LEMMA SelectSum ==
  ASSUME VoterTypeOK, VoterInv, Select, Distinct, NEW W, Additive(W), selectedWeight = W[Chosen],
         voters[index] \notin selectedVoters
  PROVE  /\ selectedWeight' = selectedWeight + weights[index]
         /\ selectedWeight' = W[Chosen']
<1>0. PcType /\ SetType /\ DrawType /\ SearchType
  BY TypeGroups
<1>1. index \in Indices
  BY DEF Select, VoterInv, SearchInv, Indices
<1>2. Chosen' = Chosen \cup {index}
  BY <1>1 DEF Select, setVars, Chosen, Indices, Distinct
<1>3. Chosen \cup {index} \in SUBSET Indices /\ (Chosen \cup {index}) \ {index} = Chosen
  BY <1>1 DEF Chosen
<1>4. W[Chosen \cup {index}] = weights[index] + W[Chosen]
  BY <1>3 DEF Additive
<1>5. W[Chosen \cup {index}] \in Nat /\ W[Chosen \cup {index}] <= totalWeight
  BY <1>3 DEF Additive
<1>6. weights[index] \in Nat /\ selectedWeight \in Nat /\ totalWeight \in Nat
      /\ totalWeight <= MaxUint16 /\ MaxUint16 \in Nat
  BY <1>0, <1>1, NumberTypes DEF Indices
<1>7. PICK x : x = selectedWeight + weights[index]
  OBVIOUS
<1>8. x = W[Chosen \cup {index}] /\ x \in Nat /\ x <= MaxUint16
  BY SMTT(30), <1>4, <1>5, <1>6, <1>7
<1>9. selectedWeight' = x % (MaxUint16 + 1)
  BY <1>7 DEF Select
<1> QED
  BY <1>2, <1>7, <1>8, <1>9, NoOverflow

\* A step that leaves the list and the draw alone keeps the sum and the voters drawn.
LEMMA SameDraw ==
  ASSUME UNCHANGED setVars, selectedVoters' = selectedVoters, selectedWeight' = selectedWeight
  PROVE  /\ SumInv => SumInv'
         /\ DrawnInv => DrawnInv'
         /\ Distinct' <=> Distinct
         /\ totalWeight' = totalWeight
<1>1. n' = n /\ voters' = voters /\ weights' = weights /\ totalWeight' = totalWeight
  BY DEF setVars
<1>2. Indices' = Indices /\ Chosen' = Chosen /\ (Distinct' <=> Distinct)
  BY <1>1 DEF Indices, Chosen, Distinct
<1>3. \A W : Additive(W) => Additive(W)'
  BY <1>1, <1>2 DEF Additive
<1>4. SumInv => SumInv'
  BY <1>2, <1>3 DEF SumInv
<1>5. DrawnInv => DrawnInv'
  BY <1>1, <1>2 DEF DrawnInv
<1> QED
  BY <1>1, <1>2, <1>4, <1>5

\* Every step keeps the invariant of the draw.
LEMMA DrawStep == ASSUME VoterTypeOK, VoterInv, DrawInv, [VoterNext]_voterVars PROVE DrawInv'
<1>0. PcType /\ SetType /\ DrawType /\ SearchType
  BY TypeGroups
<1>1. /\ totalWeight \in Nat /\ thresholdWeight \in Nat /\ selectedWeight \in Nat
      /\ \A i \in Indices : weights[i] \in Nat /\ voters[i] \in Address
  BY <1>0, NumberTypes DEF Indices
<1>2. last \in Int
  BY SMTT(30), <1>0 DEF DrawType
<1>3. ASSUME NEW a \in Address, NEW w \in Weight, AddVoter(a, w) PROVE DrawInv'
  <2>1. drawPc = "build" /\ drawPc' = "build" /\ UNCHANGED drawVars
    BY <1>3 DEF AddVoter
  <2>2. selectedVoters = {} /\ selectedWeight = 0 /\ selectedVoters' = {} /\ selectedWeight' = 0
    BY <2>1 DEF DrawInv, LoopInv, drawVars
  <2>3. PICK W : Additive(W)
    BY DEF DrawInv, SumInv
  <2>4. SumInv'
    BY <1>3, <2>2, <2>3, AddVoterSum
  <2>5. LoopInv'
    BY <2>1, <2>2 DEF LoopInv, Drawing
  <2>6. DrawnInv'
    BY <2>2, FS_EmptySet DEF DrawnInv
  <2> QED
    BY <2>4, <2>5, <2>6 DEF DrawInv
<1>4. ASSUME NEW b \in BIPS, SelectVoters(b) PROVE DrawInv'
  <2>1. UNCHANGED setVars /\ drawPc = "build"
    BY SMTT(30), <1>4 DEF SelectVoters
  <2>2. selectedVoters = {} /\ selectedWeight = 0
    BY SMTT(30), <2>1 DEF DrawInv, LoopInv
  <2>3. selectedVoters' = selectedVoters /\ selectedWeight' = selectedWeight
    BY SMTT(30), <1>4, <2>2 DEF SelectVoters, drawVars
  <2>4. CASE b > MaxBIPS
    <3>1. drawPc' = "error"
      BY SMTT(30), <1>4, <2>4 DEF SelectVoters
    <3>2. LoopInv'
      BY <3>1 DEF LoopInv, Drawing
    <3> QED
      BY SMTT(30), <2>1, <2>3, <3>2, SameDraw DEF DrawInv
  <2>5. CASE ~(b > MaxBIPS)
    <3>1. /\ drawPc' = "loop" /\ last' = 0 /\ selectedWeight' = 0
          /\ thresholdWeight' = Wanted(totalWeight, b)
      BY <1>4, <2>5, SMT DEF SelectVoters, Wanted
    <3>2. b \in Nat /\ b <= MaxBIPS
      BY <2>5, VoterSetAssumption, SMT DEF MaxBIPS
    <3>3. thresholdWeight' \in Nat /\ 2 * thresholdWeight' <= totalWeight
      BY <1>1, <3>1, <3>2, HalfOfTotal
    <3>4. totalWeight' = totalWeight
      BY <2>1 DEF setVars
    <3>5. LoopInv'
      BY SMTT(30), <3>1, <3>3, <3>4 DEF LoopInv, Drawing
    <3> QED
      BY <2>1, <2>3, <3>5, SameDraw DEF DrawInv
  <2> QED
    BY SMTT(30), <2>4, <2>5
<1>5. ASSUME \/ \E v \in 0 .. totalWeight - 1 : Draw(v)
             \/ SearchBegin \/ SearchStep \/ SearchEnd \/ Return \/ UNCHANGED voterVars
      PROVE  DrawInv'
  <2>1. UNCHANGED setVars /\ UNCHANGED drawVars
    BY <1>5 DEF Draw, SearchBegin, SearchStep, SearchEnd, Return, voterVars
  <2>2. \/ drawPc' = drawPc
        \/ drawPc = "loop" /\ drawPc' = "begin" /\ selectedWeight < thresholdWeight
        \/ drawPc \in {"begin", "search"} /\ drawPc' \in {"search", "select", "panic"}
        \/ drawPc = "loop" /\ drawPc' = "done" /\ ~(selectedWeight < thresholdWeight)
    BY <1>5 DEF Draw, SearchBegin, SearchStep, SearchEnd, Return, voterVars
  <2>3. /\ thresholdWeight' = thresholdWeight /\ selectedWeight' = selectedWeight
        /\ selectedVoters' = selectedVoters /\ last' = last
    BY <2>1 DEF drawVars
  <2>4. totalWeight' = totalWeight /\ (Distinct' <=> Distinct)
    BY <2>1, <2>3, SameDraw
  <2>5. LoopInv
    BY DEF DrawInv
  <2>6. LoopInv'
    BY SMTT(30), <1>1, <1>2, <2>2, <2>3, <2>4, <2>5 DEF LoopInv, Drawing
  <2> QED
    BY <2>1, <2>3, <2>6, SameDraw DEF DrawInv
<1>6. ASSUME Select PROVE DrawInv'
  <2>1. /\ UNCHANGED setVars /\ drawPc = "select" /\ drawPc' = "loop" /\ thresholdWeight' = thresholdWeight
    BY <1>6 DEF Select
  <2>2. index \in Indices
    BY <2>1 DEF VoterInv, SearchInv, Indices
  <2>3. /\ 2 * thresholdWeight <= totalWeight /\ selectedWeight < thresholdWeight
        /\ Distinct /\ thresholdWeight > 0 => selectedWeight - last < thresholdWeight
    BY <2>1 DEF DrawInv, LoopInv, Drawing
  <2>4. CASE voters[index] \in selectedVoters
    <3>1. selectedVoters' = selectedVoters /\ selectedWeight' = selectedWeight /\ last' = last
      BY <1>6, <2>4 DEF Select
    <3>2. totalWeight' = totalWeight /\ (Distinct' <=> Distinct)
      BY <2>1, <3>1, SameDraw
    <3>3. LoopInv'
      BY <2>1, <2>3, <3>1, <3>2 DEF LoopInv, Drawing
    <3> QED
      BY <2>1, <3>1, <3>3, SameDraw DEF DrawInv
  <2>5. CASE voters[index] \notin selectedVoters
    <3>1. selectedVoters' = selectedVoters \cup {voters[index]} /\ last' = weights[index]
      BY <1>6, <2>5 DEF Select
    <3>2. n' = n /\ voters' = voters /\ weights' = weights /\ totalWeight' = totalWeight
      BY <2>1 DEF setVars
    <3>3. Indices' = Indices /\ (Distinct' <=> Distinct)
      BY <3>2 DEF Indices, Distinct
    <3>4. PICK W : Additive(W) /\ (Distinct => selectedWeight = W[Chosen])
      BY DEF DrawInv, SumInv
    <3>5. Additive(W)'
      BY <3>2, <3>3, <3>4 DEF Additive
    <3>6. Distinct => selectedWeight' = selectedWeight + weights[index] /\ selectedWeight' = W[Chosen']
      BY <1>6, <2>5, <3>4, SelectSum
    <3>7. SumInv'
      BY <3>3, <3>5, <3>6 DEF SumInv
    <3>8. Distinct => selectedWeight' - last' < thresholdWeight
      BY SMTT(30), <1>1, <2>2, <2>3, <3>1, <3>6
    <3>9. LoopInv'
      BY <2>1, <2>3, <3>2, <3>3, <3>8 DEF LoopInv, Drawing
    <3>10. IsFiniteSet(selectedVoters')
      BY <3>1, FS_AddElement DEF DrawInv, DrawnInv
    <3>11. \A a \in selectedVoters' : \E i \in Indices' : voters'[i] = a
      BY <2>2, <3>1, <3>2, <3>3 DEF DrawInv, DrawnInv
    <3> QED
      BY <3>7, <3>9, <3>10, <3>11 DEF DrawInv, DrawnInv
  <2> QED
    BY <2>4, <2>5
<1> QED
  BY <1>3, <1>4, <1>5, <1>6 DEF VoterNext, BinarySearch

\* The invariant of the draw holds in every reachable state.
LEMMA DrawInvariant == VoterSpec => []DrawInv
<1>1. ASSUME VoterInit PROVE DrawInv
  <2>1. /\ n = 0 /\ totalWeight = 0 /\ selectedVoters = {} /\ selectedWeight = 0 /\ drawPc = "build"
    BY <1>1 DEF VoterInit
  <2>2. Indices = {} /\ SUBSET Indices = {{}}
    BY SMTT(30), <2>1 DEF Indices
  <2>3. PICK W : W = [I \in {{}} |-> 0]
    OBVIOUS
  <2>4. W \in [{{}} -> Nat] /\ W[{}] = 0
    BY <2>3
  <2>5. Additive(W)
    <3>1. \A I \in SUBSET Indices : I = {}
      BY <2>2
    <3>2. W[{}] <= totalWeight
      BY SMTT(30), <2>1, <2>4
    <3>3. \A I \in SUBSET Indices : W[I] <= totalWeight
      BY <3>1, <3>2
    <3>4. W \in [SUBSET Indices -> Nat]
      BY <2>2, <2>4
    <3> QED
      BY <2>4, <3>1, <3>3, <3>4 DEF Additive
  <2>6. Chosen = {}
    BY <2>1 DEF Chosen
  <2>7. SumInv
    BY <2>1, <2>4, <2>5, <2>6 DEF SumInv
  <2>8. LoopInv
    BY <2>1 DEF LoopInv, Drawing
  <2>9. DrawnInv
    BY <2>1, FS_EmptySet DEF DrawnInv
  <2> QED
    BY <2>7, <2>8, <2>9 DEF DrawInv
<1>2. VoterTypeOK /\ VoterInv /\ DrawInv /\ [VoterNext]_voterVars => DrawInv'
  BY DrawStep
<1> QED
  BY <1>1, <1>2, VoterInductive, TypeInvariant, PTL DEF VoterSpec

\* The voter an address stands for, when no two voters share one.
LEMMA IndexOf ==
  ASSUME n \in Nat, Distinct, NEW i \in Indices
  PROVE  VoterIndex(voters[i]) = i
<1>1. {j \in 0 .. n - 1 : voters[j] = voters[i]} = {i}
  BY DEF Distinct, Indices
<1>2. i \in Int
  BY SMTT(30) DEF Indices
<1>3. Min({i}) = i
  BY SMTT(30), <1>2 DEF Min
<1>4. {i} # {}
  OBVIOUS
<1> QED
  BY <1>1, <1>3, <1>4 DEF VoterIndex

\* A sum over a set, one element at a time.
SumStep(S, it) ==
  [s \in SUBSET S |-> IF s = {} THEN 0
                      ELSE weights[VoterIndex(CHOOSE x \in s : TRUE)] + it[s \ {CHOOSE x \in s : TRUE}]]

LEMMA SumUnfold ==
  ASSUME NEW S
  PROVE  LET iter == CHOOSE it : it = SumStep(S, it)
         IN  MapThenSumSet(LAMBDA a : weights[VoterIndex(a)], S) = iter[S]
BY DEF MapThenSumSet, MapThenFoldSet, SumStep

\* Two functions that agree with their own step agree: else a least set of
\* addresses on which they differ is not empty, and without the element that is
\* taken first they agree.
LEMMA SumUnique ==
  ASSUME NEW S, IsFiniteSet(S), NEW g, NEW h, g = SumStep(S, g), h = SumStep(S, h)
  PROVE  g[S] = h[S]
<1>1. SUFFICES ASSUME g[S] # h[S] PROVE FALSE
  OBVIOUS
<1>2. PICK T : T = {s \in SUBSET S : g[s] # h[s]}
  OBVIOUS
<1>3. FiniteSubsetsOf(S) = SUBSET S
  BY FS_FiniteSubsetsOfFinite
<1>4. IsWellFoundedOn(StrictSubsetOrdering(S), SUBSET S)
  BY <1>3, FS_StrictSubsetOrderingWellFounded
<1>5. T \subseteq SUBSET S /\ T # {}
  BY <1>1, <1>2
<1>6. PICK s \in T : \A r \in T : ~(<<r, s>> \in StrictSubsetOrdering(S))
  BY <1>4, <1>5, WFMin
<1>7. s \in SUBSET S /\ g[s] # h[s]
  BY <1>2, <1>6
<1>8. s # {}
  <2>1. ASSUME s = {} PROVE g[s] = 0 /\ h[s] = 0
    BY <1>7, <2>1 DEF SumStep
  <2> QED
    BY <1>7, <2>1
<1>9. PICK x : x = CHOOSE y \in s : TRUE
  OBVIOUS
<1>10. x \in s
  BY <1>8, <1>9
<1>11. s \ {x} \in SUBSET S /\ s \ {x} # s /\ s \ {x} \subseteq s
  BY <1>7, <1>10
<1>12. <<s \ {x}, s>> \in StrictSubsetOrdering(S)
  BY <1>7, <1>11 DEF StrictSubsetOrdering
<1>13. g[s \ {x}] = h[s \ {x}]
  BY <1>2, <1>6, <1>11, <1>12
<1>14. ASSUME NEW f, f = SumStep(S, f) PROVE f[s] = weights[VoterIndex(x)] + f[s \ {x}]
  <2>1. SumStep(S, f)[s] =
          IF s = {} THEN 0
          ELSE weights[VoterIndex(CHOOSE y \in s : TRUE)] + f[s \ {CHOOSE y \in s : TRUE}]
    BY <1>7 DEF SumStep
  <2>2. SumStep(S, f)[s] = weights[VoterIndex(x)] + f[s \ {x}]
    BY <1>8, <1>9, <2>1
  <2> QED
    BY <1>14, <2>2
<1> QED
  BY <1>7, <1>13, <1>14

\* The weights of the voters drawn, summed up, are the selected weight.
LEMMA DrawnWeight ==
  ASSUME VoterTypeOK, DrawInv, Distinct
  PROVE  MapThenSumSet(LAMBDA a : weights[VoterIndex(a)], selectedVoters) = selectedWeight
<1>0. PcType /\ SetType /\ DrawType /\ SearchType
  BY TypeGroups
<1>1. n \in Nat
  BY <1>0, NumberTypes
<1>2. PICK W : Additive(W) /\ selectedWeight = W[Chosen]
  BY DEF DrawInv, SumInv
<1>3. PICK S : S = selectedVoters
  OBVIOUS
<1>4. IsFiniteSet(S) /\ \A a \in S : \E i \in Indices : voters[i] = a
  BY <1>3 DEF DrawInv, DrawnInv
<1> DEFINE At(s) == {i \in Indices : voters[i] \in s}
<1>5. PICK G : G = [s \in SUBSET S |-> W[At(s)]]
  OBVIOUS
<1>6. \A s \in SUBSET S : G[s] = W[At(s)]
  BY <1>5
<1>7. ASSUME NEW s \in SUBSET S, s # {}, NEW x, x = CHOOSE y \in s : TRUE
      PROVE  G[s] = weights[VoterIndex(x)] + G[s \ {x}]
  <2>1. x \in s
    BY <1>7
  <2>2. PICK i \in Indices : voters[i] = x
    BY <1>4, <2>1
  <2>3. VoterIndex(x) = i
    BY <1>1, <2>2, IndexOf
  <2>4. At(s) \in SUBSET Indices /\ i \in At(s)
    BY <2>1, <2>2
  <2>5. At(s \ {x}) = At(s) \ {i}
    BY <2>2 DEF Distinct, Indices
  <2>6. s \ {x} \in SUBSET S
    OBVIOUS
  <2> HIDE DEF At
  <2>7. W[At(s)] = weights[i] + W[At(s) \ {i}]
    BY <1>2, <2>4 DEF Additive
  <2> QED
    BY <1>6, <2>3, <2>5, <2>6, <2>7
<1>8. ASSUME NEW s \in SUBSET S, s = {} PROVE G[s] = 0
  <2>1. At(s) = {}
    BY <1>8
  <2> HIDE DEF At
  <2> QED
    BY <1>2, <1>6, <2>1 DEF Additive
<1> HIDE DEF At
<1>9. G = SumStep(S, G)
  <2>1. \A s \in SUBSET S :
          G[s] = IF s = {} THEN 0
                 ELSE weights[VoterIndex(CHOOSE x \in s : TRUE)] + G[s \ {CHOOSE x \in s : TRUE}]
    BY <1>7, <1>8
  <2>2. G = [s \in SUBSET S |-> G[s]]
    BY <1>5
  <2> QED
    BY <2>1, <2>2 DEF SumStep
<1>10. PICK iter : iter = CHOOSE it : it = SumStep(S, it)
  OBVIOUS
<1>11. iter = SumStep(S, iter)
  BY <1>9, <1>10
<1>12. iter[S] = G[S]
  BY <1>4, <1>9, <1>11, SumUnique
<1>13. At(S) = Chosen
  BY <1>3 DEF At, Chosen
<1>14. G[S] = selectedWeight
  BY <1>2, <1>6, <1>13
<1>15. MapThenSumSet(LAMBDA a : weights[VoterIndex(a)], S) = iter[S]
  BY <1>10, SumUnfold
<1> QED
  BY <1>3, <1>12, <1>14, <1>15

\* RandomSelectThresholdWeightVoters returns the first time the voters drawn, each
\* counted once, have the wanted weight, whatever the list of voters, their
\* weights and the values drawn.
THEOREM MinimalTheorem == VoterSpec => []SelectionIsMinimal
<1>1. ASSUME VoterTypeOK, DrawInv PROVE SelectionIsMinimal
  <2>1. ASSUME drawPc = "done", Distinct, NEW drawn, drawn = selectedWeight
        PROVE  /\ thresholdWeight <= drawn /\ 2 * thresholdWeight <= totalWeight
               /\ thresholdWeight > 0 => drawn - last < thresholdWeight
    BY <1>1, <2>1 DEF DrawInv, LoopInv, Drawing
  <2>2. Distinct => MapThenSumSet(LAMBDA a : weights[VoterIndex(a)], selectedVoters) = selectedWeight
    BY <1>1, DrawnWeight
  <2> QED
    BY <1>1, <2>1, <2>2 DEF SelectionIsMinimal
<1> QED
  BY <1>1, TypeInvariant, DrawInvariant, PTL
===============================================================================
