------------------------------ MODULE Submitters ------------------------------
(***************************************************************************)
(* RunEpoch of one submitter for one voting epoch                          *)
(* (client/protocol/submitter.go, protocol_utils.go): ask the sub-protocol *)
(* providers in parallel, read their answers in order, put the valid ones  *)
(* in one transaction and send it.  A Submitter (submit1, submit2) does so *)
(* once; the SignatureSubmitter repeats it in rounds for the providers     *)
(* whose data has not been sent.                                           *)
(*                                                                         *)
(* A payload is the number of its provider.  A request that fails, times   *)
(* out or is not decodable is a failed attempt of getDataWithRetry.        *)
(***************************************************************************)
EXTENDS Naturals, Sequences, Functions

CONSTANTS
  NProtocols,     \* number of sub-protocols
  MaxRounds,      \* maxRounds
  FetchRetries,   \* dataFetchRetries
  TxSubmitRetries \* tx_submit_retries of the configuration, 0 if it is not set

SubProtocol == 1 .. NProtocols

ASSUME SubmitterAssumption ==
  /\ NProtocols \in Nat /\ MaxRounds \in Nat /\ FetchRetries \in Nat
  /\ TxSubmitRetries \in Nat

\* newSubmitter and newSignatureSubmitter try at least once.
SubmitRetries == IF TxSubmitRetries > 1 THEN TxSubmitRetries ELSE 1

VARIABLES
  kind,             \* which RunEpoch: Submitter or SignatureSubmitter
  runPc,            \* control of RunEpoch
  round,            \* rounds done
  protocolsToSend,  \* sub-protocols whose data is not sent
  copied,           \* protocolsToSendCopy
  channels,         \* getDataWithRetry goroutine of each sub-protocol
  i,                \* sub-protocol whose answer is read next
  buffer,           \* payloads written
  tries,            \* failed attempts of submit
  accepted,         \* transactions reported as successful
  landed            \* history: transactions that are on the chain

sendVars == <<tries, accepted, landed>>
runEpochVars == <<kind, runPc, round, protocolsToSend, copied, channels, i, buffer, sendVars>>

NoFetch == [state |-> "none", tries |-> 0, round |-> 0]
Rounds == IF kind = "submit" THEN 1 ELSE MaxRounds

\* Start the requests of a round.
StartRound ==
  /\ runPc = "loop"
  /\ round < Rounds
  /\ protocolsToSend # {} \/ kind = "submit"
  /\ channels' = [k \in SubProtocol |->
                    IF k \in protocolsToSend
                    THEN [state |-> IF FetchRetries = 0 THEN "failed" ELSE "fetch",
                          tries |-> 0, round |-> round]
                    ELSE channels[k]]
  /\ copied' = protocolsToSend
  /\ buffer' = <<>> /\ i' = 1 /\ runPc' = "read"
  /\ UNCHANGED <<kind, round, protocolsToSend, sendVars>>

\* The provider of k answers with data that the verifier accepts.
FetchSucceeds(k) ==
  /\ channels[k].state = "fetch"
  /\ channels' = [channels EXCEPT ![k].state = "ok"]
  /\ UNCHANGED <<kind, runPc, round, protocolsToSend, copied, i, buffer, sendVars>>

\* The provider of k has a status other than OK: SignatureSubmitterDataVerifier
\* makes that an error, IdentityDataVerifier does not.
FetchNotOK(k) ==
  /\ channels[k].state = "fetch"
  /\ kind = "submit"
  /\ channels' = [channels EXCEPT ![k].state = "not ok"]
  /\ UNCHANGED <<kind, runPc, round, protocolsToSend, copied, i, buffer, sendVars>>

\* Mutant of FetchFails: the attempts start over.
FetchFailsForever(k) ==
  /\ channels[k].state = "fetch"
  /\ channels' = [channels EXCEPT ![k].tries = (@ + 1) % FetchRetries]
  /\ UNCHANGED <<kind, runPc, round, protocolsToSend, copied, i, buffer, sendVars>>

\* An attempt fails.
FetchFails(k) ==
  LET n == channels[k].tries + 1
  IN  /\ channels[k].state = "fetch"
      /\ channels' = [channels EXCEPT ![k].tries = n,
                                      ![k].state = IF n = FetchRetries THEN "failed" ELSE "fetch"]
      /\ UNCHANGED <<kind, runPc, round, protocolsToSend, copied, i, buffer, sendVars>>

\* Mutant of ReadAnswer: a late answer is left for the next round.
ReadAnswerIfThere ==
  /\ runPc = "read"
  /\ i \in SubProtocol
  /\ i' = i + 1
  /\ IF i \notin protocolsToSend
     THEN UNCHANGED <<protocolsToSend, channels, buffer>>
     ELSE \/ /\ channels[i].state \in {"failed", "not ok", "fetch"}
             /\ channels' = IF channels[i].state = "fetch" THEN channels
                            ELSE [channels EXCEPT ![i] = NoFetch]
             /\ UNCHANGED <<protocolsToSend, buffer>>
          \/ /\ channels[i].state = "ok"
             /\ channels' = [channels EXCEPT ![i] = NoFetch]
             /\ buffer' = Append(buffer, i)
             /\ protocolsToSend' = protocolsToSend \ {i}
  /\ UNCHANGED <<kind, runPc, round, copied, sendVars>>

\* Mutant of ReadAnswer: answers are taken as they come.
ReadAnswerAsReady ==
  /\ runPc = "read"
  /\ i \in SubProtocol
  /\ i' = i + 1
  /\ \E k \in SubProtocol :
       /\ channels[k].state \in {"ok", "not ok", "failed"}
       /\ channels' = [channels EXCEPT ![k] = NoFetch]
       /\ IF channels[k].state = "ok"
          THEN buffer' = Append(buffer, k) /\ protocolsToSend' = protocolsToSend \ {k}
          ELSE UNCHANGED <<protocolsToSend, buffer>>
  /\ UNCHANGED <<kind, runPc, round, copied, sendVars>>

\* Read the answer for sub-protocol i, or wait for it.  Signing it may fail.
ReadAnswer ==
  /\ runPc = "read"
  /\ i \in SubProtocol
  /\ i' = i + 1
  /\ IF i \notin protocolsToSend
     THEN UNCHANGED <<protocolsToSend, channels, buffer>>
     ELSE /\ channels[i].state \in {"ok", "not ok", "failed"}
          /\ channels' = [channels EXCEPT ![i] = NoFetch]
          /\ \/ /\ channels[i].state # "ok" \/ kind = "signatures"
                /\ UNCHANGED <<protocolsToSend, buffer>>
             \/ /\ channels[i].state = "ok"
                /\ buffer' = Append(buffer, i)
                /\ protocolsToSend' = protocolsToSend \ {i}
  /\ UNCHANGED <<kind, runPc, round, copied, sendVars>>

\* All answers are read: send what there is.
AnswersRead ==
  /\ runPc = "read"
  /\ i \notin SubProtocol
  /\ IF protocolsToSend # copied
     THEN runPc' = "submit" /\ UNCHANGED round
     ELSE runPc' = "loop" /\ round' = round + 1
  /\ tries' = 0
  /\ UNCHANGED <<kind, protocolsToSend, copied, channels, i, buffer, accepted, landed>>

SubmitSucceeds ==
  /\ runPc = "submit"
  /\ accepted' = Append(accepted, buffer)
  /\ landed' = Append(landed, buffer)
  /\ runPc' = "loop" /\ round' = round + 1
  /\ UNCHANGED <<kind, protocolsToSend, copied, channels, i, buffer, tries>>

\* Mutant of SubmitFails: the sub-protocols stay removed.
SubmitFailsForgets ==
  /\ runPc = "submit"
  /\ landed' \in {landed, Append(landed, buffer)}
  /\ tries' = tries + 1
  /\ IF tries' < SubmitRetries
     THEN UNCHANGED <<runPc, round, protocolsToSend>>
     ELSE runPc' = "loop" /\ round' = round + 1 /\ UNCHANGED protocolsToSend
  /\ UNCHANGED <<kind, copied, channels, i, buffer, accepted>>

\* SendRawTx fails; a transaction it could not follow may still be mined.  After
\* the last attempt the signature submitter takes the removed providers back.
SubmitFails ==
  /\ runPc = "submit"
  /\ landed' \in {landed, Append(landed, buffer)}
  /\ tries' = tries + 1
  /\ IF tries' < SubmitRetries
     THEN UNCHANGED <<runPc, round, protocolsToSend>>
     ELSE runPc' = "loop" /\ round' = round + 1 /\ protocolsToSend' = copied
  /\ UNCHANGED <<kind, copied, channels, i, buffer, accepted>>

\* RunEpoch returns.
Return ==
  /\ runPc = "loop"
  /\ round = Rounds \/ protocolsToSend = {}
  /\ runPc' = "done"
  /\ UNCHANGED <<kind, round, protocolsToSend, copied, channels, i, buffer, sendVars>>

RunEpochInit ==
  /\ kind \in {"submit", "signatures"}
  /\ runPc = "loop" /\ round = 0 /\ i = 1
  /\ protocolsToSend = SubProtocol /\ copied = {}
  /\ channels = [k \in SubProtocol |-> NoFetch]
  /\ buffer = <<>> /\ tries = 0 /\ accepted = <<>> /\ landed = <<>>

Fetch(k) == FetchSucceeds(k) \/ FetchNotOK(k) \/ FetchFails(k)

RunEpoch == StartRound \/ ReadAnswer \/ AnswersRead \/ SubmitSucceeds \/ SubmitFails \/ Return

RunEpochNext == RunEpoch \/ \E k \in SubProtocol : Fetch(k)

RunEpochSpec == RunEpochInit /\ [][RunEpochNext]_runEpochVars

\* Goroutines are scheduled; every request and every attempt to send ends, which is
\* an assumption on providers and node.
RunEpochFairSpec ==
  /\ RunEpochSpec
  /\ WF_runEpochVars(RunEpoch)
  /\ \A k \in SubProtocol : WF_runEpochVars(Fetch(k))

(***************************************************************************)
(* Properties.                                                             *)
(***************************************************************************)

RunEpochTypeOK ==
  /\ kind \in {"submit", "signatures"}
  /\ runPc \in {"loop", "read", "submit", "done"}
  /\ round \in 0 .. Rounds /\ i \in 1 .. NProtocols + 1
  /\ protocolsToSend \subseteq SubProtocol /\ copied \subseteq SubProtocol
  /\ channels \in [SubProtocol -> [state : {"none", "fetch", "ok", "not ok", "failed"},
                                   tries : 0 .. FetchRetries, round : Nat]]
  /\ buffer \in Seq(SubProtocol) /\ tries \in 0 .. SubmitRetries
  /\ accepted \in Seq(Seq(SubProtocol)) /\ landed \in Seq(Seq(SubProtocol))

Sent == UNION {Range(accepted[n]) : n \in DOMAIN accepted}

\* A sub-protocol's data is in at most one successful transaction, at most once,
\* and between rounds exactly those that are in none are still to be sent: a failed
\* submission puts them back.  No transaction is sent for a round without data.
ToSendIsUnsent ==
  /\ RunEpochTypeOK
  /\ \A n \in DOMAIN accepted : accepted[n] # <<>> /\ IsInjective(accepted[n])
  /\ \A n, k \in DOMAIN accepted : n # k => Range(accepted[n]) \cap Range(accepted[k]) = {}
  /\ runPc \in {"loop", "done"} => protocolsToSend = SubProtocol \ Sent

\* No request of a round outlives it: every goroutine's answer is read in the
\* round that started it, so no goroutine is left blocked on its channel and no
\* answer of an earlier round is ever used.
AnswersAreFresh ==
  \A k \in SubProtocol :
    channels[k].state # "none" => runPc = "read" /\ channels[k].round = round

\* The payloads of a transaction are in the order of the configuration, in
\* whatever order the providers answered.
InOrder ==
  \A n \in DOMAIN landed : \A x, y \in DOMAIN landed[n] : x < y => landed[n][x] < landed[n][y]

\* RunEpoch returns, whatever providers and chain answer.
Returns == <>(runPc = "done")
==============================================================================
