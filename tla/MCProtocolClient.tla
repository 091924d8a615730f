--------------------------- MODULE MCProtocolClient ---------------------------
(***************************************************************************)
(* Instance of ProtocolClient for TLC: all submitters, with submit2 later  *)
(* in its epoch than submit1, as in the sample configuration.              *)
(***************************************************************************)
EXTENDS ProtocolClient, TLC

MCEnabled == Submitter
MCStartOffset == ("submit1" :> 0) @@ ("submit2" :> 1) @@ ("submitSignatures" :> 1)
==============================================================================
