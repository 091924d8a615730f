------------------------------ MODULE MCProcess ------------------------------
(***************************************************************************)
(* Instance of Process for TLC.                                            *)
(***************************************************************************)
EXTENDS Process

\* Configurations that tell the features of the epoch client apart, one of them
\* with the other two clients, and one that enables nothing.
MCEnablings == {{"registration"}, {"rewards"}, {"uptime", "protocol", "finalizer"}, {}}

\* Registration events of two epochs come in the first two epochs (two ticks
\* each), signing events of two epochs in the second and the third.
MCHorizon(features) == IF "registration" \in features THEN 2 ELSE 5

OneMalformed == {<<"uptime", 0>>}
==============================================================================
