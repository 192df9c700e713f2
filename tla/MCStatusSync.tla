---------------------------- MODULE MCStatusSync ----------------------------
(***************************************************************************)
(* Instances of StatusSync for TLC: courses a status may take at the PDP,  *)
(* and deployments.                                                        *)
(***************************************************************************)
EXTENDS StatusSync

\* The documented words only.
PlainMoves == {<<"SUBMITTED", "PROCESSING">>, <<"PROCESSING", "ACCEPTED">>,
               <<"PROCESSING", "REJECTED">>, <<"ACCEPTED", "PAID">>}

\* One step: on to a pending status in another case, or accepted at once.
ShortMoves == {<<"SUBMITTED", "processing">>, <<"SUBMITTED", "ACCEPTED">>}

\* A provider that honours the key, with reconciliation.
Usual == {[dedupes |-> TRUE, batch |-> 1]}

\* The same, and one that ignores the key (as the mock does); there without
\* reconciliation, which would only add more SYNC_STATUS jobs of the same kind.
BothProviders == Usual \cup {[dedupes |-> FALSE, batch |-> 0]}
=============================================================================
