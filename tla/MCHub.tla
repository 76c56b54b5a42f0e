-------------------------------- MODULE MCHub --------------------------------
(***************************************************************************)
(* The hub with its processor, for the model checker.                      *)
(***************************************************************************)
EXTENDS Hub

\* Bound: all publishers race on the processor's channel, or one of them ranges over
\* all channels.
One == CHOOSE p \in Publishers : TRUE
Bounded ==
    \/ fresh = {Proc} /\ \A p \in Publishers : ppc[p] = "idle"
    \/ fresh = Channels /\ \A p \in Publishers : ppc[p] = "idle" <=> p = One

MCInit == HubInit /\ Bounded

MCSpec == MCInit /\ [][HubNext]_allVars /\ Fairness
=============================================================================
