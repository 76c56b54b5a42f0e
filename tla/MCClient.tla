------------------------------- MODULE MCClient -------------------------------
(***************************************************************************)
(* The client, and the keep-alive of a stream, which shares no state with  *)
(* it here: a behaviour is one of the client or one of a stream's pings.   *)
(***************************************************************************)
EXTENDS MqttClient, MqttKeepAlive

ClientInit == Init /\ PingInit

\* Before Start no goroutine of the client can move, so that its fairness asks for
\* nothing while pings go on.
ClientNext ==
    \/ PingInit /\ Next /\ UNCHANGED pingVars
    \/ Init /\ PingNext /\ UNCHANGED vars

ClientSpec == ClientInit /\ [][ClientNext]_<<vars, pingVars>> /\ Fairness
=============================================================================
