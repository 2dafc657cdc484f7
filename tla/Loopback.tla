------------------------------ MODULE Loopback ------------------------------
(***************************************************************************)
(* The two loopback servers of one program: the bridge of a client and the *)
(* `opencode serve` of a ListModelCapabilities call.  They share nothing   *)
(* and run side by side.                                                   *)
(***************************************************************************)
EXTENDS Serve, Bridge

Init == ServeInit /\ BridgeInit

Next == \/ ServeNext /\ UNCHANGED bridgeVars
        \/ BridgeNext /\ UNCHANGED serveVars

Spec == Init /\ [][Next]_<<serveVars, bridgeVars>> /\ ServeFairness /\ BridgeFairness

\* Both servers come to an end: the call that spawned one returns, its reaping
\* goroutine ends, and Close frees the port of the other.
LoopbackEnds == ServeCallEnds /\ WaiterEnds /\ CloseFreesPort
=============================================================================
