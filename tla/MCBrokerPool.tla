---------------------------- MODULE MCBrokerPool ----------------------------
(* BrokerPool for TLC: the configuration names a machine that is gone, and in
   broker.yml's old fields another machine is the user's. *)
EXTENDS BrokerPool, TLC

CONSTANTS u1, u2, m1, m2, ghost

MCPriority == m1 :> 10 @@ m2 :> 20
MCConfigured == u1 :> {m1, ghost}
MCLegacy == u1 :> {m2}
=============================================================================
