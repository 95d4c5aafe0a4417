--------------------------- MODULE MCPeerExchange ---------------------------
(***************************************************************************)
(* Instances of PeerExchange for TLC: one server s and clients that use it *)
(* as their boot node and dial it.                                         *)
(***************************************************************************)
EXTENDS PeerExchange, TLC

CONSTANTS s, a, b, c, Client

MCNode == {s} \cup Client
Direct(p, public) == [peer |-> p, via |-> p, wan |-> public]
Public(p) == Direct(p, TRUE)
Private(p) == Direct(p, FALSE)

MCBootNodes == [n \in MCNode |-> IF n = s THEN <<>> ELSE <<Public(s)>>]
\* The server sees its clients at their public addresses.
MCSendBack == [n \in MCNode |-> Public(n)]
\* Clients advertise the address of their own network; only the server has a
\* public one to send.
MCAdvertised == [n \in MCNode |-> IF n = s THEN {{Public(s)}} ELSE {{Private(n)}}]
MCNothingSaved == [n \in MCNode |-> [p \in MCNode |-> {}]]
\* Of two clients, each saved the other at its last exit.
MCSavedOther ==
  [n \in MCNode |-> [p \in MCNode |->
     IF {n, p} \subseteq Client /\ n # p THEN {Public(p)} ELSE {}]]
MCDialBoot == Client \X {Public(s)}

\* Who hears whose Identify messages: all hear the clients', or one client b's.
MCClientsIdentify == Client \X MCNode
MCLastIdentifies == {<<b, a>>}

\* A chain of connections: client c starts from client a, and a from the server.
\* a has saved b, which it is not connected to, so that the Identify messages of
\* s and c make a introduce b and c; c's Identify gets to b when they have met.
MCChainSaved ==
  [n \in MCNode |-> [p \in MCNode |->
     IF <<n, p>> \in {<<a, b>>, <<c, a>>} THEN {Public(p)} ELSE {}]]
MCChainDial == {<<a, Public(s)>>, <<c, Public(a)>>}
MCChainIdentify == {<<s, a>>, <<c, a>>, <<c, b>>}
MCPublicAdvertised == [n \in MCNode |-> {{Public(n)}}]

\* The stimuli of the runs.
MCAsk == {"get nodes"} \X Client
MCAll == Kind \X MCNode
MCFailures ==
  ({"restart", "get nodes", "timeout"} \X {s})
  \cup ({"drop", "identify", "ping tick", "get boot nodes"} \X {a})
  \cup ({"drop", "stop", "restart", "ping", "dial"} \X {b})

ClientSymmetry == Permutations(Client)
=============================================================================
