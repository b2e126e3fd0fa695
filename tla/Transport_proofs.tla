--------------------------- MODULE Transport_proofs ---------------------------
(***************************************************************************)
(* Proofs about how a client gets through to a server (Connection) and how *)
(* media then reach it over UDP (UdpMedia), each for all values of its     *)
(* constants.  The handshake, for any number of failures and attempts and  *)
(* any length of the wire: both state machines go with the handshake.  The *)
(* media, for any number of connections, probes, frames and fragments, and *)
(* whatever is lost, repeated or reordered: frames are whole, none goes    *)
(* back in time, and UDP is used where it is proven.                       *)
(***************************************************************************)
EXTENDS Connection, UdpMedia, SequenceTheorems, FiniteSetTheorems, TLAPS

(* Connection: where the ends are                                          *)

\* Places of the client's thread where it neither has nor opens a connection.
Resting == {"off", "check", "enter", "broker", "sleep", "ending", "ended"}

\* The server asks who is there; a broker is one that a redirect has found; the
\* server's handler is past its last message.
Asks == mode # "none" \/ peer = "broker"
Trusted == peer = "broker" => route = "found"
Over == spc \in {"returned", "done"}

\* What the server has sent behind the first k messages in s2c, once it is satisfied.
Sequel(k) ==
  /\ Trusted
  /\ \/ Len(s2c) = k /\ (spc = "setup" \/ Over)
     \/ Len(s2c) = k + 1 /\ s2c[k + 1] = "refused" /\ Over
     \/ /\ Len(s2c) = k + 1 /\ s2c[k + 1] = "machines"
        /\ peer = "broker" /\ (spc = "choosing" \/ Over)
     \/ /\ k < Len(s2c) /\ s2c[k + 1] = "hello" /\ (spc = "serving" \/ Over)
        /\ \A i \in (k + 2)..Len(s2c) : s2c[i] = "data"

\* What is between the ends while the client waits at each of its places.
AtFirst ==
  /\ c2s = <<>>
  /\ \/ s2c = <<>> /\ spc \in {"accepted", "done"}
     \/ Asks /\ s2c = <<"request">> /\ (spc = "auth" \/ Over)
     \/ ~Asks /\ Sequel(0)
AtResult ==
  /\ Asks
  /\ \/ /\ s2c = <<>> /\ (spc = "auth" \/ Over)
        /\ Len(c2s) = 1 /\ c2s[1].kind \in {"password", "token"}
        /\ c2s[1].kind = "password" => Trusted
     \/ c2s = <<>> /\ s2c = <<"refused">> /\ Over
     \/ c2s = <<>> /\ s2c # <<>> /\ s2c[1] = "ok" /\ Sequel(1)
AtHello == Asks /\ c2s = <<>> /\ Sequel(0)
AtPick == Trusted /\ peer = "broker" /\ c2s = <<>> /\ s2c = <<>> /\ (spc = "choosing" \/ Over)
AtAssign ==
  /\ Trusted /\ peer = "broker"
  /\ \/ s2c = <<>> /\ Len(c2s) = 1 /\ (spc = "choosing" \/ Over)
     \/ c2s = <<>> /\ s2c \in {<<"assigned">>, <<"unassigned">>} /\ Over
AtGreet == c2s = <<>> /\ (spc = "serving" \/ Over)
AtLive ==
  /\ spc = "serving" \/ Over
  /\ \A i \in 1..Len(c2s) : c2s[i].state = cfsm
  /\ spc = "serving" =>
       \/ /\ sfsm = "capability_exchange" /\ c2s # <<>> /\ c2s[1].kind = "chello"
          /\ \A i \in 2..Len(c2s) : c2s[i].kind = "ping"
       \/ sfsm = "streaming" /\ \A i \in 1..Len(c2s) : c2s[i].kind = "ping"

\* Where both ends are, and what is between them.
InStep ==
  /\ pc \notin Online => s2c = <<>> /\ c2s = <<>> /\ spc = "none"
  /\ pc = "first" => AtFirst
  /\ pc = "result" => AtResult
  /\ pc = "hello" => AtHello
  /\ pc = "pick" => AtPick
  /\ pc = "assign" => AtAssign
  /\ pc = "greet" => AtGreet
  /\ pc = "live" => AtLive

\* The server's state machine goes with its handler, ahead of the client's hello.
ServerFsm ==
  /\ spc \in {"none", "accepted"} => sfsm = "bootstrapping"
  /\ spc = "auth" => sfsm = "authenticating"
  /\ spc \in {"setup", "choosing"} => sfsm = "capability_exchange"
  /\ spc = "serving" /\ pc # "live" => sfsm = "capability_exchange"

\* Who answers goes with the route.  A broker that is reached with a token never lets the client in.
PeerKnown ==
  /\ route = "direct" => peer = "machine"
  /\ route = "broker" /\ pc # "off" => brokered
  /\ peer = "broker" /\ route = "broker" /\ pc \in {"dial", "tcp"} \cup Online => token # "none"

\* The attempt that a redirect led to: the client's machine is ahead of it.
Redirected == route = "found" /\ cfsm = "capability_exchange"

\* The client's state machine goes with its thread, if it is asked who it is: without
\* authentication the hello meets it in a state that has no move for it.
ClientFsm ==
  /\ pc \in Resting => cfsm \in {"disconnected", "reconnecting"}
  /\ pc = "dial" => cfsm \in {"disconnected", "reconnecting"} \/ Redirected
  /\ pc = "tcp" => cfsm = "handshaking" \/ Redirected
  /\ pc \in {"first", "result"} => cfsm = "authenticating" \/ Redirected
  /\ pc \in {"hello", "pick", "assign"} => cfsm = "capability_exchange"
  /\ pc \in {"greet", "live"} =>
       \/ cfsm = "streaming"
       \/ cfsm \in {"authenticating", "capability_exchange"} /\ Over
  /\ pc = "lost" => cfsm \in {"disconnected", "reconnecting", "handshaking", "authenticating",
                              "capability_exchange", "streaming"}

\* Together they are inductive.
HandshakeInv == TypeOK /\ InStep /\ ServerFsm /\ PeerKnown /\ (mode # "none" => ClientFsm)
-----------------------------------------------------------------------------
\* The client's table, spelt out.
LEMMA ClientMove ==
  ASSUME NEW s, NEW e, NEW t
  PROVE  <<s, e, t>> \in ClientMoves <=>
           \/ /\ s \in {"disconnected", "reconnecting"}
              /\ e = "connect_requested" /\ t = "handshaking"
           \/ s = "handshaking" /\ e = "tls_ok" /\ t = "authenticating"
           \/ s = "authenticating" /\ e = "auth_ok" /\ t = "capability_exchange"
           \/ s = "capability_exchange" /\ e = "hello_received" /\ t = "streaming"
           \/ /\ s \in {"streaming", "degraded", "handshaking", "authenticating",
                      "capability_exchange"}
              /\ e = "transport_lost" /\ t = "reconnecting"
BY DEF ClientMoves, Handshake, LostFrom

\* The server's table, spelt out.
LEMMA ServerMove ==
  ASSUME NEW s, NEW e, NEW t
  PROVE  <<s, e, t>> \in ServerMoves <=>
           \/ s = "bootstrapping" /\ e = "tls_ok" /\ t = "authenticating"
           \/ s = "authenticating" /\ e = "auth_ok" /\ t = "capability_exchange"
           \/ s = "capability_exchange" /\ e = "client_hello" /\ t = "streaming"
           \/ /\ s \in {"streaming", "capability_exchange", "reconfiguring"}
              /\ e = "ws_closed" /\ t = "draining"
BY DEF ServerMoves

\* A move from s by e, when there is one, is the only one.
LEMMA FireTo ==
  ASSUME NEW moves, NEW s, NEW e, NEW t \in ClientStates \cup ServerStates,
         <<s, e, t>> \in moves, \A u : <<s, e, u>> \in moves => u = t
  PROVE  Fire(moves, s, e) = t
BY DEF Fire

\* An event without a move leaves the state alone.
LEMMA FireStays ==
  ASSUME NEW moves, NEW s, NEW e, \A u : <<s, e, u>> \notin moves
  PROVE  Fire(moves, s, e) = s
BY DEF Fire

\* The client's machine takes the move its table has.
LEMMA ClientGoes ==
  ASSUME NEW s, NEW e, NEW t, <<s, e, t>> \in ClientMoves
  PROVE  Fire(ClientMoves, s, e) = t
<1>1. t \in ClientStates \cup ServerStates  BY ClientMove DEF ClientStates
<1>2. \A u : <<s, e, u>> \in ClientMoves => u = t  BY ClientMove
<1> QED BY <1>1, <1>2, FireTo

\* So does the server's.
LEMMA ServerGoes ==
  ASSUME NEW s, NEW e, NEW t, <<s, e, t>> \in ServerMoves
  PROVE  Fire(ServerMoves, s, e) = t
<1>1. t \in ClientStates \cup ServerStates  BY ServerMove DEF ServerStates
<1>2. \A u : <<s, e, u>> \in ServerMoves => u = t  BY ServerMove
<1> QED BY <1>1, <1>2, FireTo

\* The client's moves that the handshake uses.
LEMMA ClientFires ==
  /\ \A s \in {"disconnected", "reconnecting"} :
       Fire(ClientMoves, s, "connect_requested") = "handshaking"
  /\ Fire(ClientMoves, "handshaking", "tls_ok") = "authenticating"
  /\ Fire(ClientMoves, "authenticating", "auth_ok") = "capability_exchange"
  /\ Fire(ClientMoves, "capability_exchange", "hello_received") = "streaming"
  /\ \A e \in {"connect_requested", "tls_ok", "auth_ok"} :
       Fire(ClientMoves, "capability_exchange", e) = "capability_exchange"
  /\ \A s \in {"streaming", "handshaking", "authenticating", "capability_exchange"} :
       Fire(ClientMoves, s, "transport_lost") = "reconnecting"
  /\ \A s \in {"disconnected", "reconnecting"} : Fire(ClientMoves, s, "transport_lost") = s
<1>1. ASSUME NEW s \in {"disconnected", "reconnecting"}
      PROVE  /\ Fire(ClientMoves, s, "connect_requested") = "handshaking"
             /\ Fire(ClientMoves, s, "transport_lost") = s
  <2>1. <<s, "connect_requested", "handshaking">> \in ClientMoves  BY ClientMove
  <2>2. \A t : <<s, "transport_lost", t>> \notin ClientMoves  BY ClientMove
  <2> QED BY <2>1, <2>2, ClientGoes, FireStays
<1>2. <<"handshaking", "tls_ok", "authenticating">> \in ClientMoves  BY ClientMove
<1>3. <<"authenticating", "auth_ok", "capability_exchange">> \in ClientMoves  BY ClientMove
<1>4. <<"capability_exchange", "hello_received", "streaming">> \in ClientMoves  BY ClientMove
<1>5. ASSUME NEW e \in {"connect_requested", "tls_ok", "auth_ok"}
      PROVE  Fire(ClientMoves, "capability_exchange", e) = "capability_exchange"
  <2>1. \A t : <<"capability_exchange", e, t>> \notin ClientMoves  BY ClientMove
  <2> QED BY <2>1, FireStays
<1>6. ASSUME NEW s \in {"streaming", "handshaking", "authenticating", "capability_exchange"}
      PROVE  Fire(ClientMoves, s, "transport_lost") = "reconnecting"
  <2>1. <<s, "transport_lost", "reconnecting">> \in ClientMoves  BY ClientMove
  <2> QED BY <2>1, ClientGoes
<1>7. /\ Fire(ClientMoves, "handshaking", "tls_ok") = "authenticating"
      /\ Fire(ClientMoves, "authenticating", "auth_ok") = "capability_exchange"
      /\ Fire(ClientMoves, "capability_exchange", "hello_received") = "streaming"
  BY <1>2, <1>3, <1>4, ClientGoes
<1> QED BY <1>1, <1>5, <1>6, <1>7

\* The server's moves that the handshake uses.
LEMMA ServerFires ==
  /\ Fire(ServerMoves, "bootstrapping", "tls_ok") = "authenticating"
  /\ Fire(ServerMoves, "authenticating", "auth_ok") = "capability_exchange"
  /\ Fire(ServerMoves, "capability_exchange", "client_hello") = "streaming"
<1>1. <<"bootstrapping", "tls_ok", "authenticating">> \in ServerMoves  BY ServerMove
<1>2. <<"authenticating", "auth_ok", "capability_exchange">> \in ServerMoves  BY ServerMove
<1>3. <<"capability_exchange", "client_hello", "streaming">> \in ServerMoves  BY ServerMove
<1> QED BY <1>1, <1>2, <1>3, ServerGoes

\* No event leads out of the states.
LEMMA FireTypes ==
  ASSUME NEW e
  PROVE  /\ \A s \in ClientStates : Fire(ClientMoves, s, e) \in ClientStates
         /\ \A s \in ServerStates : Fire(ServerMoves, s, e) \in ServerStates
<1>1. ASSUME NEW s \in ClientStates PROVE Fire(ClientMoves, s, e) \in ClientStates
  <2>1. ASSUME NEW t, <<s, e, t>> \in ClientMoves PROVE t \in ClientStates
    BY <2>1, ClientMove DEF ClientStates
  <2> QED BY <2>1 DEF Fire
<1>2. ASSUME NEW s \in ServerStates PROVE Fire(ServerMoves, s, e) \in ServerStates
  <2>1. ASSUME NEW t, <<s, e, t>> \in ServerMoves PROVE t \in ServerStates
    BY <2>1, ServerMove DEF ServerStates
  <2> QED BY <2>1 DEF Fire
<1> QED BY <1>1, <1>2
-----------------------------------------------------------------------------
\* A message put behind the others, and the oldest one taken off.
LEMMA Messages ==
  ASSUME NEW A, NEW s \in Seq(A)
  PROVE  /\ \A m \in A : Append(s, m) \in Seq(A) /\ Len(Append(s, m)) = Len(s) + 1
         /\ s # <<>> => Head(s) \in A /\ Tail(s) \in Seq(A) /\ Len(Tail(s)) = Len(s) - 1
BY AppendProperties, HeadTailProperties

\* Steps after which both ends are where they were.
LEMMA Untouched ==
  ASSUME InStep, ServerFsm, UNCHANGED <<mode, route, pc, cfsm, peer, server, s2c, c2s>>
  PROVE  InStep' /\ ServerFsm'
BY DEF InStep, AtFirst, AtResult, AtHello, AtPick, AtAssign, AtGreet, AtLive, Sequel, Over,
       Asks, Trusted, ServerFsm, server

\* Steps with no websocket before or after.
LEMMA Offline ==
  ASSUME HandshakeInv, pc \notin Online, pc' \notin Online, UNCHANGED <<server, wire>>
  PROVE  InStep' /\ ServerFsm'
BY DEF HandshakeInv, InStep, ServerFsm, server, wire, Online

\* The end of an attempt.
LEMMA Leaving ==
  ASSUME HandshakeInv, pc \in Running, NEW raised \in BOOLEAN, Leave(raised),
         UNCHANGED <<config, cfsm, connected, user>>, faults' \in 0..MaxFaults
  PROVE  HandshakeInv'
<1>1. pc' = "lost" /\ link' = "none" /\ s2c' = <<>> /\ c2s' = <<>> /\ spc' = "none"
      /\ sfsm' = "bootstrapping" /\ token' \in {token, "none"}
  BY DEF Leave
<1>2. TypeOK'
  BY <1>1, WireMaxAssumption DEF HandshakeInv, TypeOK, config, user, Online, Running,
     ServerStates
<1>3. InStep' /\ ServerFsm'  BY <1>1 DEF InStep, ServerFsm, Online
<1>4. PeerKnown'  BY <1>1 DEF HandshakeInv, PeerKnown, config, user, Online, Running
<1>5. mode' # "none" => ClientFsm'
  BY <1>1 DEF HandshakeInv, ClientFsm, Redirected, config, Online, Running, Resting
<1> QED BY <1>2, <1>3, <1>4, <1>5 DEF HandshakeInv

\* The GUI thread and the clock.
LEMMA GuiSteps ==
  ASSUME HandshakeInv
  PROVE  /\ (\E b \in BOOLEAN : Connect(b)) => HandshakeInv'
         /\ Disconnect => HandshakeInv'
         /\ JoinReturns => HandshakeInv'
         /\ TokenExpires => HandshakeInv'
<1> USE WireMaxAssumption, MaxFaultsAssumption
      DEF HandshakeInv, config, client, user, server, wire, Online, Running
<1>1. ASSUME NEW b \in BOOLEAN, Connect(b) PROVE HandshakeInv'
  <2>1. TypeOK'  BY <1>1 DEF Connect, TypeOK
  <2>2. InStep' /\ ServerFsm'  BY <1>1, Offline DEF Connect
  <2>3. PeerKnown'  BY <1>1 DEF Connect, TypeOK, PeerKnown
  <2>4. mode' # "none" => ClientFsm'  BY <1>1 DEF Connect, ClientFsm, Redirected, Over, Resting
  <2> QED BY <2>1, <2>2, <2>3, <2>4
<1>2. ASSUME Disconnect PROVE HandshakeInv'
  <2>1. TypeOK'
    <3>1. stop' \in BOOLEAN  BY <1>2 DEF Disconnect
    <3> QED BY <1>2, <3>1, ZenonT(30) DEF Disconnect, TypeOK
  <2>2. InStep' /\ ServerFsm'  BY <1>2, Untouched DEF Disconnect
  <2>3. PeerKnown'  BY <1>2 DEF Disconnect, TypeOK, PeerKnown
  <2>4. mode' # "none" => ClientFsm'
    BY <1>2 DEF Disconnect, ClientFsm, Redirected, Over, Resting
  <2> QED BY <2>1, <2>2, <2>3, <2>4
<1>3. ASSUME JoinReturns PROVE HandshakeInv'
  <2>1. TypeOK'  BY <1>3, ZenonT(30) DEF JoinReturns, TypeOK
  <2>2. InStep' /\ ServerFsm'  BY <1>3, Untouched DEF JoinReturns
  <2>3. PeerKnown'  BY <1>3 DEF JoinReturns, TypeOK, PeerKnown
  <2>4. mode' # "none" => ClientFsm'
    BY <1>3 DEF JoinReturns, ClientFsm, Redirected, Over, Resting
  <2> QED BY <2>1, <2>2, <2>3, <2>4
<1>4. ASSUME TokenExpires PROVE HandshakeInv'
  <2>1. TypeOK'  BY <1>4 DEF TokenExpires, TypeOK
  <2>2. InStep' /\ ServerFsm'  BY <1>4, Untouched DEF TokenExpires
  <2>3. PeerKnown'  BY <1>4 DEF TokenExpires, TypeOK, PeerKnown
  <2>4. mode' # "none" => ClientFsm'
    BY <1>4 DEF TokenExpires, ClientFsm, Redirected, Over, Resting
  <2> QED BY <2>1, <2>2, <2>3, <2>4
<1> QED BY <1>1, <1>2, <1>3, <1>4

\* The loop of the I/O thread, and an attempt before the websocket is open.
LEMMA LoopSteps ==
  ASSUME HandshakeInv
  PROVE  /\ LoopTop => HandshakeInv'
         /\ Enter => HandshakeInv'
         /\ After => HandshakeInv'
         /\ Wake => HandshakeInv'
         /\ End => HandshakeInv'
         /\ BrokerAssigns => HandshakeInv'
         /\ Dial => HandshakeInv'
<1> USE WireMaxAssumption, MaxFaultsAssumption
      DEF HandshakeInv, config, client, user, server, wire, Online, Running
<1>1. ASSUME LoopTop PROVE HandshakeInv'
  <2>1. TypeOK'  BY <1>1 DEF LoopTop, TypeOK
  <2>2. InStep' /\ ServerFsm'  BY <1>1, Offline DEF LoopTop
  <2>3. PeerKnown'  BY <1>1 DEF LoopTop, TypeOK, PeerKnown
  <2>4. mode' # "none" => ClientFsm'  BY <1>1 DEF LoopTop, ClientFsm, Redirected, Over, Resting
  <2> QED BY <2>1, <2>2, <2>3, <2>4
<1>2. ASSUME Enter PROVE HandshakeInv'
  <2>1. TypeOK'  BY <1>2 DEF Enter, TypeOK
  <2>2. InStep' /\ ServerFsm'  BY <1>2, Offline DEF Enter
  <2>3. PeerKnown'  BY <1>2 DEF Enter, TypeOK, PeerKnown
  <2>4. mode' # "none" => ClientFsm'  BY <1>2 DEF Enter, ClientFsm, Redirected, Over, Resting
  <2> QED BY <2>1, <2>2, <2>3, <2>4
<1>3. ASSUME After PROVE HandshakeInv'
  <2>1. TypeOK'  BY <1>3, FireTypes DEF After, TypeOK
  <2>2. InStep' /\ ServerFsm'  BY <1>3, Offline DEF After
  <2>3. PeerKnown'  BY <1>3 DEF After, TypeOK, PeerKnown
  <2>4. mode' # "none" => ClientFsm'
    BY <1>3, ClientFires DEF After, ClientFsm, Redirected, Over, Resting
  <2> QED BY <2>1, <2>2, <2>3, <2>4
<1>4. ASSUME Wake PROVE HandshakeInv'
  <2>1. TypeOK'  BY <1>4 DEF Wake, TypeOK
  <2>2. InStep' /\ ServerFsm'  BY <1>4, Offline DEF Wake
  <2>3. PeerKnown'  BY <1>4 DEF Wake, TypeOK, PeerKnown
  <2>4. mode' # "none" => ClientFsm'  BY <1>4 DEF Wake, ClientFsm, Redirected, Over, Resting
  <2> QED BY <2>1, <2>2, <2>3, <2>4
<1>5. ASSUME End PROVE HandshakeInv'
  <2>1. TypeOK'  BY <1>5 DEF End, TypeOK
  <2>2. InStep' /\ ServerFsm'  BY <1>5, Offline DEF End
  <2>3. PeerKnown'  BY <1>5 DEF End, TypeOK, PeerKnown
  <2>4. mode' # "none" => ClientFsm'  BY <1>5 DEF End, ClientFsm, Redirected, Over, Resting
  <2> QED BY <2>1, <2>2, <2>3, <2>4
<1>6. ASSUME BrokerAssigns PROVE HandshakeInv'
  <2>1. TypeOK'  BY <1>6 DEF BrokerAssigns, TypeOK
  <2>2. InStep' /\ ServerFsm'  BY <1>6, Offline DEF BrokerAssigns
  <2>3. PeerKnown'  BY <1>6 DEF BrokerAssigns, TypeOK, PeerKnown
  <2>4. mode' # "none" => ClientFsm'
    BY <1>6 DEF BrokerAssigns, ClientFsm, Redirected, Over, Resting
  <2> QED BY <2>1, <2>2, <2>3, <2>4
<1>7. ASSUME Dial PROVE HandshakeInv'
  <2>1. TypeOK'  BY <1>7, FireTypes DEF Dial, TypeOK
  <2>2. InStep' /\ ServerFsm'  BY <1>7, Offline DEF Dial
  <2>3. PeerKnown'  BY <1>7 DEF Dial, TypeOK, PeerKnown
  <2>4. mode' # "none" => ClientFsm'
    BY <1>7, ClientFires DEF Dial, ClientFsm, Redirected, Over, Resting
  <2> QED BY <2>1, <2>2, <2>3, <2>4
<1> QED BY <1>1, <1>2, <1>3, <1>4, <1>5, <1>6, <1>7

\* The ends of an attempt.
LEMMA Endings ==
  ASSUME HandshakeInv
  PROVE  /\ LoopStopped => HandshakeInv'
         /\ BrokerFails => HandshakeInv'
         /\ OpenFails => HandshakeInv'
         /\ NoRedirect => HandshakeInv'
         /\ AssignTimeout => HandshakeInv'
         /\ StreamEnds => HandshakeInv'
         /\ Raises => HandshakeInv'
<1> USE MaxFaultsAssumption
      DEF HandshakeInv, config, client, user, server, wire, Online, Running
<1>1. ASSUME LoopStopped PROVE HandshakeInv'
  <2>1. faults' \in 0..MaxFaults  BY <1>1 DEF LoopStopped, TypeOK
  <2> QED BY <1>1, <2>1, Leaving DEF LoopStopped
<1>2. ASSUME BrokerFails PROVE HandshakeInv'
  <2>1. faults' \in 0..MaxFaults  BY <1>2 DEF BrokerFails, TypeOK
  <2> QED BY <1>2, <2>1, Leaving DEF BrokerFails
<1>3. ASSUME OpenFails PROVE HandshakeInv'
  <2>1. faults' \in 0..MaxFaults  BY <1>3 DEF OpenFails, TypeOK
  <2> QED BY <1>3, <2>1, Leaving DEF OpenFails
<1>4. ASSUME NoRedirect PROVE HandshakeInv'
  <2>1. faults' \in 0..MaxFaults  BY <1>4 DEF NoRedirect, TypeOK
  <2> QED BY <1>4, <2>1, Leaving DEF NoRedirect
<1>5. ASSUME AssignTimeout PROVE HandshakeInv'
  <2>1. faults' \in 0..MaxFaults  BY <1>5 DEF AssignTimeout, TypeOK
  <2> QED BY <1>5, <2>1, Leaving DEF AssignTimeout
<1>6. ASSUME StreamEnds PROVE HandshakeInv'
  <2>1. faults' \in 0..MaxFaults  BY <1>6 DEF StreamEnds, TypeOK
  <2> QED BY <1>6, <2>1, Leaving DEF StreamEnds
<1>7. ASSUME Raises PROVE HandshakeInv'
  <2>1. faults' \in 0..MaxFaults  BY <1>7 DEF Raises, TypeOK
  <2> QED BY <1>7, <2>1, Leaving DEF Raises
<1> QED BY <1>1, <1>2, <1>3, <1>4, <1>5, <1>6, <1>7

\* The client's side of an attempt.
LEMMA Attempts ==
  ASSUME HandshakeInv
  PROVE  /\ Opened => HandshakeInv'
         /\ PasswordAnswer => HandshakeInv'
         /\ TokenAnswer => HandshakeInv'
         /\ GetResult => HandshakeInv'
         /\ GetHello => HandshakeInv'
         /\ FindBroker => HandshakeInv'
         /\ Choose => HandshakeInv'
         /\ Redirect => HandshakeInv'
         /\ SendHello => HandshakeInv'
         /\ Ping => HandshakeInv'
         /\ Drop => HandshakeInv'
<1> USE WireMaxAssumption, MaxFaultsAssumption
      DEF HandshakeInv, config, client, user, server, wire, Online, Running
<1>1. ASSUME Opened PROVE HandshakeInv'
  <2>1. TypeOK'  BY <1>1, FireTypes DEF Opened, TypeOK
  <2>2. InStep' /\ ServerFsm'
    BY <1>1 DEF Opened, TypeOK, InStep, ServerFsm, AtFirst, AtResult, AtHello, AtPick,
       AtAssign, AtGreet, AtLive, Sequel, Over, Asks, Trusted
  <2>3. PeerKnown'  BY <1>1 DEF Opened, TypeOK, PeerKnown
  <2>4. mode' # "none" => ClientFsm'
    BY <1>1, ClientFires DEF Opened, ClientFsm, Redirected, Over, Resting
  <2> QED BY <2>1, <2>2, <2>3, <2>4
<1>2. ASSUME PasswordAnswer PROVE HandshakeInv'
  <2>1. TypeOK'
    BY <1>2, Messages DEF PasswordAnswer, TypeOK, FromClient, Message, Receives, InStep, AtFirst
  <2>2. InStep' /\ ServerFsm'
    <3>1. Trusted  BY <1>2, RoutesAssumption DEF PasswordAnswer, PeerKnown, TypeOK, Trusted
    <3>2. s2c = <<"request">> /\ Asks /\ (spc = "auth" \/ Over) /\ c2s = <<>>
      BY <1>2 DEF PasswordAnswer, Receives, InStep, AtFirst, Sequel
    <3>3. s2c' = <<>> /\ Len(c2s') = 1 /\ c2s'[1].kind = "password"
      BY <1>2, <3>2 DEF PasswordAnswer, Receives, Message
    <3> QED BY <1>2, <3>1, <3>2, <3>3 DEF PasswordAnswer, InStep, ServerFsm, AtResult, Asks,
               Over, Trusted
  <2>3. PeerKnown'  BY <1>2 DEF PasswordAnswer, TypeOK, PeerKnown
  <2>4. mode' # "none" => ClientFsm'
    BY <1>2 DEF PasswordAnswer, ClientFsm, Redirected, Over, Resting
  <2> QED BY <2>1, <2>2, <2>3, <2>4
<1>3. ASSUME TokenAnswer PROVE HandshakeInv'
  <2>1. TypeOK'
    BY <1>3, Messages DEF TokenAnswer, TypeOK, FromClient, Message, Receives, InStep, AtFirst
  <2>2. InStep' /\ ServerFsm'
    BY <1>3 DEF TokenAnswer, Message, Receives, TypeOK, InStep, ServerFsm, AtFirst,
       AtResult, AtHello, AtPick, AtAssign, AtGreet, AtLive, Sequel, Over, Asks, Trusted
  <2>3. PeerKnown'  BY <1>3 DEF TokenAnswer, TypeOK, PeerKnown
  <2>4. mode' # "none" => ClientFsm'
    BY <1>3 DEF TokenAnswer, ClientFsm, Redirected, Over, Resting
  <2> QED BY <2>1, <2>2, <2>3, <2>4
<1>4. ASSUME GetResult PROVE HandshakeInv'
  <2>1. TypeOK'
    <3>1. cfsm' \in ClientStates  BY <1>4, FireTypes, ZenonT(30) DEF GetResult, TypeOK
    <3>2. s2c # <<>> /\ s2c' = Tail(s2c)  BY <1>4 DEF GetResult, Receives
    <3>3. s2c' \in Seq(FromServer) /\ Len(s2c') <= WireMax
      BY <3>2, Messages DEF TypeOK
    <3> QED BY <1>4, <3>1, <3>3 DEF GetResult, TypeOK
  <2>2. InStep' /\ ServerFsm'
    <3>1. CASE Receives("ok")
      <4>1. Asks /\ c2s = <<>> /\ Sequel(1)
        BY <1>4, <3>1 DEF GetResult, Receives, InStep, AtResult
      <4>2. pc' = "hello"  BY <1>4, <3>1 DEF GetResult, Receives
      <4>3. Sequel(0)'
        <5>1. Len(s2c') = Len(s2c) - 1 /\ \A i \in 1..Len(s2c') : s2c'[i] = s2c[i + 1]
          BY <3>1 DEF Receives, TypeOK
        <5> QED BY <1>4, <4>1, <5>1 DEF GetResult, Sequel, Trusted, Over, TypeOK
      <4> QED BY <1>4, <4>1, <4>2, <4>3 DEF GetResult, InStep, ServerFsm, AtHello, Asks
    <3>2. CASE Receives("refused")
      <4>1. c2s = <<>> /\ Over  BY <1>4, <3>2 DEF GetResult, Receives, InStep, AtResult
      <4>2. pc' = "greet"  BY <1>4, <3>2 DEF GetResult, Receives
      <4> QED BY <1>4, <4>1, <4>2 DEF GetResult, InStep, ServerFsm, AtGreet, Over
    <3> QED BY <1>4, <3>1, <3>2 DEF GetResult
  <2>3. PeerKnown'  BY <1>4 DEF GetResult, TypeOK, PeerKnown
  <2>4. mode' # "none" => ClientFsm'
    BY <1>4, ClientFires DEF GetResult, ClientFsm, Redirected, Over, Resting, InStep,
       AtResult, Sequel, Receives
  <2> QED BY <2>1, <2>2, <2>3, <2>4
<1>5. ASSUME GetHello PROVE HandshakeInv'
  <2>1. TypeOK'
    <3>1. cfsm' \in ClientStates  BY <1>5, FireTypes DEF GetHello, TypeOK
    <3>2. s2c # <<>> /\ s2c' = Tail(s2c)  BY <1>5 DEF GetHello, Receives
    <3>3. s2c' \in Seq(FromServer) /\ Len(s2c') <= WireMax
      BY <3>2, Messages DEF TypeOK
    <3> QED BY <1>5, <3>1, <3>3 DEF GetHello, TypeOK
  <2>2. InStep' /\ ServerFsm'
    BY <1>5 DEF GetHello, Receives, TypeOK, InStep, ServerFsm, AtFirst, AtResult, AtHello,
       AtPick, AtAssign, AtGreet, AtLive, Sequel, Over, Asks, Trusted
  <2>3. PeerKnown'  BY <1>5 DEF GetHello, TypeOK, PeerKnown
  <2>4. mode' # "none" => ClientFsm'
    BY <1>5, ClientFires DEF GetHello, ClientFsm, Redirected, Over, Resting, InStep,
       AtHello, AtFirst, Asks, Sequel, Receives
  <2> QED BY <2>1, <2>2, <2>3, <2>4
<1>6. ASSUME FindBroker PROVE HandshakeInv'
  <2>1. TypeOK'  BY <1>6 DEF FindBroker, TypeOK, Receives
  <2>2. InStep' /\ ServerFsm'
    BY <1>6 DEF FindBroker, Receives, TypeOK, InStep, ServerFsm, AtFirst, AtResult, AtHello,
       AtPick, AtAssign, AtGreet, AtLive, Sequel, Over, Asks, Trusted
  <2>3. PeerKnown'  BY <1>6 DEF FindBroker, TypeOK, PeerKnown
  <2>4. mode' # "none" => ClientFsm'
    BY <1>6 DEF FindBroker, ClientFsm, Redirected, Over, Resting
  <2> QED BY <2>1, <2>2, <2>3, <2>4
<1>7. ASSUME Choose PROVE HandshakeInv'
  <2>1. TypeOK'  BY <1>7, Messages DEF Choose, TypeOK, FromClient, Message, InStep, AtPick
  <2>2. InStep' /\ ServerFsm'
    BY <1>7 DEF Choose, Message, TypeOK, InStep, ServerFsm, AtFirst, AtResult, AtHello,
       AtPick, AtAssign, AtGreet, AtLive, Sequel, Over, Asks, Trusted
  <2>3. PeerKnown'  BY <1>7 DEF Choose, TypeOK, PeerKnown
  <2>4. mode' # "none" => ClientFsm'  BY <1>7 DEF Choose, ClientFsm, Redirected, Over, Resting
  <2> QED BY <2>1, <2>2, <2>3, <2>4
<1>8. ASSUME Redirect PROVE HandshakeInv'
  <2>1. TypeOK'  BY <1>8 DEF Redirect, TypeOK, ServerStates, Receives, InStep, AtAssign
  <2>2. InStep' /\ ServerFsm'
    BY <1>8 DEF Redirect, Receives, TypeOK, InStep, ServerFsm, AtFirst, AtResult, AtHello,
       AtPick, AtAssign, AtGreet, AtLive, Sequel, Over, Asks, Trusted
  <2>3. PeerKnown'  BY <1>8 DEF Redirect, TypeOK, PeerKnown
  <2>4. mode' # "none" => ClientFsm'
    <3>1. pc = "assign" /\ route = "found" /\ pc' = "dial"
      BY <1>8 DEF Redirect, InStep, AtAssign, Trusted
    <3> QED BY <1>8, <3>1 DEF Redirect, ClientFsm, Redirected, Resting
  <2> QED BY <2>1, <2>2, <2>3, <2>4
<1>9. ASSUME SendHello PROVE HandshakeInv'
  <2>1. TypeOK'  BY <1>9, Messages DEF SendHello, TypeOK, FromClient, Message
  <2>2. InStep' /\ ServerFsm'
    BY <1>9 DEF SendHello, Message, TypeOK, InStep, ServerFsm, AtFirst, AtResult, AtHello,
       AtPick, AtAssign, AtGreet, AtLive, Sequel, Over, Asks, Trusted
  <2>3. PeerKnown'  BY <1>9 DEF SendHello, TypeOK, PeerKnown
  <2>4. mode' # "none" => ClientFsm'
    BY <1>9 DEF SendHello, ClientFsm, Redirected, Over, Resting
  <2> QED BY <2>1, <2>2, <2>3, <2>4
<1>10. ASSUME Ping PROVE HandshakeInv'
  <2>1. TypeOK'  BY <1>10, Messages DEF Ping, TypeOK, FromClient, Message
  <2>2. InStep' /\ ServerFsm'
    BY <1>10 DEF Ping, Message, TypeOK, InStep, ServerFsm, AtFirst, AtResult, AtHello,
       AtPick, AtAssign, AtGreet, AtLive, Sequel, Over, Asks, Trusted
  <2>3. PeerKnown'  BY <1>10 DEF Ping, TypeOK, PeerKnown
  <2>4. mode' # "none" => ClientFsm'  BY <1>10 DEF Ping, ClientFsm, Redirected, Over, Resting
  <2> QED BY <2>1, <2>2, <2>3, <2>4
<1>11. ASSUME Drop PROVE HandshakeInv'
  <2>1. TypeOK'  BY <1>11 DEF Drop, TypeOK
  <2>2. InStep' /\ ServerFsm'  BY <1>11, Untouched DEF Drop
  <2>3. PeerKnown'  BY <1>11 DEF Drop, TypeOK, PeerKnown
  <2>4. mode' # "none" => ClientFsm'  BY <1>11 DEF Drop, ClientFsm, Redirected, Over, Resting
  <2> QED BY <2>1, <2>2, <2>3, <2>4
<1> QED BY <1>1, <1>2, <1>3, <1>4, <1>5, <1>6, <1>7, <1>8, <1>9, <1>10, <1>11

\* Messages of the session.
LEMMA ReceiveStep ==
  ASSUME HandshakeInv
  PROVE  /\ Receive => HandshakeInv'
<1> USE WireMaxAssumption, MaxFaultsAssumption
      DEF HandshakeInv, config, client, user, server, wire, Online, Running
<1>1. ASSUME Receive PROVE HandshakeInv'
  <2>1. CASE closing  BY <1>1, <2>1, Leaving DEF Receive, TypeOK
  <2>2. CASE ~closing
    <3>1. s2c # <<>> /\ s2c' = Tail(s2c) /\ pc = "live" /\ faults' = faults
      BY <1>1, <2>2 DEF Receive, HandleMessage
    <3>2. s2c' \in Seq(FromServer) /\ Len(s2c') <= WireMax
      BY <3>1, Messages DEF TypeOK
    <3>3. TypeOK'  BY <1>1, <2>2, <3>1, <3>2 DEF Receive, HandleMessage, TypeOK
    <3>4. InStep' /\ ServerFsm'
      BY <1>1, <2>2, <3>1 DEF Receive, HandleMessage, InStep, ServerFsm, AtLive, Over
    <3>5. PeerKnown'  BY <1>1, <2>2 DEF Receive, HandleMessage, PeerKnown
    <3>6. mode' # "none" => ClientFsm'
      BY <1>1, <2>2 DEF Receive, HandleMessage, ClientFsm, Redirected, Over, Resting
    <3> QED BY <3>3, <3>4, <3>5, <3>6
  <2> QED BY <2>1, <2>2
<1> QED BY <1>1

\* The server's side of an attempt, up to the hellos.
LEMMA ServerSteps ==
  ASSUME HandshakeInv
  PROVE  /\ ServerStart => HandshakeInv'
         /\ ServerVerify => HandshakeInv'
         /\ ServerTimeout => HandshakeInv'
         /\ BrokerHello => HandshakeInv'
         /\ BrokerAnswers => HandshakeInv'
         /\ ServerSetup => HandshakeInv'
         /\ ServerSetupFails => HandshakeInv'
<1> USE WireMaxAssumption, MaxFaultsAssumption
      DEF HandshakeInv, config, client, user, server, wire, Online, Running
<1>1. ASSUME ServerStart PROVE HandshakeInv'
  <2>1. TypeOK'
    <3>1. sfsm' \in ServerStates
      <4>1. Fire(ServerMoves, sfsm, "tls_ok") \in ServerStates  BY FireTypes DEF TypeOK
      <4> QED BY <1>1, <4>1, FireTypes DEF ServerStart
    <3>2. "request" \in FromServer  BY DEF FromServer
    <3>3. s2c' \in Seq(FromServer) /\ Len(s2c') <= WireMax
      BY <1>1, <3>2, Messages DEF ServerStart, Talks, TypeOK
    <3> QED BY <1>1, <3>1, <3>3 DEF ServerStart, Talks, TypeOK
  <2>2. InStep' /\ ServerFsm'
    <3>1. pc = "first" /\ s2c = <<>> /\ c2s = <<>> /\ sfsm = "bootstrapping"
      BY <1>1 DEF ServerStart, InStep, ServerFsm, AtFirst, AtResult, AtHello, AtPick,
         AtAssign, AtGreet, AtLive, Sequel, Over, Asks, Trusted, TypeOK
    <3>2. CASE mode # "none" \/ peer = "broker"
      <4>1. s2c' = <<"request">> /\ spc' = "auth" /\ sfsm' = "authenticating" /\ c2s' = <<>>
        BY <1>1, <3>1, <3>2, ServerFires DEF ServerStart, TypeOK
      <4> QED BY <1>1, <3>1, <3>2, <4>1 DEF ServerStart, InStep, ServerFsm, AtFirst, Asks
    <3>3. CASE mode = "none" /\ peer = "machine"
      <4>1. s2c' = <<>> /\ spc' = "setup" /\ sfsm' = "capability_exchange" /\ c2s' = <<>>
        BY <1>1, <3>1, <3>3, ServerFires DEF ServerStart, TypeOK
      <4>2. Sequel(0)'  BY <1>1, <3>3, <4>1 DEF ServerStart, Sequel, Trusted
      <4> QED BY <1>1, <3>1, <3>3, <4>1, <4>2 DEF ServerStart, InStep, ServerFsm, AtFirst, Asks
    <3> QED BY <3>2, <3>3 DEF TypeOK
  <2>3. PeerKnown'  BY <1>1 DEF ServerStart, TypeOK, PeerKnown
  <2>4. mode' # "none" => ClientFsm'
    BY <1>1 DEF ServerStart, ClientFsm, Redirected, Over, Resting, InStep, AtFirst,
       AtResult, AtHello
  <2> QED BY <2>1, <2>2, <2>3, <2>4
<1>2. ASSUME ServerVerify PROVE HandshakeInv'
  <2>1. TypeOK'
    <3>1. sfsm' \in ServerStates  BY <1>2, FireTypes, ZenonT(30) DEF ServerVerify, TypeOK
    <3>2. "ok" \in FromServer /\ "refused" \in FromServer  BY DEF FromServer
    <3>3. s2c' \in Seq(FromServer) /\ Len(s2c') <= WireMax
      <4>1. s2c' \in {Append(s2c, "ok"), Append(s2c, "refused")} /\ Len(s2c) < WireMax
        BY <1>2 DEF ServerVerify, Talks
      <4> QED BY <3>2, <4>1, Messages, SMTT(30) DEF TypeOK
    <3>4. c2s' \in Seq(FromClient) /\ Len(c2s') <= WireMax
      BY <1>2, Messages DEF ServerVerify, TypeOK
    <3> QED BY <1>2, <3>1, <3>3, <3>4 DEF ServerVerify, Talks, TypeOK
  <2>2. InStep' /\ ServerFsm'
    <3>1. /\ pc = "result" /\ s2c = <<>> /\ Len(c2s) = 1 /\ Asks /\ sfsm = "authenticating"
          /\ c2s[1].kind \in {"password", "token"} /\ (c2s[1].kind = "password" => Trusted)
      BY <1>2 DEF ServerVerify, InStep, ServerFsm, AtFirst, AtResult, AtHello, AtPick,
         AtAssign, AtGreet, AtLive, Sequel, Over, Asks, Trusted, TypeOK
    <3>2. c2s' = <<>>
      <4>1. c2s' = Tail(c2s) /\ Len(c2s') = 0  BY <1>2, <3>1, Messages DEF ServerVerify, TypeOK
      <4> QED BY <4>1, Messages, EmptySeq DEF TypeOK
    <3>3. CASE Accepted(Head(c2s).kind)
      <4>1. s2c' = <<"ok">> /\ spc' = "setup" /\ sfsm' = "capability_exchange"
        BY <1>2, <3>1, <3>3, ServerFires DEF ServerVerify
      <4>2. Trusted'
        <5>1. CASE Head(c2s).kind = "token"
          <6>1. TokenAccepted  BY <3>3, <5>1 DEF Accepted
          <6> QED BY <1>2, <6>1 DEF ServerVerify, TokenAccepted, Trusted
        <5>2. CASE Head(c2s).kind = "password"  BY <1>2, <3>1, <5>2 DEF ServerVerify, Trusted
        <5> QED BY <3>1, <5>1, <5>2
      <4>3. Sequel(1)'  BY <4>1, <4>2 DEF Sequel
      <4> QED BY <1>2, <3>1, <3>2, <4>1, <4>3 DEF ServerVerify, InStep, ServerFsm, AtResult,
                 Asks
    <3>4. CASE ~Accepted(Head(c2s).kind)
      <4>1. s2c' = <<"refused">> /\ spc' = "returned"
        BY <1>2, <3>1, <3>4 DEF ServerVerify
      <4> QED BY <1>2, <3>1, <3>2, <4>1 DEF ServerVerify, InStep, ServerFsm, AtResult, Asks,
                 Over
    <3> QED BY <3>3, <3>4
  <2>3. PeerKnown'  BY <1>2 DEF ServerVerify, TypeOK, PeerKnown
  <2>4. mode' # "none" => ClientFsm'
    BY <1>2 DEF ServerVerify, ClientFsm, Redirected, Over, Resting, InStep, AtFirst,
       AtResult, AtHello
  <2> QED BY <2>1, <2>2, <2>3, <2>4
<1>3. ASSUME ServerTimeout PROVE HandshakeInv'
  <2>1. TypeOK'  BY <1>3 DEF ServerTimeout, Talks, TypeOK
  <2>2. InStep' /\ ServerFsm'
    BY <1>3 DEF ServerTimeout, TypeOK, InStep, ServerFsm, AtFirst, AtResult, AtHello,
       AtPick, AtAssign, AtGreet, AtLive, Sequel, Over, Asks, Trusted
  <2>3. PeerKnown'  BY <1>3 DEF ServerTimeout, TypeOK, PeerKnown
  <2>4. mode' # "none" => ClientFsm'
    BY <1>3 DEF ServerTimeout, ClientFsm, Redirected, Over, Resting, InStep, AtFirst,
       AtResult, AtHello
  <2> QED BY <2>1, <2>2, <2>3, <2>4
<1>4. ASSUME BrokerHello PROVE HandshakeInv'
  <2>1. TypeOK'  BY <1>4, Messages DEF BrokerHello, Talks, TypeOK, FromServer
  <2>2. InStep' /\ ServerFsm'
    BY <1>4, ServerFires DEF BrokerHello, Talks, TypeOK, InStep, ServerFsm, AtFirst,
       AtResult, AtHello, AtPick, AtAssign, AtGreet, AtLive, Sequel, Over, Asks, Trusted
  <2>3. PeerKnown'  BY <1>4 DEF BrokerHello, TypeOK, PeerKnown
  <2>4. mode' # "none" => ClientFsm'
    BY <1>4 DEF BrokerHello, ClientFsm, Redirected, Over, Resting, InStep, AtFirst,
       AtResult, AtHello
  <2> QED BY <2>1, <2>2, <2>3, <2>4
<1>5. ASSUME BrokerAnswers PROVE HandshakeInv'
  <2>1. TypeOK'
    <3>1. "assigned" \in FromServer /\ "unassigned" \in FromServer  BY DEF FromServer
    <3>2. s2c' \in Seq(FromServer) /\ Len(s2c') <= WireMax
      <4>1. s2c' \in {Append(s2c, "assigned"), Append(s2c, "unassigned")} /\ Len(s2c) < WireMax
        BY <1>5 DEF BrokerAnswers, Talks
      <4>2. s2c \in Seq(FromServer)  BY DEF TypeOK
      <4>3. \A m \in FromServer : Append(s2c, m) \in Seq(FromServer)
                                /\ Len(Append(s2c, m)) = Len(s2c) + 1
        BY <4>2, Messages
      <4>4. Len(s2c') = Len(s2c) + 1 /\ s2c' \in Seq(FromServer)  BY <3>1, <4>1, <4>3
      <4> HIDE DEF HandshakeInv
      <4> QED BY <4>1, <4>2, <4>4
    <3>3. c2s' \in Seq(FromClient) /\ Len(c2s') <= WireMax
      BY <1>5, Messages DEF BrokerAnswers, TypeOK
    <3> QED BY <1>5, <3>2, <3>3 DEF BrokerAnswers, Talks, TypeOK
  <2>2. InStep' /\ ServerFsm'
    BY <1>5, ServerFires DEF BrokerAnswers, Talks, TypeOK, InStep, ServerFsm, AtFirst,
       AtResult, AtHello, AtPick, AtAssign, AtGreet, AtLive, Sequel, Over, Asks, Trusted
  <2>3. PeerKnown'  BY <1>5 DEF BrokerAnswers, TypeOK, PeerKnown
  <2>4. mode' # "none" => ClientFsm'
    BY <1>5 DEF BrokerAnswers, ClientFsm, Redirected, Over, Resting, InStep, AtFirst,
       AtResult, AtHello
  <2> QED BY <2>1, <2>2, <2>3, <2>4
<1>6. ASSUME ServerSetup PROVE HandshakeInv'
  <2>1. TypeOK'  BY <1>6, Messages DEF ServerSetup, Talks, TypeOK, FromServer
  <2>2. InStep' /\ ServerFsm'
    BY <1>6, ServerFires DEF ServerSetup, Talks, TypeOK, InStep, ServerFsm, AtFirst,
       AtResult, AtHello, AtPick, AtAssign, AtGreet, AtLive, Sequel, Over, Asks, Trusted
  <2>3. PeerKnown'  BY <1>6 DEF ServerSetup, TypeOK, PeerKnown
  <2>4. mode' # "none" => ClientFsm'
    BY <1>6 DEF ServerSetup, ClientFsm, Redirected, Over, Resting, InStep, AtFirst,
       AtResult, AtHello
  <2> QED BY <2>1, <2>2, <2>3, <2>4
<1>7. ASSUME ServerSetupFails PROVE HandshakeInv'
  <2>1. TypeOK'  BY <1>7, Messages DEF ServerSetupFails, Talks, TypeOK, FromServer
  <2>2. InStep' /\ ServerFsm'
    <3>1. CASE UNCHANGED s2c
      BY <1>7, <3>1 DEF ServerSetupFails, InStep, ServerFsm, AtFirst, AtResult, AtHello,
         AtPick, AtAssign, AtGreet, AtLive, Sequel, Over, Asks, Trusted, TypeOK
    <3>2. CASE mode = "pam" /\ s2c' = Append(s2c, "refused")
      <4>1. \/ pc = "result" /\ s2c[1] = "ok" /\ Len(s2c) = 1
            \/ pc = "hello" /\ Len(s2c) = 0
        BY <1>7, <3>2 DEF ServerSetupFails, InStep, ServerFsm, AtFirst, AtResult, AtHello,
           AtPick, AtAssign, AtGreet, AtLive, Sequel, Over, Asks, Trusted, TypeOK
      <4>2. /\ Len(s2c') = Len(s2c) + 1 /\ s2c'[Len(s2c) + 1] = "refused"
            /\ \A i \in 1..Len(s2c) : s2c'[i] = s2c[i]
        BY <3>2 DEF TypeOK
      <4> QED BY <1>7, <3>2, <4>1, <4>2 DEF ServerSetupFails, InStep, ServerFsm, AtFirst,
                 AtResult, AtHello, AtPick, AtAssign, AtGreet, AtLive, Sequel, Over, Asks,
                 Trusted, TypeOK
    <3> QED BY <1>7, <3>1, <3>2 DEF ServerSetupFails
  <2>3. PeerKnown'  BY <1>7 DEF ServerSetupFails, TypeOK, PeerKnown
  <2>4. mode' # "none" => ClientFsm'
    BY <1>7 DEF ServerSetupFails, ClientFsm, Redirected, Over, Resting, InStep, AtFirst,
       AtResult, AtHello
  <2> QED BY <2>1, <2>2, <2>3, <2>4
<1> QED BY <1>1, <1>2, <1>3, <1>4, <1>5, <1>6, <1>7

\* The server's side of a session.
LEMMA ServingSteps ==
  ASSUME HandshakeInv
  PROVE  /\ ServerHandle => HandshakeInv'
         /\ ServerPush => HandshakeInv'
         /\ ServerStops => HandshakeInv'
         /\ ServerExit => HandshakeInv'
<1> USE WireMaxAssumption, MaxFaultsAssumption
      DEF HandshakeInv, config, client, user, server, wire, Online, Running
<1>1. ASSUME ServerHandle PROVE HandshakeInv'
  <2>1. TypeOK'
    <3>1. sfsm' \in ServerStates  BY <1>1, FireTypes DEF ServerHandle, TypeOK
    <3>2. c2s' \in Seq(FromClient) /\ Len(c2s') <= WireMax
      BY <1>1, Messages DEF ServerHandle, TypeOK
    <3> QED BY <1>1, <3>1, <3>2 DEF ServerHandle, TypeOK
  <2>2. InStep' /\ ServerFsm'
    BY <1>1, ServerFires DEF ServerHandle, Talks, TypeOK, InStep, ServerFsm, AtFirst,
       AtResult, AtHello, AtPick, AtAssign, AtGreet, AtLive, Sequel, Over, Asks, Trusted
  <2>3. PeerKnown'  BY <1>1 DEF ServerHandle, TypeOK, PeerKnown
  <2>4. mode' # "none" => ClientFsm'
    BY <1>1 DEF ServerHandle, ClientFsm, Redirected, Over, Resting, InStep, AtFirst,
       AtResult, AtHello
  <2> QED BY <2>1, <2>2, <2>3, <2>4
<1>2. ASSUME ServerPush PROVE HandshakeInv'
  <2>1. TypeOK'  BY <1>2, Messages DEF ServerPush, Talks, TypeOK, FromServer
  <2>2. InStep' /\ ServerFsm'
    BY <1>2, ServerFires DEF ServerPush, Talks, TypeOK, InStep, ServerFsm, AtFirst,
       AtResult, AtHello, AtPick, AtAssign, AtGreet, AtLive, Sequel, Over, Asks, Trusted
  <2>3. PeerKnown'  BY <1>2 DEF ServerPush, TypeOK, PeerKnown
  <2>4. mode' # "none" => ClientFsm'
    BY <1>2 DEF ServerPush, ClientFsm, Redirected, Over, Resting, InStep, AtFirst, AtResult,
       AtHello
  <2> QED BY <2>1, <2>2, <2>3, <2>4
<1>3. ASSUME ServerStops PROVE HandshakeInv'
  <2>1. TypeOK'  BY <1>3 DEF ServerStops, Talks, TypeOK
  <2>2. InStep' /\ ServerFsm'
    BY <1>3 DEF ServerStops, TypeOK, InStep, ServerFsm, AtFirst, AtResult, AtHello, AtPick,
       AtAssign, AtGreet, AtLive, Sequel, Over, Asks, Trusted
  <2>3. PeerKnown'  BY <1>3 DEF ServerStops, TypeOK, PeerKnown
  <2>4. mode' # "none" => ClientFsm'
    BY <1>3 DEF ServerStops, ClientFsm, Redirected, Over, Resting, InStep, AtFirst,
       AtResult, AtHello
  <2> QED BY <2>1, <2>2, <2>3, <2>4
<1>4. ASSUME ServerExit PROVE HandshakeInv'
  <2>1. TypeOK'  BY <1>4, FireTypes DEF ServerExit, Talks, TypeOK
  <2>2. InStep' /\ ServerFsm'
    BY <1>4, ServerFires DEF ServerExit, Talks, TypeOK, InStep, ServerFsm, AtFirst,
       AtResult, AtHello, AtPick, AtAssign, AtGreet, AtLive, Sequel, Over, Asks, Trusted
  <2>3. PeerKnown'  BY <1>4 DEF ServerExit, TypeOK, PeerKnown
  <2>4. mode' # "none" => ClientFsm'
    BY <1>4 DEF ServerExit, ClientFsm, Redirected, Over, Resting, InStep, AtFirst, AtResult,
       AtHello
  <2> QED BY <2>1, <2>2, <2>3, <2>4
<1> QED BY <1>1, <1>2, <1>3, <1>4

-----------------------------------------------------------------------------
\* It holds at first.
LEMMA HandshakeInit == Init => HandshakeInv
<1> SUFFICES ASSUME Init PROVE HandshakeInv
  OBVIOUS
<1>1. s2c \in Seq(FromServer) /\ c2s \in Seq(FromClient) /\ Len(s2c) = 0 /\ Len(c2s) = 0
  BY EmptySeq DEF Init
<1>2. TypeOK
  <2>1. /\ {good, member} \subseteq BOOLEAN
        /\ {connected, closing, auto, stop, brokered} \subseteq BOOLEAN
    BY DEF Init
  <2>2. mode \in AuthModes /\ route \in Routes /\ faults \in 0..MaxFaults
    BY MaxFaultsAssumption DEF Init
  <2>3. pc = "off" /\ link = "none" /\ cfsm \in ClientStates /\ sfsm \in ServerStates
    BY DEF Init, ClientStates, ServerStates
  <2>4. token = "none" /\ peer = "machine" /\ spc = "none"  BY DEF Init
  <2> QED BY <1>1, <2>1, <2>2, <2>3, <2>4, WireMaxAssumption DEF TypeOK, Online
<1>3. InStep /\ ServerFsm /\ PeerKnown  BY DEF Init, InStep, ServerFsm, PeerKnown, Online
<1>4. ClientFsm  BY DEF Init, ClientFsm, Resting
<1> QED BY <1>2, <1>3, <1>4 DEF HandshakeInv

\* No step ends it.
LEMMA HandshakeStep == HandshakeInv /\ [Next]_vars => HandshakeInv'
<1> SUFFICES ASSUME HandshakeInv, [Next]_vars PROVE HandshakeInv'
  OBVIOUS
<1>1. CASE Next
  BY <1>1, GuiSteps, LoopSteps, Endings, Attempts, ReceiveStep, ServerSteps, ServingSteps
     DEF Next
<1>2. CASE UNCHANGED vars
  <2>1. InStep' /\ ServerFsm'
    BY <1>2, Untouched DEF HandshakeInv, vars, config, client, user, server, wire
  <2>2. TypeOK' /\ PeerKnown' /\ (mode' # "none" => ClientFsm')
    BY <1>2 DEF HandshakeInv, TypeOK, PeerKnown, ClientFsm, Redirected, Over, vars, config,
       client, user, server, wire
  <2> QED BY <2>1, <2>2 DEF HandshakeInv
<1> QED BY <1>1, <1>2

\* So it holds always.
LEMMA HandshakeAlways == Spec => []HandshakeInv
BY HandshakeInit, HandshakeStep, PTL DEF Spec

(* Every variable keeps its type, and no more messages are under way than the
   bound says, whatever fails at either end. *)
THEOREM TypeCorrect == Spec => []TypeOK
BY HandshakeAlways, PTL DEF HandshakeInv

\* A ping that is handled was sent in the session it is handled in: both ends
\* stream, and the client has not changed its state since.
LEMMA ReportedPair ==
  ASSUME HandshakeInv, mode # "none", spc = "serving", c2s # <<>>, Head(c2s).kind = "ping"
  PROVE  <<Head(c2s).state, sfsm>> \in AllowedPairs
<1>1. pc = "live" /\ AtLive
  BY DEF HandshakeInv, TypeOK, InStep, AtFirst, AtResult, AtHello, AtPick, AtAssign,
         AtGreet, AtLive, Sequel, Over, Online
<1>2. Head(c2s) = c2s[1] /\ 1 \in 1..Len(c2s)  BY DEF HandshakeInv, TypeOK
<1>3. sfsm = "streaming" /\ c2s[1].state = cfsm  BY <1>1, <1>2 DEF AtLive
<1>4. cfsm = "streaming"  BY <1>1 DEF HandshakeInv, ClientFsm, Over
<1> QED BY <1>2, <1>3, <1>4 DEF AllowedPairs

(* Against a server that asks who is there, the client's state machine says where
   its attempt is, though every transition that is not allowed is swallowed
   (fsm.send in ClientProtocol), and every pair of states the server sees in a
   ping is one check_state_pair allows; after any losses and attempts. *)
THEOREM FsmAlwaysTracks == Spec => []FsmTracksHandshake
<1>1. ASSUME HandshakeInv PROVE FsmTracksHandshake
  <2> SUFFICES ASSUME mode # "none" PROVE FsmTracksHandshake
    BY DEF FsmTracksHandshake
  <2>1. ClientFsm /\ TypeOK /\ InStep  BY <1>1 DEF HandshakeInv
  <2>2. pc = "tcp" => cfsm = "handshaking" \/ Redirected  BY <2>1 DEF ClientFsm
  <2>3. pc \in {"first", "result"} => cfsm = "authenticating" \/ Redirected
    BY <2>1 DEF ClientFsm
  <2>4. pc \in {"hello", "pick", "assign"} => cfsm = "capability_exchange"
    BY <2>1 DEF ClientFsm
  <2>5. cfsm = "streaming" => spc \in {"serving", "returned", "done"} \/ pc = "lost"
    BY <2>1 DEF ClientFsm, Redirected, TypeOK, Online, Running, Resting, InStep, AtGreet,
       AtLive, Over
  <2>6. spc = "serving" /\ c2s # <<>> /\ Head(c2s).kind = "ping"
          => <<Head(c2s).state, sfsm>> \in AllowedPairs
    BY <1>1, ReportedPair
  <2> QED BY <2>2, <2>3, <2>4, <2>5, <2>6 DEF FsmTracksHandshake, Redirected
<1> QED BY <1>1, HandshakeAlways, PTL
-----------------------------------------------------------------------------
(* UdpMedia                                                                *)

(* A frame has as many fragments as it says. *)
LEMMA FragmentsCounted ==
  ASSUME NEW n, NEW f \in Kinds
  PROVE  IsFiniteSet(Fragments(n, f)) /\ Cardinality(Fragments(n, f)) = f.frags
<1> DEFINE g == [i \in 1..f.frags |-> <<n, i>>]
<1>1. f.frags \in Nat /\ f.frags >= 1  BY BoundsAssumption DEF Kinds
<1>2. g \in Bijection(1..f.frags, Fragments(n, f))
  BY DEF Bijection, Injection, Surjection, IsInjective, Fragments
<1>3. ExistsBijection(1..f.frags, Fragments(n, f))  BY <1>2 DEF ExistsBijection
<1>4. IsFiniteSet(1..f.frags) /\ Cardinality(1..f.frags) = f.frags
  BY <1>1, FS_Interval
<1> QED BY <1>3, <1>4, FS_Bijection

(* What a step does to the media: nothing, or one of these. *)
LEMMA MediaSteps ==
  ASSUME UdpTypeOK, [UdpNext]_udpVars
  PROVE  \/ UNCHANGED <<sent, net, reception, playback>>
         \/ /\ \E f \in Kinds : Transmit(f)
            /\ Len(sent) < MaxFrames /\ UNCHANGED <<reception, playback>>
         \/ \E d \in net : Deliver(d)
         \/ \E c \in Conns, n \in 1..Len(sent) : GiveUp(c, n)
         \/ \E b \in Conns : Play(b)
<1> DEFINE Quiet == UNCHANGED <<sent, net, reception, playback>>
           Sends == /\ \E f \in Kinds : Transmit(f)
                    /\ Len(sent) < MaxFrames /\ UNCHANGED <<reception, playback>>
<1>1. CASE NegotiateUdp  BY <1>1 DEF NegotiateUdp
<1>2. ASSUME NEW c \in Conns,
             CheckProbe(c) \/ HandleAnnounce(c) \/ HandleConfirm(c) \/ ProbeTimeout(c) \/ Remove(c)
      PROVE  Quiet
  BY <1>2 DEF CheckProbe, HandleAnnounce, HandleConfirm, ProbeTimeout, Remove
<1>3. ASSUME NEW c \in Conns, SendProbe(c) PROVE Quiet \/ Sends
  <2>1. Probe \in Kinds  BY BoundsAssumption DEF Probe, Kinds, Channels
  <2>2. CASE registered = {} \/ Len(sent) = MaxFrames
    BY <1>3, <2>2 DEF SendProbe
  <2>3. CASE ~(registered = {} \/ Len(sent) = MaxFrames)
    <3>1. Len(sent) < MaxFrames  BY <2>3, BoundsAssumption DEF UdpTypeOK
    <3> QED BY <1>3, <2>1, <2>3, <3>1 DEF SendProbe
  <2> QED BY <2>2, <2>3
<1>4. ASSUME NEW f \in Media, Send(f) PROVE Sends
  <2>1. f \in Kinds  BY MediaAssumption
  <2> QED BY <1>4, <2>1 DEF Send
<1>5. CASE UNCHANGED udpVars  BY <1>5 DEF udpVars
<1> QED BY <1>1, <1>2, <1>3, <1>4, <1>5 DEF UdpNext


\* A fragment of a frame that has been sent.
Made(p) == p[1] \in 1..Len(sent) /\ p \in Fragments(p[1], Of(p[1]))

\* What is under way and what is kept comes from frames that were sent.
Provenance ==
  /\ \A d \in net : Made(d.frag)
  /\ \A c \in Conns : \A p \in held[c] : Made(p) /\ p \in arrived[c]

\* What is shown is not newer than what waits to be shown, and that is not
\* newer than what its receiver completed last.
Orderly ==
  /\ \A b \in Conns, n \in Frames, c \in Conns :
       buffer[b][<<n, c>>] > 0 =>
         /\ n <= Len(sent)
         /\ shown[b][c][Of(n).channel] <= n /\ n <= last[c][Of(n).channel]
  /\ \A t \in Conns, c \in Conns, ch \in Channels : shown[t][c][ch] <= last[c][ch]

\* A datagram is skipped, kept, or the last of its frame.
Kept(c, p) ==
  /\ held' = [held EXCEPT ![c] = @ \cup {p}]
  /\ UNCHANGED <<last, probed, buffer>>
Completed(c, p) ==
  /\ HeldFor(c, p[1]) \cup {p} = Fragments(p[1], Of(p[1]))
  /\ p[1] >= last[c][Of(p[1]).channel]
  /\ held' = [held EXCEPT ![c] = @ \ (HeldFor(c, p[1]) \cup Older(c, p[1]))]
  /\ last' = [last EXCEPT ![c][Of(p[1]).channel] = p[1]]
  /\ \/ probed' = probed \cup {c} /\ UNCHANGED buffer
     \/ Push(c, p[1]) /\ UNCHANGED probed

(* A frame is complete when all its own fragments are there, since those kept
   are of frames that were sent. *)
LEMMA Fed ==
  ASSUME UdpTypeOK, Provenance, NEW d \in net, Deliver(d)
  PROVE  /\ d.to \in Conns /\ d.frag[1] \in Frames /\ Of(d.frag[1]) \in Kinds
         /\ d.frag \in Fragment
         /\ d.frag[1] \in 1..Len(sent) /\ Made(d.frag)
         /\ \/ UNCHANGED <<held, last, probed, buffer>>
            \/ Kept(d.to, d.frag)
            \/ Completed(d.to, d.frag)
<1> DEFINE c == d.to
           p == d.frag
           n == p[1]
<1>1. c \in Conns /\ p \in Fragment  BY DEF UdpTypeOK, Datagram
<1>2. Made(p)  BY DEF Provenance
<1>3. n \in 1..Len(sent)  BY <1>2 DEF Made
<1>4. Of(n) \in Kinds  BY <1>3 DEF UdpTypeOK, Of
<1>5. n \in Frames  BY <1>1 DEF Fragment
<1>6. HeldFor(c, n) \cup {p} \subseteq Fragments(n, Of(n))
  BY <1>1, <1>2 DEF HeldFor, Provenance, Made
<1>7. Cardinality(HeldFor(c, n) \cup {p}) = Of(n).frags =>
        HeldFor(c, n) \cup {p} = Fragments(n, Of(n))
  BY <1>4, <1>6, FragmentsCounted, FS_Subset
<1>8. ~Skips(c, n) => n >= last[c][Of(n).channel]
  <2>1. Of(n).channel \in Channels  BY <1>4 DEF Kinds
  <2>2. last[c][Of(n).channel] \in Nat  BY <1>1, <2>1, BoundsAssumption DEF UdpTypeOK
  <2> QED BY <1>5, <2>2 DEF Skips, Frames
<1>9. Feed(c, p)  BY DEF Deliver
<1> HIDE DEF c, p, n
<1>10. \/ UNCHANGED <<held, last, probed, buffer>>
       \/ Kept(c, p)
       \/ Completed(c, p)
  BY <1>7, <1>8, <1>9 DEF Feed, Kept, Completed, n
<1> QED BY <1>1, <1>2, <1>3, <1>4, <1>5, <1>10 DEF c, p, n

(* What follows from a frame being sent: frames keep their numbers. *)
LEMMA Sent ==
  ASSUME UdpTypeOK, NEW f \in Kinds, Transmit(f), Len(sent) < MaxFrames
  PROVE  /\ sent' \in Seq(Kinds) /\ Len(sent') = Len(sent) + 1
         /\ \A n \in 1..Len(sent) : sent'[n] = sent[n]
         /\ \A p : Made(p) => Made(p)'
         /\ \A d \in net' : d \in net \/ (d.to \in Conns /\ Made(d.frag)' /\ d.frag \in Fragment)
<1>1. sent \in Seq(Kinds) /\ sent' = Append(sent, f)  BY DEF UdpTypeOK, Transmit
<1>2. /\ sent' \in Seq(Kinds) /\ Len(sent') = Len(sent) + 1
      /\ \A n \in 1..Len(sent) : sent'[n] = sent[n]
      /\ sent'[Len(sent) + 1] = f
  BY <1>1
<1>3. \A p : Made(p) => Made(p)'
  BY <1>1, <1>2 DEF Made, Of, Fragments
<1>4. ASSUME NEW d \in net', d \notin net
      PROVE  d.to \in Conns /\ Made(d.frag)' /\ d.frag \in Fragment
  <2>1. d \in [to : registered, frag : Fragments(Len(sent) + 1, f)]  BY <1>4 DEF Transmit
  <2>2. d.to \in Conns  BY <2>1 DEF UdpTypeOK
  <2>3. PICK i \in 1..f.frags : d.frag = <<Len(sent) + 1, i>>  BY <2>1 DEF Fragments
  <2>4. Len(sent) \in Nat /\ Len(sent) + 1 \in Frames  BY <1>1, BoundsAssumption DEF Frames
  <2>5. d.frag[1] \in 1..Len(sent') /\ d.frag \in Fragments(d.frag[1], f)
    BY <1>2, <2>3, <2>4 DEF Fragments
  <2>6. sent'[d.frag[1]] = f  BY <1>2, <2>3
  <2>7. f.frags \in 1..MaxFrags  BY DEF Kinds
  <2> QED BY <2>2, <2>3, <2>4, <2>5, <2>6, <2>7, BoundsAssumption DEF Made, Of, Fragment
<1> QED BY <1>2, <1>3, <1>4


(* The negotiation's variables. *)
NegotiationOK ==
  /\ conn \in 0..MaxConns
  /\ phase \in [Conns -> {"none", "announced", "udp", "tcp"}]
  /\ announce \subseteq Conns /\ confirm \subseteq Conns
  /\ alive \subseteq Conns /\ registered \subseteq alive
  /\ toProbe \in [Conns -> 0..Probes]
  /\ timer \subseteq Conns /\ confirmed \subseteq Conns /\ late \subseteq Conns

LEMMA NegotiationStep ==
  ASSUME NegotiationOK, [UdpNext]_udpVars
  PROVE  NegotiationOK'
<1> USE DEF NegotiationOK
<1>1. CASE NegotiateUdp
  <2>1. conn' \in 1..MaxConns  BY <1>1, BoundsAssumption DEF NegotiateUdp
  <2>2. conn' \in Conns  BY <2>1 DEF Conns
  <2> QED BY <1>1, <2>1, <2>2 DEF NegotiateUdp
<1>2. ASSUME NEW c \in Conns, CheckProbe(c) PROVE NegotiationOK'
  BY <1>2 DEF CheckProbe
<1>3. ASSUME NEW c \in Conns, HandleAnnounce(c) PROVE NegotiationOK'
  BY <1>3, ProbesAssumption DEF HandleAnnounce
<1>4. ASSUME NEW c \in Conns, HandleConfirm(c) PROVE NegotiationOK'
  BY <1>4 DEF HandleConfirm
<1>5. ASSUME NEW c \in Conns, ProbeTimeout(c) PROVE NegotiationOK'
  BY <1>5 DEF ProbeTimeout
<1>6. ASSUME NEW c \in Conns, Remove(c) PROVE NegotiationOK'
  BY <1>6, ProbesAssumption DEF Remove
<1>7. ASSUME NEW c \in Conns, SendProbe(c) PROVE NegotiationOK'
  BY <1>7, ProbesAssumption DEF SendProbe
<1>8. ASSUME NEW f \in Media, Send(f) PROVE NegotiationOK'
  BY <1>8 DEF Send, negotiation
<1>9. ASSUME NEW d \in net, Deliver(d) PROVE NegotiationOK'
  BY <1>9 DEF Deliver, negotiation
<1>10. ASSUME NEW c \in Conns, NEW n \in 1..Len(sent), GiveUp(c, n) PROVE NegotiationOK'
  BY <1>10 DEF GiveUp, negotiation
<1>11. ASSUME NEW b \in Conns, Play(b) PROVE NegotiationOK'
  BY <1>11 DEF Play, negotiation
<1>12. CASE UNCHANGED udpVars  BY <1>12 DEF udpVars, negotiation
<1> QED BY <1>1, <1>2, <1>3, <1>4, <1>5, <1>6, <1>7, <1>8, <1>9, <1>10, <1>11, <1>12 DEF UdpNext

(* The variables of the media, except the bound on repeated datagrams. *)
MediaOK ==
  /\ probed \subseteq Conns
  /\ sent \in Seq(Kinds) /\ Len(sent) <= MaxFrames
  /\ net \subseteq Datagram
  /\ held \in [Conns -> SUBSET Fragment] /\ arrived \in [Conns -> SUBSET Fragment]
  /\ last \in [Conns -> [Channels -> 0..MaxFrames]]
  /\ buffer \in [Conns -> [Frames \X Conns -> Nat]]
  /\ shown \in [Conns -> [Conns -> [Channels -> 0..MaxFrames]]]

LEMMA MediaStep ==
  ASSUME UdpTypeOK, Provenance, Orderly, [UdpNext]_udpVars
  PROVE  MediaOK'
<1> USE DEF MediaOK
<1>0. MediaOK  BY DEF UdpTypeOK
<1>1. CASE UNCHANGED <<sent, net, reception, playback>>
  BY <1>0, <1>1 DEF reception, playback
<1>2. ASSUME NEW f \in Kinds, Transmit(f), Len(sent) < MaxFrames,
             UNCHANGED <<reception, playback>>
      PROVE  MediaOK'
  <2>1. sent' \in Seq(Kinds) /\ Len(sent') <= MaxFrames
    BY <1>0, <1>2, Sent, BoundsAssumption
  <2>2. net' \subseteq Datagram
    <3>1. ASSUME NEW d \in net', d \notin net PROVE d \in Datagram
      <4>1. d.to \in Conns /\ d.frag \in Fragment  BY <1>2, <3>1, Sent
      <4>2. d \in [to : registered, frag : Fragments(Len(sent) + 1, f)]
        BY <1>2, <3>1 DEF Transmit
      <4> QED BY <4>1, <4>2 DEF Datagram
    <3> QED BY <1>0, <3>1
  <2> QED BY <1>0, <1>2, <2>1, <2>2 DEF reception, playback
<1>3. ASSUME NEW d \in net, Deliver(d) PROVE MediaOK'
  <2> DEFINE c == d.to
             p == d.frag
             n == p[1]
  <2>1. c \in Conns /\ n \in Frames /\ Of(n).channel \in Channels /\ p \in Fragment
    BY <1>3, Fed DEF Kinds
  <2>2. /\ sent' = sent /\ net' \subseteq net /\ shown' = shown
        /\ arrived' = [arrived EXCEPT ![c] = @ \cup {p}]
    BY <1>3 DEF Deliver
  <2>3. UNCHANGED <<held, last, probed, buffer>> \/ Kept(c, p) \/ Completed(c, p)
    BY <1>3, Fed
  <2> HIDE DEF c, p, n
  <2>4. n \in 0..MaxFrames  BY <2>1 DEF Frames
  <2>5. CASE UNCHANGED <<held, last, probed, buffer>>
    BY <1>0, <2>1, <2>2, <2>5
  <2>6. CASE Kept(c, p)  BY <1>0, <2>1, <2>2, <2>6 DEF Kept
  <2>7. CASE Completed(c, p)
    <3>1. held' \in [Conns -> SUBSET Fragment]  BY <1>0, <2>7 DEF Completed
    <3>2. last' \in [Conns -> [Channels -> 0..MaxFrames]]
      BY <1>0, <2>1, <2>4, <2>7 DEF Completed, n
    <3>3. probed' \subseteq Conns  BY <1>0, <2>1, <2>7 DEF Completed
    <3>4. buffer' \in [Conns -> [Frames \X Conns -> Nat]]
      <4>1. CASE buffer' = buffer  BY <1>0, <4>1
      <4>2. CASE Push(c, n)
        <5> DEFINE new == [e \in Frames \X Conns |->
                     (IF Of(n).key THEN 0 ELSE buffer[conn][e]) + (IF e = <<n, c>> THEN 1 ELSE 0)]
        <5>1. buffer' = [buffer EXCEPT ![conn] = new]  BY <4>2 DEF Push
        <5>2. CASE conn \in Conns
          <6>1. \A e \in Frames \X Conns : buffer[conn][e] \in Nat  BY <1>0, <5>2
          <6>2. new \in [Frames \X Conns -> Nat]  BY <6>1
          <6> HIDE DEF new
          <6> QED BY <1>0, <5>1, <6>2
        <5>3. CASE conn \notin Conns
          <6> HIDE DEF new
          <6> QED BY <1>0, <5>1, <5>3
        <5> QED BY <5>2, <5>3
      <4> QED BY <2>7, <4>1, <4>2 DEF Completed, n
    <3> QED BY <1>0, <2>1, <2>2, <3>1, <3>2, <3>3, <3>4
  <2> QED BY <2>3, <2>5, <2>6, <2>7
<1>4. ASSUME NEW c \in Conns, NEW n \in 1..Len(sent), GiveUp(c, n) PROVE MediaOK'
  BY <1>0, <1>4 DEF GiveUp, playback
<1>5. ASSUME NEW b \in Conns, Play(b) PROVE MediaOK'
  <2>1. PICK e \in Frames \X Conns : \E upTo \in 0..MaxFrames :
          /\ First(b, e)
          /\ shown' = [shown EXCEPT ![b][e[2]][Of(e[1]).channel] = e[1]]
          /\ buffer' = [buffer EXCEPT ![b] = [x \in Frames \X Conns |->
               IF x = e THEN (IF x[1] <= upTo THEN 0 ELSE buffer[b][x] - 1)
                        ELSE IF x[1] <= upTo THEN 0 ELSE buffer[b][x]]]
    BY <1>5 DEF Play
  <2>2. PICK upTo \in 0..MaxFrames :
          buffer' = [buffer EXCEPT ![b] = [x \in Frames \X Conns |->
               IF x = e THEN (IF x[1] <= upTo THEN 0 ELSE buffer[b][x] - 1)
                        ELSE IF x[1] <= upTo THEN 0 ELSE buffer[b][x]]]
    BY <2>1
  <2> DEFINE new == [x \in Frames \X Conns |->
               IF x = e THEN (IF x[1] <= upTo THEN 0 ELSE buffer[b][x] - 1)
                        ELSE IF x[1] <= upTo THEN 0 ELSE buffer[b][x]]
  <2>3. \A x \in Frames \X Conns : buffer[b][x] \in Nat  BY <1>0
  <2>4. buffer[b][e] > 0  BY <2>1 DEF First
  <2>5. new \in [Frames \X Conns -> Nat]  BY <2>3, <2>4
  <2>6. buffer' = [buffer EXCEPT ![b] = new]  BY <2>2
  <2> HIDE DEF new
  <2>7. buffer' \in [Conns -> [Frames \X Conns -> Nat]]  BY <1>0, <2>5, <2>6
  <2>8. e[1] \in 0..MaxFrames  BY DEF Frames
  <2>9. shown' \in [Conns -> [Conns -> [Channels -> 0..MaxFrames]]]
    <3> DEFINE row == [shown[b][e[2]] EXCEPT ![Of(e[1]).channel] = e[1]]
               table == [shown[b] EXCEPT ![e[2]] = row]
    <3>1. e[2] \in Conns  OBVIOUS
    <3>2. row \in [Channels -> 0..MaxFrames]
      <4>1. shown[b][e[2]] \in [Channels -> 0..MaxFrames]  BY <1>0, <3>1
      <4>2. \A g \in [Channels -> 0..MaxFrames], v \in 0..MaxFrames :
              [g EXCEPT ![Of(e[1]).channel] = v] \in [Channels -> 0..MaxFrames]
        OBVIOUS
      <4> QED BY <2>8, <4>1, <4>2
    <3>3. table \in [Conns -> [Channels -> 0..MaxFrames]]  BY <1>0, <3>2
    <3>4. shown' = [shown EXCEPT ![b] = table]  BY <2>1
    <3> HIDE DEF table
    <3> QED BY <1>0, <3>3, <3>4
  <2> QED BY <1>0, <1>5, <2>7, <2>9 DEF Play, reception
<1> QED BY <1>1, <1>2, <1>3, <1>4, <1>5, MediaSteps

LEMMA TypeStep ==
  ASSUME UdpTypeOK, Provenance, Orderly, [UdpNext]_udpVars
  PROVE  UdpTypeOK'
<1>1. NegotiationOK'  BY NegotiationStep DEF UdpTypeOK, NegotiationOK
<1>2. MediaOK'  BY MediaStep
<1>3. dups' \in 0..MaxDups
  <2>1. ASSUME NEW d \in net, Deliver(d) PROVE dups' \in 0..MaxDups
    BY <2>1, BoundsAssumption DEF Deliver, UdpTypeOK
  <2>2. (\A d \in net : ~Deliver(d)) => dups' = dups
    BY DEF UdpNext, udpVars, NegotiateUdp, CheckProbe, HandleAnnounce, HandleConfirm, ProbeTimeout, Remove,
           SendProbe, Send, GiveUp, Play
  <2> QED BY <2>1, <2>2 DEF UdpTypeOK
<1> QED BY <1>1, <1>2, <1>3 DEF NegotiationOK, MediaOK, UdpTypeOK


(* Only what was sent gets under way, and only what arrived is kept. *)
LEMMA ProvenanceStep ==
  ASSUME UdpTypeOK, Provenance, [UdpNext]_udpVars
  PROVE  Provenance'
<1> USE DEF Provenance
<1>1. CASE UNCHANGED <<sent, net, reception, playback>>
  BY <1>1 DEF reception, Made, Of
<1>2. ASSUME NEW f \in Kinds, Transmit(f), Len(sent) < MaxFrames,
             UNCHANGED <<reception, playback>>
      PROVE  Provenance'
  BY <1>2, Sent DEF reception
<1>3. ASSUME NEW d \in net, Deliver(d) PROVE Provenance'
  <2> DEFINE c == d.to
             p == d.frag
  <2>1. /\ sent' = sent /\ net' \subseteq net
        /\ arrived' = [arrived EXCEPT ![c] = @ \cup {p}]
    BY <1>3 DEF Deliver
  <2>2. c \in Conns /\ Made(p)  BY <1>3, Fed
  <2>3. UNCHANGED <<held, last, probed, buffer>> \/ Kept(c, p) \/ Completed(c, p)
    BY <1>3, Fed
  <2>4. \A b \in Conns : held'[b] \subseteq held[b] \cup IF b = c THEN {p} ELSE {}
    <3> HIDE DEF c, p
    <3> QED BY <2>2, <2>3 DEF Kept, Completed, UdpTypeOK
  <2>5. \A b \in Conns :
          arrived[b] \subseteq arrived'[b] /\ (b = c => p \in arrived'[b])
    <3> HIDE DEF c, p
    <3> QED BY <2>1, <2>2 DEF UdpTypeOK
  <2>6. \A q : Made(q)' <=> Made(q)  BY <2>1 DEF Made, Of
  <2> HIDE DEF c, p
  <2> QED BY <2>1, <2>2, <2>4, <2>5, <2>6
<1>4. ASSUME NEW c \in Conns, NEW n \in 1..Len(sent), GiveUp(c, n) PROVE Provenance'
  BY <1>4 DEF GiveUp, Made, Of, UdpTypeOK
<1>5. ASSUME NEW b \in Conns, Play(b) PROVE Provenance'
  BY <1>5 DEF Play, reception, Made, Of
<1> QED BY <1>1, <1>2, <1>3, <1>4, <1>5, MediaSteps

\* What the playback thread took is what was oldest, and what it left was there.
Taken(b, e) ==
  /\ e \in Frames \X Conns /\ First(b, e)
  /\ shown' = [shown EXCEPT ![b][e[2]][Of(e[1]).channel] = e[1]]
  /\ \A a \in Conns : \A x \in Frames \X Conns : buffer'[a][x] > 0 => buffer[a][x] > 0

LEMMA Played ==
  ASSUME UdpTypeOK, NEW b \in Conns, Play(b)
  PROVE  \E e \in Frames \X Conns : Taken(b, e)
<1>1. PICK e \in Frames \X Conns : \E upTo \in 0..MaxFrames :
        /\ First(b, e)
        /\ shown' = [shown EXCEPT ![b][e[2]][Of(e[1]).channel] = e[1]]
        /\ buffer' = [buffer EXCEPT ![b] = [x \in Frames \X Conns |->
             IF x = e THEN (IF x[1] <= upTo THEN 0 ELSE buffer[b][x] - 1)
                      ELSE IF x[1] <= upTo THEN 0 ELSE buffer[b][x]]]
  BY DEF Play
<1>2. PICK upTo \in 0..MaxFrames :
        buffer' = [buffer EXCEPT ![b] = [x \in Frames \X Conns |->
             IF x = e THEN (IF x[1] <= upTo THEN 0 ELSE buffer[b][x] - 1)
                      ELSE IF x[1] <= upTo THEN 0 ELSE buffer[b][x]]]
  BY <1>1
<1>3. ASSUME NEW a \in Conns, NEW x \in Frames \X Conns, buffer'[a][x] > 0
      PROVE  buffer[a][x] > 0
  <2>1. buffer[a][x] \in Nat /\ buffer[b][x] \in Nat  BY SMTT(30) DEF UdpTypeOK
  <2>2. CASE a # b  BY <1>2, <1>3, <2>1, <2>2 DEF UdpTypeOK
  <2>3. CASE a = b
    <3>1. buffer'[a][x] = IF x = e THEN (IF x[1] <= upTo THEN 0 ELSE buffer[b][x] - 1)
                          ELSE IF x[1] <= upTo THEN 0 ELSE buffer[b][x]
      BY <1>2, <2>3 DEF UdpTypeOK
    <3> QED BY <1>3, <2>1, <2>3, <3>1
  <2> QED BY <2>2, <2>3
<1> QED BY <1>1, <1>3 DEF Taken

\* Where a frame is put, and where nothing is.
Pushed(c, n) ==
  \A a \in Conns, x \in Frames, b \in Conns :
    buffer'[a][<<x, b>>] > 0 => buffer[a][<<x, b>>] > 0 \/ <<x, b>> = <<n, c>>

LEMMA PushedThere ==
  ASSUME UdpTypeOK, NEW c \in Conns, NEW n \in Frames, Push(c, n)
  PROVE  Pushed(c, n)
<1> SUFFICES ASSUME NEW a \in Conns, NEW x \in Frames, NEW b \in Conns,
                    buffer'[a][<<x, b>>] > 0, <<x, b>> # <<n, c>>
             PROVE  buffer[a][<<x, b>>] > 0
  BY DEF Pushed
<1> DEFINE e == <<x, b>>
<1>1. e \in Frames \X Conns /\ buffer[a][e] \in Nat  BY DEF UdpTypeOK
<1> HIDE DEF e
<1>2. CASE a # conn  BY <1>2 DEF Push, UdpTypeOK
<1>3. CASE a = conn
  <2>1. buffer'[a][e] = (IF Of(n).key THEN 0 ELSE buffer[conn][e]) + (IF e = <<n, c>> THEN 1 ELSE 0)
    BY <1>1, <1>3 DEF Push, UdpTypeOK
  <2> QED BY <1>1, <1>3, <2>1 DEF e
<1> QED BY <1>2, <1>3

LEMMA ChannelOf ==
  ASSUME UdpTypeOK, NEW n \in Frames, n <= Len(sent)
  PROVE  Of(n).channel \in Channels
<1>1. sent \in Seq(Kinds) /\ n \in 1..Len(sent)  BY DEF UdpTypeOK, Frames
<1>2. sent[n] \in Kinds  BY <1>1
<1> QED BY <1>2 DEF Of, Kinds

(* One entry of a table of tables is set, and no other. *)
LEMMA EntrySet ==
  ASSUME NEW S, NEW f \in [Conns -> [Conns -> [Channels -> S]]], NEW n,
         NEW b \in Conns, NEW c \in Conns, NEW k \in Channels,
         NEW g, g = [f EXCEPT ![b][c][k] = n]
  PROVE  /\ g[b][c][k] = n
         /\ \A x \in Conns, y \in Conns, z \in Channels :
              x # b \/ y # c \/ z # k => g[x][y][z] = f[x][y][z]
<1> DEFINE row == [f[b][c] EXCEPT ![k] = n]
           table == [f[b] EXCEPT ![c] = row]
<1>1. f[b] \in [Conns -> [Channels -> S]] /\ f[b][c] \in [Channels -> S]  OBVIOUS
<1>2. row[k] = n /\ \A z \in Channels \ {k} : row[z] = f[b][c][z]  BY <1>1
<1>3. table[c] = row /\ \A y \in Conns \ {c} : table[y] = f[b][y]  BY <1>1
<1>4. g[b] = table /\ \A x \in Conns \ {b} : g[x] = f[x]  OBVIOUS
<1> HIDE DEF row, table
<1> QED BY <1>2, <1>3, <1>4

(* Receiver, jitter buffer and playback keep the order of each channel. *)
LEMMA OrderStep ==
  ASSUME UdpTypeOK, Provenance, Orderly, [UdpNext]_udpVars
  PROVE  /\ Orderly'
         /\ \A t \in Conns, c \in Conns, ch \in Channels :
              shown'[t][c][ch] >= shown[t][c][ch]
<1> USE DEF Orderly
<1> DEFINE Forward == \A t \in Conns, c \in Conns, ch \in Channels :
                        shown'[t][c][ch] >= shown[t][c][ch]
<1>0. /\ \A t \in Conns, c \in Conns, ch \in Channels :
           /\ shown[t][c][ch] \in 0..MaxFrames
           /\ last[c][ch] \in 0..MaxFrames /\ last'[c][ch] \in 0..MaxFrames
      /\ sent \in Seq(Kinds) /\ Len(sent) \in Nat
  <2>1. MediaOK'  BY MediaStep
  <2>2. last' \in [Conns -> [Channels -> 0..MaxFrames]]  BY <2>1 DEF MediaOK
  <2>3. /\ shown \in [Conns -> [Conns -> [Channels -> 0..MaxFrames]]]
        /\ last \in [Conns -> [Channels -> 0..MaxFrames]] /\ sent \in Seq(Kinds)
    BY DEF UdpTypeOK
  <2> QED BY <2>2, <2>3
<1>1. ASSUME UNCHANGED <<sent, reception, playback>> PROVE Orderly' /\ Forward
  BY <1>0, <1>1 DEF reception, playback, Of
<1>2. ASSUME NEW f \in Kinds, Transmit(f), Len(sent) < MaxFrames,
             UNCHANGED <<reception, playback>>
      PROVE  Orderly' /\ Forward
  <2>1. /\ Len(sent') = Len(sent) + 1
        /\ \A n \in 1..Len(sent) : Of(n)' = Of(n)
    BY <1>2, Sent DEF Of
  <2>2. ASSUME NEW b \in Conns, NEW n \in Frames, NEW c \in Conns, buffer'[b][<<n, c>>] > 0
        PROVE  /\ n <= Len(sent') /\ shown'[b][c][Of(n)'.channel] <= n
               /\ n <= last'[c][Of(n)'.channel]
    <3>1. /\ n <= Len(sent) /\ shown[b][c][Of(n).channel] <= n
          /\ n <= last[c][Of(n).channel]
      BY <1>2, <2>2 DEF playback
    <3>2. Of(n)' = Of(n)  BY <1>0, <2>1, <3>1 DEF Frames
    <3> QED BY <1>0, <1>2, <2>1, <3>1, <3>2 DEF Frames, playback, reception
  <2> QED BY <1>0, <1>2, <2>2 DEF playback, reception
<1>3. ASSUME NEW d \in net, Deliver(d) PROVE Orderly' /\ Forward
  <2> DEFINE c == d.to
             p == d.frag
             n == p[1]
             ch == Of(n).channel
  <2>1. c \in Conns /\ n \in Frames /\ ch \in Channels /\ n \in 1..Len(sent)
    BY <1>3, Fed DEF Kinds
  <2>2. sent' = sent /\ shown' = shown  BY <1>3 DEF Deliver
  <2>3. UNCHANGED <<held, last, probed, buffer>> \/ Kept(c, p) \/ Completed(c, p)
    BY <1>3, Fed
  <2>4. \A k : Of(k)' = Of(k)  BY <2>2 DEF Of
  <2> HIDE DEF c, p
  <2>5. CASE UNCHANGED <<last, buffer>>  BY <1>0, <2>2, <2>4, <2>5
  <2>6. CASE Completed(c, p)
    <3>1. last' = [last EXCEPT ![c][ch] = n] /\ n >= last[c][ch]  BY <2>6 DEF Completed
    <3>2. \A a \in Conns, k \in Channels : last'[a][k] >= last[a][k]
      BY <1>0, <2>1, <3>1, SMTT(30) DEF UdpTypeOK
    <3>3. last'[c][ch] = n  BY <2>1, <3>1 DEF UdpTypeOK
    <3>4. Pushed(c, n)
      <4>1. CASE buffer' = buffer  BY <4>1 DEF Pushed
      <4>2. CASE Push(c, n)  BY <2>1, <4>2, PushedThere
      <4> QED BY <2>6, <4>1, <4>2 DEF Completed
    <3>5. ASSUME NEW a \in Conns, NEW x \in Frames, NEW b \in Conns, buffer'[a][<<x, b>>] > 0
          PROVE  /\ x <= Len(sent') /\ shown'[a][b][Of(x)'.channel] <= x
                 /\ x <= last'[b][Of(x)'.channel]
      <4>1. CASE buffer[a][<<x, b>>] > 0
        <5>1. /\ x <= Len(sent) /\ shown[a][b][Of(x).channel] <= x
              /\ x <= last[b][Of(x).channel]
          BY <4>1
        <5>2. Of(x).channel \in Channels  BY <5>1, ChannelOf
        <5>3. last'[b][Of(x).channel] >= last[b][Of(x).channel]  BY <3>2, <5>2
        <5>4. last'[b][Of(x).channel] \in Int
          BY <1>0, <5>2
        <5> QED BY <1>0, <2>2, <2>4, <5>1, <5>2, <5>3, <5>4 DEF Frames
      <4>2. CASE x = n /\ b = c
        <5>1. shown[a][c][ch] <= last[c][ch]  BY <2>1
        <5>2. shown[a][c][ch] <= n  BY <1>0, <2>1, <3>1, <5>1 DEF Frames
        <5> QED BY <2>1, <2>2, <2>4, <3>3, <4>2, <5>2
      <4> QED BY <3>4, <3>5, <4>1, <4>2 DEF Pushed
    <3>6. \A t \in Conns, a \in Conns, k \in Channels : shown'[t][a][k] <= last'[a][k]
      <4> SUFFICES ASSUME NEW t \in Conns, NEW a \in Conns, NEW k \in Channels
                   PROVE  shown'[t][a][k] <= last'[a][k]
        OBVIOUS
      <4>1. last'[a][k] \in Int  BY <1>0
      <4> QED BY <1>0, <2>2, <3>2, <4>1
    <3> QED BY <1>0, <2>2, <3>5, <3>6
  <2> QED BY <2>3, <2>5, <2>6 DEF Kept
<1>4. ASSUME NEW c \in Conns, NEW n \in 1..Len(sent), GiveUp(c, n) PROVE Orderly' /\ Forward
  BY <1>0, <1>4 DEF GiveUp, playback, Of
<1>5. ASSUME NEW b \in Conns, Play(b) PROVE Orderly' /\ Forward
  <2>1. PICK e \in Frames \X Conns : Taken(b, e)  BY <1>5, Played
  <2> DEFINE n == e[1]
             c == e[2]
             ch == Of(n).channel
  <2>2. /\ n \in Frames /\ c \in Conns /\ e = <<n, c>> /\ buffer[b][<<n, c>>] > 0
    BY <2>1 DEF Taken, First
  <2>3. n <= Len(sent) /\ shown[b][c][ch] <= n /\ n <= last[c][ch]  BY <2>2
  <2>4. ch \in Channels  BY <2>2, <2>3, ChannelOf
  <2>5. sent' = sent /\ last' = last  BY <1>5 DEF Play, reception
  <2>6. shown' = [shown EXCEPT ![b][c][ch] = n]  BY <2>1 DEF Taken
  <2>7. \A k : Of(k)' = Of(k)  BY <2>5 DEF Of
  <2>8. /\ shown'[b][c][ch] = n
        /\ \A t \in Conns, a \in Conns, k \in Channels :
             t # b \/ a # c \/ k # ch => shown'[t][a][k] = shown[t][a][k]
    <3> HIDE DEF n, c, ch
    <3>1. shown \in [Conns -> [Conns -> [Channels -> 0..MaxFrames]]]  BY DEF UdpTypeOK
    <3> QED BY <2>2, <2>4, <2>6, <3>1, EntrySet
  <2>9. \A x \in Frames, a \in Conns : buffer[b][<<x, a>>] > 0 => n <= x
    BY <2>1 DEF Taken, First
  <2>10. \A t \in Conns, x \in Frames, a \in Conns :
           buffer'[t][<<x, a>>] > 0 => buffer[t][<<x, a>>] > 0
    BY <2>1 DEF Taken
  <2> HIDE DEF n, c, ch
  <2>11. ASSUME NEW t \in Conns, NEW x \in Frames, NEW a \in Conns, buffer'[t][<<x, a>>] > 0
         PROVE  /\ x <= Len(sent') /\ shown'[t][a][Of(x)'.channel] <= x
                /\ x <= last'[a][Of(x)'.channel]
    <3>1. /\ buffer[t][<<x, a>>] > 0 /\ x <= Len(sent)
          /\ shown[t][a][Of(x).channel] <= x /\ x <= last[a][Of(x).channel]
      BY <2>10, <2>11
    <3>2. Of(x).channel \in Channels  BY <3>1, ChannelOf
    <3>3. shown'[t][a][Of(x).channel] <= x
      <4>1. CASE t = b /\ a = c /\ Of(x).channel = ch  BY <2>8, <2>9, <3>1, <4>1
      <4>2. CASE ~(t = b /\ a = c /\ Of(x).channel = ch)  BY <2>8, <3>1, <3>2, <4>2
      <4> QED BY <4>1, <4>2
    <3> QED BY <2>5, <2>7, <3>1, <3>3
  <2>12. ASSUME NEW t \in Conns, NEW a \in Conns, NEW k \in Channels
         PROVE  shown'[t][a][k] <= last'[a][k] /\ shown'[t][a][k] >= shown[t][a][k]
    <3>1. CASE t = b /\ a = c /\ k = ch
      BY <1>0, <2>2, <2>3, <2>5, <2>8, <3>1 DEF Frames
    <3>2. CASE ~(t = b /\ a = c /\ k = ch)  BY <1>0, <2>5, <2>8, <3>2
    <3> QED BY <3>1, <3>2
  <2> QED BY <2>11, <2>12
<1> QED BY <1>1, <1>2, <1>3, <1>4, <1>5, MediaSteps


\* No receiver has completed a frame that wasn't sent.
LastSent == \A c \in Conns, ch \in Channels : last[c][ch] <= Len(sent)

LEMMA LastStep ==
  ASSUME UdpTypeOK, Provenance, LastSent, [UdpNext]_udpVars
  PROVE  LastSent'
<1> USE DEF LastSent
<1>0. /\ last \in [Conns -> [Channels -> 0..MaxFrames]]
      /\ sent \in Seq(Kinds) /\ Len(sent) \in Nat
  BY DEF UdpTypeOK
<1>1. CASE UNCHANGED <<sent, net, reception, playback>>  BY <1>1 DEF reception
<1>2. ASSUME NEW f \in Kinds, Transmit(f), Len(sent) < MaxFrames,
             UNCHANGED <<reception, playback>>
      PROVE  LastSent'
  BY <1>0, <1>2, Sent DEF reception
<1>3. ASSUME NEW d \in net, Deliver(d) PROVE LastSent'
  <2>1. sent' = sent  BY <1>3 DEF Deliver
  <2>2. CASE last' = last  BY <2>1, <2>2
  <2>3. CASE Completed(d.to, d.frag)
    <3>1. d.frag[1] \in 1..Len(sent)  BY <1>3, Fed
    <3> QED BY <1>0, <2>1, <2>3, <3>1 DEF Completed
  <2> QED BY <1>3, <2>2, <2>3, Fed DEF Kept
<1>4. ASSUME NEW c \in Conns, NEW n \in 1..Len(sent), GiveUp(c, n) PROVE LastSent'
  BY <1>4 DEF GiveUp
<1>5. ASSUME NEW b \in Conns, Play(b) PROVE LastSent'
  BY <1>5 DEF Play, reception
<1> QED BY <1>1, <1>2, <1>3, <1>4, <1>5, MediaSteps

\* A frame is whole after the step.
WholeNext(c, n) == Fragments(n, sent'[n]) \subseteq arrived'[c]

(* Once whole, a frame stays so: frames aren't changed, what arrived stays. *)
LEMMA WholeStays ==
  ASSUME UdpTypeOK, Provenance, [UdpNext]_udpVars, NEW c \in Conns, NEW n \in 1..Len(sent), Whole(c, n)
  PROVE  WholeNext(c, n)
<1> SUFFICES Of(n)' = Of(n) /\ arrived[c] \subseteq arrived'[c]
  BY DEF Whole, WholeNext, Of
<1>1. CASE UNCHANGED <<sent, net, reception, playback>>  BY <1>1 DEF reception, Of
<1>2. ASSUME NEW f \in Kinds, Transmit(f), Len(sent) < MaxFrames,
             UNCHANGED <<reception, playback>>
      PROVE  Of(n)' = Of(n) /\ arrived[c] \subseteq arrived'[c]
  BY <1>2, Sent DEF reception, Of
<1>3. ASSUME NEW d \in net, Deliver(d)
      PROVE  Of(n)' = Of(n) /\ arrived[c] \subseteq arrived'[c]
  BY <1>3 DEF Deliver, Of, UdpTypeOK
<1>4. ASSUME NEW a \in Conns, NEW m \in 1..Len(sent), GiveUp(a, m)
      PROVE  Of(n)' = Of(n) /\ arrived[c] \subseteq arrived'[c]
  BY <1>4 DEF GiveUp, Of
<1>5. ASSUME NEW b \in Conns, Play(b)
      PROVE  Of(n)' = Of(n) /\ arrived[c] \subseteq arrived'[c]
  BY <1>5 DEF Play, reception, Of
<1> QED BY <1>1, <1>2, <1>3, <1>4, <1>5, MediaSteps

LEMMA WholeStep ==
  ASSUME UdpTypeOK, Provenance, Orderly, LastSent, FramesWhole, [UdpNext]_udpVars
  PROVE  FramesWhole'
<1> DEFINE Buffered == \A b \in Conns, n \in Frames, c \in Conns :
                         buffer'[b][<<n, c>>] > 0 => WholeNext(c, n)
           Shown == \A t \in Conns, c \in Conns, ch \in Channels :
                      shown'[t][c][ch] # 0 => WholeNext(c, shown'[t][c][ch])
<1>0. FramesWhole' <=> Buffered /\ Shown  BY DEF FramesWhole, Whole, WholeNext, Of
<1> HIDE DEF Buffered, Shown
<1>1. ASSUME NEW b \in Conns, NEW n \in Frames, NEW c \in Conns, buffer[b][<<n, c>>] > 0
      PROVE  WholeNext(c, n)
  <2>1. n \in 1..Len(sent) /\ Whole(c, n)
    BY <1>1 DEF Orderly, FramesWhole, Frames, UdpTypeOK
  <2> QED BY <2>1, WholeStays
<1>2. ASSUME NEW t \in Conns, NEW c \in Conns, NEW ch \in Channels, shown[t][c][ch] # 0
      PROVE  WholeNext(c, shown[t][c][ch])
  <2> DEFINE n == shown[t][c][ch]
  <2>1. n \in 0..MaxFrames /\ last[c][ch] \in 0..MaxFrames /\ Len(sent) \in Nat
    BY DEF UdpTypeOK
  <2>2. n <= last[c][ch] /\ last[c][ch] <= Len(sent)  BY DEF Orderly, LastSent
  <2>3. n \in 1..Len(sent)  BY <1>2, <2>1, <2>2
  <2>4. Whole(c, n)  BY <1>2 DEF FramesWhole
  <2> HIDE DEF n
  <2>5. WholeNext(c, n)  BY <2>3, <2>4, WholeStays
  <2> QED BY <2>5 DEF n
<1>3. ASSUME UNCHANGED playback PROVE FramesWhole'
  BY <1>0, <1>1, <1>2, <1>3 DEF playback, Buffered, Shown
<1>4. ASSUME NEW d \in net, Deliver(d) PROVE FramesWhole'
  <2> DEFINE c == d.to
             p == d.frag
             n == p[1]
  <2>1. c \in Conns /\ n \in Frames  BY <1>4, Fed
  <2>2. shown' = shown  BY <1>4 DEF Deliver
  <2>3. CASE buffer' = buffer  BY <1>3, <2>2, <2>3 DEF playback
  <2>4. CASE Completed(c, p) /\ Push(c, n)
    <3>1. HeldFor(c, n) \cup {p} = Fragments(n, Of(n))  BY <2>4 DEF Completed
    <3>2. HeldFor(c, n) \subseteq arrived[c]  BY <2>1 DEF HeldFor, Provenance
    <3>3. arrived'[c] = arrived[c] \cup {p} /\ sent' = sent
      BY <1>4, <2>1 DEF Deliver, UdpTypeOK
    <3>4. WholeNext(c, n)  BY <3>1, <3>2, <3>3 DEF WholeNext, Of
    <3> HIDE DEF c, n
    <3>5. Pushed(c, n)  BY <2>1, <2>4, PushedThere
    <3>6. Buffered  BY <1>1, <3>4, <3>5 DEF Pushed, Buffered
    <3> QED BY <1>0, <1>2, <2>2, <3>6 DEF Shown
  <2> QED BY <1>4, <2>3, <2>4, Fed DEF Kept, Completed
<1>5. ASSUME NEW b \in Conns, Play(b) PROVE FramesWhole'
  <2>1. PICK e \in Frames \X Conns : Taken(b, e)  BY <1>5, Played
  <2>2. Buffered  BY <1>1, <2>1 DEF Taken, Buffered
  <2>3. Shown
    <3> DEFINE n == e[1]
               c == e[2]
               k == Of(n).channel
    <3>1. n \in Frames /\ c \in Conns /\ e = <<n, c>> /\ buffer[b][<<n, c>>] > 0
      BY <2>1 DEF Taken, First
    <3>2. k \in Channels
      <4>1. n <= Len(sent)  BY <3>1 DEF Orderly
      <4> QED BY <3>1, <4>1, ChannelOf
    <3>3. WholeNext(c, n)  BY <1>1, <3>1
    <3>4. shown' = [shown EXCEPT ![b][c][k] = n]  BY <2>1 DEF Taken
    <3> HIDE DEF n, c, k
    <3>5. shown \in [Conns -> [Conns -> [Channels -> 0..MaxFrames]]]  BY DEF UdpTypeOK
    <3>6. /\ shown'[b][c][k] = n
          /\ \A x \in Conns, y \in Conns, z \in Channels :
               x # b \/ y # c \/ z # k => shown'[x][y][z] = shown[x][y][z]
      BY <3>1, <3>2, <3>4, <3>5, EntrySet
    <3> SUFFICES ASSUME NEW t \in Conns, NEW a \in Conns, NEW ch \in Channels,
                        shown'[t][a][ch] # 0
                 PROVE  WholeNext(a, shown'[t][a][ch])
      BY DEF Shown
    <3>7. CASE t = b /\ a = c /\ ch = k  BY <3>3, <3>6, <3>7
    <3>8. CASE ~(t = b /\ a = c /\ ch = k)
      <4>1. shown'[t][a][ch] = shown[t][a][ch]  BY <3>6, <3>8
      <4> QED BY <1>2, <3>8, <4>1
    <3> QED BY <3>7, <3>8
  <2> QED BY <1>0, <2>2, <2>3
<1> QED BY <1>3, <1>4, <1>5, MediaSteps DEF GiveUp, playback

\* The confirmations that are under way were given for a probe.
Confirming == confirm \subseteq probed

LEMMA PathStep ==
  ASSUME UdpTypeOK, Provenance, Confirming, ProvenPath, [UdpNext]_udpVars
  PROVE  Confirming' /\ ProvenPath'
<1> USE DEF Confirming, ProvenPath
<1>1. CASE NegotiateUdp  BY <1>1 DEF NegotiateUdp, reception
<1>2. ASSUME NEW c \in Conns, CheckProbe(c) PROVE Confirming' /\ ProvenPath'
  BY <1>2 DEF CheckProbe, reception
<1>3. ASSUME NEW c \in Conns, HandleAnnounce(c) PROVE Confirming' /\ ProvenPath'
  BY <1>3 DEF HandleAnnounce, reception
<1>4. ASSUME NEW c \in Conns, HandleConfirm(c) PROVE Confirming' /\ ProvenPath'
  BY <1>4 DEF HandleConfirm, reception
<1>5. ASSUME NEW c \in Conns, ProbeTimeout(c) PROVE Confirming' /\ ProvenPath'
  BY <1>5 DEF ProbeTimeout, reception
<1>6. ASSUME NEW c \in Conns, Remove(c) PROVE Confirming' /\ ProvenPath'
  BY <1>6 DEF Remove, reception
<1>7. ASSUME NEW c \in Conns, SendProbe(c) PROVE Confirming' /\ ProvenPath'
  BY <1>7 DEF SendProbe, reception
<1>8. ASSUME NEW f \in Media, Send(f) PROVE Confirming' /\ ProvenPath'
  BY <1>8 DEF Send, negotiation, reception
<1>9. ASSUME NEW d \in net, Deliver(d) PROVE Confirming' /\ ProvenPath'
  <2>1. probed \subseteq probed'  BY <1>9, Fed DEF Kept, Completed
  <2> QED BY <1>9, <2>1 DEF Deliver, negotiation
<1>10. ASSUME NEW c \in Conns, NEW n \in 1..Len(sent), GiveUp(c, n)
       PROVE  Confirming' /\ ProvenPath'
  BY <1>10 DEF GiveUp, negotiation
<1>11. ASSUME NEW b \in Conns, Play(b) PROVE Confirming' /\ ProvenPath'
  BY <1>11 DEF Play, negotiation, reception
<1>12. CASE UNCHANGED udpVars  BY <1>12 DEF udpVars, negotiation, reception
<1> QED BY <1>1, <1>2, <1>3, <1>4, <1>5, <1>6, <1>7, <1>8, <1>9, <1>10, <1>11, <1>12 DEF UdpNext

Inv == UdpTypeOK /\ Provenance /\ Orderly /\ LastSent

LEMMA Initially == UdpInit => Inv /\ FramesWhole /\ Confirming /\ ProvenPath
<1> SUFFICES ASSUME UdpInit PROVE Inv /\ FramesWhole /\ Confirming /\ ProvenPath
  OBVIOUS
<1> USE DEF UdpInit
<1>1. \A b \in Conns, n \in Frames, c \in Conns : buffer[b][<<n, c>>] = 0  OBVIOUS
<1>2. \A t \in Conns, c \in Conns, ch \in Channels : shown[t][c][ch] = 0 /\ last[c][ch] = 0
  OBVIOUS
<1>3. UdpTypeOK  BY BoundsAssumption, ProbesAssumption DEF UdpTypeOK
<1>4. Provenance  BY DEF Provenance
<1>5. Orderly  BY <1>1, <1>2 DEF Orderly
<1>6. LastSent  BY <1>2 DEF LastSent
<1>7. FramesWhole  BY <1>1, <1>2 DEF FramesWhole
<1> QED BY <1>3, <1>4, <1>5, <1>6, <1>7 DEF Inv, Confirming, ProvenPath

LEMMA InvStep == Inv /\ [UdpNext]_udpVars => Inv'
BY TypeStep, ProvenanceStep, OrderStep, LastStep DEF Inv

(* Every variable keeps its type. *)
THEOREM UdpTypeCorrect == UdpSpec => []UdpTypeOK
BY Initially, InvStep, PTL DEF UdpSpec, Inv

(* Every frame that is buffered or shown is put together from all of its own
   fragments, whatever the network does to the datagrams (feed_packet, push). *)
THEOREM OnlyWholeFrames == UdpSpec => []FramesWhole
<1>1. Inv /\ FramesWhole /\ [UdpNext]_udpVars => (Inv /\ FramesWhole)'
  BY InvStep, WholeStep DEF Inv
<1> QED BY <1>1, Initially, PTL DEF UdpSpec

(* A playback thread never shows an older frame of a receiver and channel after
   a newer one (feed_packet, push, _playback_loop). *)
THEOREM NeverBackHolds == UdpSpec => NeverBack
<1>1. Inv /\ [UdpNext]_udpVars =>
        [\A t \in Conns, c \in Conns, ch \in Channels :
           shown'[t][c][ch] >= shown[t][c][ch]]_udpVars
  BY OrderStep DEF Inv
<1> QED BY <1>1, Initially, InvStep, PTL DEF UdpSpec, NeverBack

(* A client gets its media over UDP only after a probe has reached it, at an
   address the server still has, but for late confirmations (should_use_udp). *)
THEOREM PathIsProven == UdpSpec => []ProvenPath
<1>1. Inv /\ Confirming /\ ProvenPath /\ [UdpNext]_udpVars => (Inv /\ Confirming /\ ProvenPath)'
  BY InvStep, PathStep DEF Inv
<1> QED BY <1>1, Initially, PTL DEF UdpSpec
=============================================================================
