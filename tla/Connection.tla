----------------------------- MODULE Connection -----------------------------
(***************************************************************************)
(* One ClientProtocol and the servers it reaches: the GUI thread connects  *)
(* and disconnects, the I/O thread runs _run_loop (attempt, back off, try  *)
(* again), each attempt authenticates and exchanges hellos with            *)
(* handle_client at the other end, in order, over one websocket; in broker *)
(* mode the attempt is preceded by the broker's handshake, which yields a  *)
(* token for the machine it assigns.  Both ends drive the session state    *)
(* machines of session_fsm.py, and the client reports its state in pings.  *)
(*                                                                         *)
(* One Session object of the GUI makes one connect() call.  A handler the  *)
(* client has left goes on in SendQueue, and is forgotten here.  The       *)
(* broker, in broker mode, is its answer: an assignment or none.  When the *)
(* address of a direct connection turns out to be a broker's, the client   *)
(* goes through the same steps inside the attempt and is redirected.  Not  *)
(* modelled: the negotiation of UDP (UdpMedia has it).                     *)
(***************************************************************************)
EXTENDS Naturals, Sequences

CONSTANTS
  AuthModes,   \* the server's possible auth modes, of "none", "local", "pam"
  Routes,      \* how the user connects: "direct", "broker", or "found": directly,
               \* to an address that is a broker's
  MaxFaults,   \* bound: failures of the network, the broker and the server's setup
  WireMax      \* bound: messages in flight in one direction

ASSUME AuthModesAssumption == AuthModes \subseteq {"none", "local", "pam"}
ASSUME RoutesAssumption == Routes \subseteq {"direct", "broker", "found"}
ASSUME MaxFaultsAssumption == MaxFaults \in Nat
ASSUME WireMaxAssumption == WireMax \in Nat /\ WireMax >= 2

VARIABLES
  mode, route,    \* the server's auth mode, the user's route
  good, member,   \* whether the password is right, the user of a group the broker lets in
  pc,         \* where the I/O thread is
  cfsm,       \* ClientProtocol.fsm
  connected, closing, auto,   \* _connected, _closing, _auto_reconnect
  stop,       \* loop.stop() was scheduled on the running loop
  brokered,   \* _broker_mode
  token,      \* _broker_token: "none", "fresh", "expired"
  peer,       \* whom _connect_to_server dials: a "machine", or a "broker"
  link,       \* the websocket: "none", "open", "closing" (by the server), "lost"
  s2c, c2s,   \* messages in flight
  spc, sfsm,  \* where handle_client is, ClientSession.fsm
  faults

config == <<mode, route, good, member>>
user   == <<closing, auto, stop, brokered, peer>>
client == <<pc, cfsm, connected, user, token>>
server == <<spc, sfsm>>
wire   == <<link, s2c, c2s>>
vars   == <<config, client, server, wire, faults>>
-----------------------------------------------------------------------------
\* The state machines of session_fsm.py, as the events the code sends.

ClientStates == {"disconnected", "handshaking", "authenticating", "capability_exchange",
                 "streaming", "degraded", "reconnecting", "closed"}
ServerStates == {"bootstrapping", "authenticating", "capability_exchange", "streaming",
                 "reconfiguring", "draining", "closed"}

Handshake ==
  {<<"disconnected", "connect_requested", "handshaking">>,
   <<"reconnecting", "connect_requested", "handshaking">>,
   <<"handshaking", "tls_ok", "authenticating">>,
   <<"authenticating", "auth_ok", "capability_exchange">>,
   <<"capability_exchange", "hello_received", "streaming">>}
LostFrom(states) == {<<s, "transport_lost", "reconnecting">> : s \in states}
ClientMovesLiveOnly == Handshake \cup LostFrom({"streaming", "degraded"})
ClientMoves ==
  Handshake \cup LostFrom({"streaming", "degraded", "handshaking", "authenticating",
                           "capability_exchange"})

ServerMoves ==
  {<<"bootstrapping", "tls_ok", "authenticating">>,
   <<"authenticating", "auth_ok", "capability_exchange">>,
   <<"capability_exchange", "client_hello", "streaming">>}
  \cup {<<s, "ws_closed", "draining">> :
          s \in {"streaming", "capability_exchange", "reconfiguring"}}

\* fsm.send(event) in its try: a transition that is not allowed is passed over.
Fire(moves, s, event) ==
  IF \E t \in ClientStates \cup ServerStates : <<s, event, t>> \in moves
  THEN CHOOSE t \in ClientStates \cup ServerStates : <<s, event, t>> \in moves
  ELSE s

AllowedPairs ==
  {<<"handshaking", "bootstrapping">>, <<"authenticating", "authenticating">>,
   <<"capability_exchange", "capability_exchange">>, <<"streaming", "streaming">>,
   <<"streaming", "reconfiguring">>, <<"degraded", "streaming">>,
   <<"reconnecting", "draining">>, <<"reconnecting", "closed">>, <<"closed", "closed">>}
-----------------------------------------------------------------------------
\* run_until_complete is running in these places, the websocket open in Online.
Online  == {"first", "result", "hello", "pick", "assign", "greet", "live"}
Running == {"broker", "dial", "tcp"} \cup Online

\* What either end says, so far as the other one looks at it.
FromServer == {"request", "ok", "refused", "hello", "data", "machines", "assigned", "unassigned"}
FromClient == [kind : {"password", "token", "choice", "chello", "ping"}, state : ClientStates]

TypeOK ==
  /\ mode \in AuthModes /\ route \in Routes /\ {good, member} \subseteq BOOLEAN
  /\ pc \in {"off", "check", "enter", "lost", "sleep", "ending", "ended"} \cup Running
  /\ cfsm \in ClientStates /\ sfsm \in ServerStates
  /\ {connected, closing, auto, stop, brokered} \subseteq BOOLEAN
  /\ token \in {"none", "fresh", "expired"} /\ peer \in {"machine", "broker"}
  /\ link \in {"none", "open", "closing", "lost"}
  /\ link = "none" <=> pc \notin Online
  /\ s2c \in Seq(FromServer) /\ Len(s2c) <= WireMax
  /\ c2s \in Seq(FromClient) /\ Len(c2s) <= WireMax
  /\ spc \in {"none", "accepted", "auth", "setup", "choosing", "serving", "returned", "done"}
  /\ faults \in 0..MaxFaults

Init ==
  /\ mode \in AuthModes /\ route \in Routes /\ good \in BOOLEAN /\ member \in BOOLEAN
  /\ pc = "off" /\ cfsm = "disconnected"
  /\ connected = FALSE /\ closing = FALSE /\ auto = TRUE /\ stop = FALSE
  /\ brokered = FALSE /\ token = "none" /\ peer = "machine"
  /\ link = "none" /\ s2c = <<>> /\ c2s = <<>>
  /\ spc = "none" /\ sfsm = "bootstrapping"
  /\ faults = 0
-----------------------------------------------------------------------------
\* The GUI thread: connect, connect_broker, disconnect.

Connect(reconnects) ==
  /\ pc = "off"
  /\ pc' = "check" /\ closing' = FALSE /\ auto' = reconnects
  /\ brokered' = (route = "broker") /\ token' = "none"
  /\ UNCHANGED <<config, cfsm, connected, stop, peer, server, wire, faults>>

\* Up to the join: the loop is stopped only if it runs at this moment.
Disconnect ==
  /\ pc # "off" /\ ~closing
  /\ closing' = TRUE /\ auto' = FALSE
  /\ stop' = (pc \in Running)
  /\ UNCHANGED <<config, pc, cfsm, connected, brokered, peer, token, server, wire, faults>>

\* The join returned or timed out after 3 seconds.
JoinReturns ==
  /\ closing /\ connected
  /\ connected' = FALSE
  /\ UNCHANGED <<config, pc, cfsm, user, token, server, wire, faults>>
-----------------------------------------------------------------------------
\* The I/O thread: _run_loop.

LoopTop ==
  /\ pc = "check"
  /\ pc' = IF closing THEN "ending" ELSE "enter"
  /\ UNCHANGED <<config, cfsm, connected, user, token, server, wire, faults>>

\* In broker mode the broker is asked for a machine, unless a token is still
\* held: host and port are then the ones the user gave, the broker's.
Enter ==
  /\ pc = "enter"
  /\ LET asks == brokered /\ token = "none" IN
       /\ pc' = IF asks THEN "broker" ELSE "dial"
       /\ peer' = IF asks \/ route = "direct" THEN "machine" ELSE "broker"
  /\ UNCHANGED <<config, cfsm, connected, closing, auto, stop, brokered, token, server, wire, faults>>

\* The attempt is over: the websocket is closed on the way out.  An exception
\* of the target's connection makes a client with a token forget it.
Leave(raised) ==
  /\ pc' = "lost"
  /\ token' = IF raised THEN "none" ELSE token
  /\ link' = "none" /\ s2c' = <<>> /\ c2s' = <<>>
  /\ spc' = "none" /\ sfsm' = "bootstrapping"

AfterGivesUp ==
  /\ pc = "lost"
  /\ connected' = FALSE
  /\ cfsm' = Fire(ClientMoves, cfsm, "transport_lost")
  /\ pc' = "ending"
  /\ UNCHANGED <<config, user, token, server, wire, faults>>
After ==
  /\ pc = "lost"
  /\ connected' = FALSE
  /\ cfsm' = Fire(ClientMoves, cfsm, "transport_lost")
  /\ pc' = IF ~auto \/ closing THEN "ending" ELSE "sleep"
  /\ UNCHANGED <<config, user, token, server, wire, faults>>

Wake ==
  /\ pc = "sleep"
  /\ pc' = "check"
  /\ UNCHANGED <<config, cfsm, connected, user, token, server, wire, faults>>

End ==
  /\ pc = "ending"
  /\ pc' = "ended" /\ connected' = FALSE
  /\ UNCHANGED <<config, cfsm, user, token, server, wire, faults>>

\* The scheduled loop.stop() makes run_until_complete raise; the coroutine is
\* abandoned, so its except clauses don't run.
LoopStopped ==
  /\ pc \in Running /\ stop
  /\ Leave(FALSE)
  /\ UNCHANGED <<config, cfsm, connected, user, faults>>
-----------------------------------------------------------------------------
\* One attempt: _connect_and_receive.

BrokerAssigns ==
  /\ pc = "broker"
  /\ pc' = "dial" /\ token' = "fresh"
  /\ UNCHANGED <<config, cfsm, connected, user, server, wire, faults>>

\* No assignment, whether the handshake raised or returned without one.
BrokerFails ==
  /\ pc = "broker" /\ faults < MaxFaults
  /\ faults' = faults + 1
  /\ Leave(FALSE)
  /\ UNCHANGED <<config, cfsm, connected, user>>

\* The token's 60 seconds pass.
TokenExpires ==
  /\ token = "fresh"
  /\ token' = "expired"
  /\ UNCHANGED <<config, pc, cfsm, connected, user, server, wire, faults>>

Dial ==
  /\ pc = "dial"
  /\ pc' = "tcp"
  /\ cfsm' = Fire(ClientMoves, cfsm, "connect_requested")
  /\ UNCHANGED <<config, connected, user, token, server, wire, faults>>

Opened ==
  /\ pc = "tcp"
  /\ pc' = "first"
  /\ cfsm' = Fire(ClientMoves, cfsm, "tls_ok")
  /\ link' = "open" /\ spc' = "accepted"
  /\ UNCHANGED <<config, connected, user, token, s2c, c2s, sfsm, faults>>

OpenFails ==
  /\ pc = "tcp" /\ faults < MaxFaults
  /\ faults' = faults + 1
  /\ Leave(TRUE)
  /\ UNCHANGED <<config, cfsm, connected, user>>

\* What the client puts on the wire; only a ping's receiver looks at the state.
Message(k) == [kind |-> k, state |-> cfsm]

\* What the client takes off the wire is k.
Receives(k) == s2c # <<>> /\ Head(s2c) = k /\ s2c' = Tail(s2c)

\* _handle_auth, and _handle_token_auth, answer the request.
PasswordAnswer ==
  /\ pc = "first" /\ token = "none" /\ Receives("request")
  /\ pc' = "result"
  /\ c2s' = Append(c2s, Message("password"))
  /\ UNCHANGED <<config, cfsm, connected, user, token, server, link, faults>>
TokenAnswer ==
  /\ pc = "first" /\ token # "none" /\ Receives("request")
  /\ pc' = "result"
  /\ c2s' = Append(c2s, Message("token"))
  /\ UNCHANGED <<config, cfsm, connected, user, token, server, link, faults>>

\* A refusal makes them return, and the caller goes on as after a success.
GetResult ==
  /\ pc = "result"
  /\ \/ /\ Receives("ok")
        /\ cfsm' = Fire(ClientMoves, cfsm, "auth_ok")
        /\ pc' = "hello"
        /\ UNCHANGED connected
     \/ /\ Receives("refused")
        /\ pc' = "greet" /\ connected' = TRUE
        /\ UNCHANGED cfsm
  /\ UNCHANGED <<config, user, token, server, link, c2s, faults>>

\* Anything but a hello in the hello's place is passed over.
GetHello ==
  /\ pc \in {"first", "hello"}
  /\ \/ /\ Receives("hello")
        /\ cfsm' = Fire(ClientMoves, cfsm, "hello_received")
     \/ /\ pc = "hello" /\ Receives("refused")
        /\ UNCHANGED cfsm
  /\ pc' = "greet" /\ connected' = TRUE
  /\ UNCHANGED <<config, user, token, server, link, c2s, faults>>

\* A broker's hello: the machines are shown to the user, who picks one or
\* lets two minutes pass.
FindBroker ==
  /\ pc = "hello" /\ Receives("machines")
  /\ pc' = "pick"
  /\ UNCHANGED <<config, cfsm, connected, user, token, server, link, c2s, faults>>
Choose ==
  /\ pc = "pick" /\ link # "lost"
  /\ pc' = "assign"
  /\ c2s' = Append(c2s, Message("choice"))
  /\ UNCHANGED <<config, cfsm, connected, user, token, server, link, s2c, faults>>

\* _BrokerRedirect leaves the websocket; its handler dials the machine in the
\* same attempt, or ends the attempt without an exception.
Redirect ==
  /\ pc = "assign" /\ Receives("assigned")
  /\ pc' = "dial" /\ brokered' = TRUE /\ token' = "fresh" /\ peer' = "machine"
  /\ link' = "none" /\ c2s' = <<>>
  /\ spc' = "none" /\ sfsm' = "bootstrapping"
  /\ UNCHANGED <<config, cfsm, connected, closing, auto, stop, faults>>
NoRedirect ==
  /\ pc = "assign" /\ s2c # <<>> /\ Head(s2c) = "unassigned"
  /\ Leave(FALSE)
  /\ UNCHANGED <<config, cfsm, connected, user, faults>>
AssignTimeout ==
  /\ pc = "assign" /\ faults < MaxFaults
  /\ faults' = faults + 1
  /\ Leave(TRUE)
  /\ UNCHANGED <<config, cfsm, connected, user>>

SendHello ==
  /\ pc = "greet" /\ link # "lost"
  /\ Len(c2s) < WireMax
  /\ pc' = "live"
  /\ c2s' = Append(c2s, Message("chello"))
  /\ UNCHANGED <<config, cfsm, connected, user, token, server, link, s2c, faults>>

\* _client_health_ping_loop, started after the hello was sent.
Ping ==
  /\ pc = "live" /\ connected /\ ~closing
  /\ Len(c2s) < WireMax
  /\ c2s' = Append(c2s, Message("ping"))
  /\ UNCHANGED <<config, client, server, link, s2c, faults>>

\* _handle_json: other parts of the client act on what arrives, the attempt
\* goes on whatever it was.
HandleMessage == s2c' = Tail(s2c) /\ UNCHANGED <<pc, token, server, link, c2s>>

\* The message loop looks at _closing when a message arrives.
ReceiveOn ==
  /\ pc = "live" /\ s2c # <<>>
  /\ HandleMessage
  /\ UNCHANGED <<config, cfsm, connected, user, faults>>
Receive ==
  /\ pc = "live" /\ s2c # <<>>
  /\ \/ closing /\ Leave(FALSE)
     \/ ~closing /\ HandleMessage
  /\ UNCHANGED <<config, cfsm, connected, user, faults>>

\* A websocket the server has closed ends the message loop without an
\* exception; everywhere else, and on a lost connection, recv or send raises.
StreamEnds ==
  /\ pc = "live" /\ link = "closing" /\ s2c = <<>>
  /\ Leave(FALSE)
  /\ UNCHANGED <<config, cfsm, connected, user, faults>>

Raises ==
  /\ \/ pc \in {"first", "result", "hello", "assign"} /\ link = "closing" /\ s2c = <<>>
     \/ pc \in {"pick", "greet"} /\ link = "closing"
     \/ pc \in Online /\ link = "lost"
  /\ Leave(TRUE)
  /\ UNCHANGED <<config, cfsm, connected, user, faults>>

Drop ==
  /\ link \in {"open", "closing"} /\ faults < MaxFaults
  /\ faults' = faults + 1
  /\ link' = "lost"
  /\ UNCHANGED <<config, client, server, s2c, c2s>>
-----------------------------------------------------------------------------
\* The server: handle_client.

Talks == link = "open" /\ Len(s2c) < WireMax

ServerStart ==
  /\ spc = "accepted" /\ Talks
  /\ LET s == Fire(ServerMoves, sfsm, "tls_ok") IN
       \/ /\ mode # "none" \/ peer = "broker"
          /\ sfsm' = s /\ spc' = "auth" /\ s2c' = Append(s2c, "request")
       \/ /\ mode = "none" /\ peer = "machine"
          /\ sfsm' = Fire(ServerMoves, s, "auth_ok") /\ spc' = "setup"
          /\ UNCHANGED s2c
  /\ UNCHANGED <<config, client, link, c2s, faults>>

\* Local mode.  sha256 of a text, injective; the server keeps the hash of
\* password and salt and expects the hash of that and the challenge, the client
\* sends the hash of password and challenge.
Hash(text) == <<"(">> \o text \o <<")">>
StoredHash == Hash(<<"password", "salt">>)
ClientHash == Hash(<<"password", "challenge">>)
LocalAccepts == ClientHash = Hash(StoredHash \o <<"challenge">>)

PasswordAccepted == good /\ (mode = "pam" \/ (mode = "local" /\ LocalAccepts))
BrokerAccepts == good /\ member

\* Only the pam branch knows broker tokens; a broker takes one for a wrong
\* password.
TokenAccepted == token = "fresh" /\ peer = "machine" /\ mode = "pam"

Accepted(kind) ==
  \/ kind = "token" /\ TokenAccepted
  \/ kind # "token" /\ peer = "broker" /\ BrokerAccepts
  \/ kind # "token" /\ peer = "machine" /\ PasswordAccepted

ServerVerify ==
  /\ spc = "auth" /\ c2s # <<>> /\ Talks
  /\ c2s' = Tail(c2s)
  /\ \/ /\ Accepted(Head(c2s).kind)
        /\ s2c' = Append(s2c, "ok")
        /\ sfsm' = Fire(ServerMoves, sfsm, "auth_ok")
        /\ spc' = "setup"
     \/ /\ ~Accepted(Head(c2s).kind)
        /\ s2c' = Append(s2c, "refused")
        /\ spc' = "returned"
        /\ UNCHANGED sfsm
  /\ UNCHANGED <<config, client, link, faults>>

\* wait_for(recv, 30) gave up.
ServerTimeout ==
  /\ spc \in {"auth", "choosing"} /\ link = "open" /\ faults < MaxFaults
  /\ faults' = faults + 1
  /\ spc' = "returned"
  /\ UNCHANGED <<config, client, wire, sfsm>>

\* The broker shows its machines, and assigns one or none.  (It keeps no state
\* machine; nothing looks at sfsm then.)
BrokerHello ==
  /\ spc = "setup" /\ peer = "broker" /\ Talks
  /\ s2c' = Append(s2c, "machines") /\ spc' = "choosing"
  /\ UNCHANGED <<config, client, sfsm, link, c2s, faults>>
BrokerAnswers ==
  /\ spc = "choosing" /\ c2s # <<>> /\ Talks
  /\ c2s' = Tail(c2s) /\ spc' = "returned"
  /\ \/ s2c' = Append(s2c, "assigned") /\ UNCHANGED faults
     \/ /\ faults < MaxFaults /\ faults' = faults + 1
        /\ s2c' = Append(s2c, "unassigned")
  /\ UNCHANGED <<config, client, sfsm, link>>

\* The runtime is found or created and the server's hello sent; an unknown
\* system user is told so with an auth result, a missing runtime with nothing.
ServerSetup ==
  /\ spc = "setup" /\ peer = "machine" /\ Talks
  /\ s2c' = Append(s2c, "hello") /\ spc' = "serving"
  /\ UNCHANGED <<config, client, sfsm, link, c2s, faults>>

ServerSetupFails ==
  /\ spc = "setup" /\ peer = "machine" /\ Talks /\ faults < MaxFaults
  /\ faults' = faults + 1
  /\ \/ mode = "pam" /\ s2c' = Append(s2c, "refused")
     \/ UNCHANGED s2c
  /\ spc' = "returned"
  /\ UNCHANGED <<config, client, sfsm, link, c2s>>

\* CLIENT_HELLO and HEALTH_PING.
ServerHandle ==
  /\ spc = "serving" /\ c2s # <<>> /\ link = "open"
  /\ c2s' = Tail(c2s)
  /\ sfsm' = IF Head(c2s).kind = "chello" THEN Fire(ServerMoves, sfsm, "client_hello") ELSE sfsm
  /\ UNCHANGED <<config, client, spc, link, s2c, faults>>

\* Frames, and at least a health message every two seconds.
ServerPush ==
  /\ spc = "serving" /\ Talks
  /\ s2c' = Append(s2c, "data")
  /\ UNCHANGED <<config, client, server, link, c2s, faults>>

\* The server program is shut down in an orderly way.
ServerStops ==
  /\ spc = "serving" /\ link = "open" /\ faults < MaxFaults
  /\ faults' = faults + 1
  /\ spc' = "returned"
  /\ UNCHANGED <<config, client, sfsm, wire>>

\* The handler returns, or the connection is gone under it; the websocket is
\* closed behind what was sent.
ServerExit ==
  /\ spc = "returned" \/ (spc \notin {"none", "done"} /\ link = "lost")
  /\ spc' = "done"
  /\ sfsm' = Fire(ServerMoves, sfsm, "ws_closed")
  /\ link' = IF link = "open" THEN "closing" ELSE link
  /\ UNCHANGED <<config, client, s2c, c2s, faults>>
-----------------------------------------------------------------------------
Next ==
  \/ \E b \in BOOLEAN : Connect(b)
  \/ Disconnect \/ JoinReturns
  \/ LoopTop \/ Enter \/ After \/ Wake \/ End \/ LoopStopped
  \/ BrokerAssigns \/ BrokerFails \/ TokenExpires
  \/ Dial \/ Opened \/ OpenFails
  \/ PasswordAnswer \/ TokenAnswer \/ GetResult \/ GetHello \/ SendHello
  \/ FindBroker \/ Choose \/ Redirect \/ NoRedirect \/ AssignTimeout
  \/ Ping \/ Receive \/ StreamEnds \/ Raises \/ Drop
  \/ ServerStart \/ ServerVerify \/ ServerTimeout
  \/ BrokerHello \/ BrokerAnswers
  \/ ServerSetup \/ ServerSetupFails \/ ServerHandle \/ ServerPush \/ ServerStops \/ ServerExit

\* Both programs go on while nothing fails, the backoff ends, the broker and
\* the server answer, the health loop pushes.  Nothing need fail, the user
\* need do nothing, and no ping need be sent.
Fairness ==
  /\ WF_vars(LoopTop) /\ WF_vars(Enter) /\ WF_vars(After) /\ WF_vars(Wake) /\ WF_vars(End)
  /\ WF_vars(LoopStopped)
  /\ WF_vars(BrokerAssigns) /\ WF_vars(Dial) /\ WF_vars(Opened)
  /\ WF_vars(PasswordAnswer) /\ WF_vars(TokenAnswer) /\ WF_vars(GetResult) /\ WF_vars(GetHello) /\ WF_vars(SendHello)
  /\ WF_vars(FindBroker) /\ WF_vars(Choose) /\ WF_vars(Redirect) /\ WF_vars(NoRedirect)
  /\ WF_vars(BrokerHello) /\ WF_vars(BrokerAnswers)
  /\ WF_vars(Receive) /\ WF_vars(StreamEnds) /\ WF_vars(Raises)
  /\ WF_vars(ServerStart) /\ WF_vars(ServerVerify) /\ WF_vars(ServerSetup)
  /\ WF_vars(ServerHandle) /\ WF_vars(ServerPush) /\ WF_vars(ServerExit)

Spec == Init /\ [][Next]_vars /\ Fairness
-----------------------------------------------------------------------------
(* Though every fsm.send swallows a transition that is not allowed, the
   client's state machine says where the attempt really is, through any
   sequence of losses and attempts against a server that authenticates; only
   a redirect dials the machine with the state the broker's answer left.  And
   whenever the server handles a ping, the state the client reported in it and
   the server's own state, which is newer, are a pair check_state_pair allows. *)
FsmTracksHandshake ==
  mode # "none" =>
    LET redirected == route = "found" /\ cfsm = "capability_exchange" IN
    /\ pc = "tcp" => cfsm = "handshaking" \/ redirected
    /\ pc \in {"first", "result"} => cfsm = "authenticating" \/ redirected
    /\ pc \in {"hello", "pick", "assign"} => cfsm = "capability_exchange"
    /\ cfsm = "streaming" => spc \in {"serving", "returned", "done"} \/ pc = "lost"
    /\ (spc = "serving" /\ link = "open" /\ c2s # <<>> /\ Head(c2s).kind = "ping")
         => <<Head(c2s).state, sfsm>> \in AllowedPairs

(* After disconnect() the I/O thread ends, wherever the call met it: also
   between its look at _closing and the moment its loop runs, when there is
   no loop to stop. *)
DisconnectEnds == closing ~> (pc = "ended")

(* With the right password and auto_reconnect on, the client of any server but
   one in local mode is served again after every failure, unless the user
   disconnects. *)
Recovers ==
  (pc # "off" /\ auto /\ good /\ route = "direct" /\ mode # "local")
    ~> (closing \/ (connected /\ sfsm = "streaming"))
=============================================================================
