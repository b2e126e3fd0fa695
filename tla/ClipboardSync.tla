--------------------------- MODULE ClipboardSync ---------------------------
(***************************************************************************)
(* The clipboards of one desktop session and of its clients.  The server   *)
(* polls the desktop's clipboard on a thread of its own, from its first    *)
(* client on, and broadcasts what has changed since it last looked or      *)
(* wrote; its event loop writes what clients send.  The X clipboard is     *)
(* reached by xclip, or by xsel, which knows no images; the pasteboard of  *)
(* macOS counts its owners, and is read only when the count has changed.   *)
(* A client sends its text when Qt says the clipboard has changed, and     *)
(* text or image when the user pastes into the viewer.  Both               *)
(* ends suppress echoes: the server by remembering the last text and the   *)
(* last image it has seen or written, the client by a flag.  Every         *)
(* direction can be closed by the user; the server learns of it from the   *)
(* client's hello.                                                         *)
(*                                                                         *)
(* A payload travels as one message here, large ones are cut to pieces in  *)
(* ClipboardTransfer.  On the way to a client any of them may be lost, as  *)
(* LossyStream allows.  Without the calls to the operating system: reading *)
(* a clipboard is one step, writing it and remembering that are two.       *)
(***************************************************************************)
EXTENDS Naturals, SequencesExt

CONSTANTS
  Clients,     \* the clients of the session
  Texts,       \* what users copy: texts
  Images,      \* ... and images
  Hosts,       \* how the server reaches its clipboard
  MaxCopies,   \* bound: copies made by all users together
  MaxFlips,    \* bound: toggles flipped
  MaxFaults,   \* bound: lost messages, lost connections, failed writes
  WireMax      \* bound: messages under way to or from one client

ASSUME PayloadAssumption == Texts \cap Images = {}
ASSUME HostsAssumption == Hosts \subseteq {"xclip", "xsel", "mac"}
ASSUME BoundsAssumption == {MaxCopies, MaxFlips, MaxFaults} \subseteq Nat
ASSUME WireMaxAssumption == WireMax \in Nat \ {0}

Values == Texts \cup Images
Kinds == {"text", "image"}
Kind(v) == IF v \in Images THEN "image" ELSE "text"
Nothing == "nothing"    \* an empty clipboard, and no payload in a thread's hands
Taken == "taken"        \* a pasteboard that has an owner and no content yet

\* The four toggles, clipboard_text_c2s and its siblings.
DirectionConfused(k, way) == <<k, "s2c">>
Direction(k, way) == <<k, way>>
Directions == {<<k, way>> : k \in Kinds, way \in {"c2s", "s2c"}}

VARIABLES
  cclip,    \* per client, what its clipboard holds
  unseen,   \* per client, Qt has yet to report a change of the clipboard
  conn,     \* per client: "down", "greeting" until the hello is handled, "up"
  ctog,     \* per client, the directions open in ClientProtocol
  stog,     \* per client, the directions open in its ClientSession
  c2s, s2c, \* per client, messages under way, oldest first
  host,     \* how the server reaches its clipboard
  monitoring,  \* the polling thread has been started
  sclip,    \* what the desktop's clipboard holds
  seen,     \* macOS: _last_change_count is the pasteboard's count
  polled,   \* what the polling thread has read and not compared yet
  writing,  \* what the event loop has written and not remembered yet
  known,    \* per kind, _last_content and _last_image_hash
  copies, flips, faults

client == <<cclip, unseen>>
links  == <<conn, ctog, stog>>
server == <<monitoring, sclip, seen, polled, writing, known>>
counts == <<copies, flips, faults>>
vars   == <<client, links, c2s, s2c, host, server, counts>>

Hello(on) == [kind |-> "hello", on |-> on]
Clip(v)   == [kind |-> "clip", payload |-> v]
Hellos    == {Hello(on) : on \in SUBSET Directions}

TypeOK ==
  /\ cclip \in [Clients -> Values \cup {Nothing}]
  /\ unseen \in [Clients -> BOOLEAN]
  /\ conn \in [Clients -> {"down", "greeting", "up"}]
  /\ {ctog, stog} \subseteq [Clients -> SUBSET Directions]
  /\ c2s \in [Clients -> Seq(Hellos \cup {Clip(v) : v \in Values})]
  /\ s2c \in [Clients -> Seq(Values)]
  /\ \A c \in Clients : Len(c2s[c]) <= WireMax /\ Len(s2c[c]) <= WireMax
  \* The hello is the first thing the server reads, and only once.
  /\ \A c \in Clients : \A i \in 1..Len(c2s[c]) :
       c2s[c][i].kind = "hello" <=> i = 1 /\ conn[c] = "greeting"
  /\ host \in Hosts /\ {monitoring, seen} \subseteq BOOLEAN
  /\ sclip \in Values \cup {Nothing, Taken}
  /\ {polled, writing} \subseteq Values \cup {Nothing}
  /\ known["text"] \in Texts \cup {Nothing} /\ known["image"] \in Images \cup {Nothing}
  /\ copies \in 0..MaxCopies /\ flips \in 0..MaxFlips /\ faults \in 0..MaxFaults

Init ==
  /\ cclip = [c \in Clients |-> Nothing] /\ unseen = [c \in Clients |-> FALSE]
  /\ conn = [c \in Clients |-> "down"]
  /\ ctog = [c \in Clients |-> Directions] /\ stog = [c \in Clients |-> Directions]
  /\ c2s = [c \in Clients |-> <<>>] /\ s2c = [c \in Clients |-> <<>>]
  /\ host \in Hosts /\ monitoring = FALSE /\ seen = (host = "mac")
  /\ sclip = Nothing /\ polled = Nothing /\ writing = Nothing
  /\ known = [k \in Kinds |-> Nothing]
  /\ copies = 0 /\ flips = 0 /\ faults = 0
-----------------------------------------------------------------------------
\* A client: its user, Qt's signals, the handlers of session.py.

Copy(c, v) ==
  /\ copies < MaxCopies
  /\ copies' = copies + 1
  /\ cclip' = [cclip EXCEPT ![c] = v] /\ unseen' = [unseen EXCEPT ![c] = TRUE]
  /\ UNCHANGED <<links, c2s, s2c, host, server, flips, faults>>

\* send_clipboard: gated, and send_input is silent without a connection.
Sent(c) ==
  IF conn[c] # "down" /\ Direction(Kind(cclip[c]), "c2s") \in ctog[c]
  THEN Append(c2s[c], Clip(cclip[c]))
  ELSE c2s[c]

\* dataChanged arrives: whatever the clipboard holds by now is sent, if it is
\* a text; without a connection the signal is not connected to anything.
Notice(c) ==
  /\ unseen[c] /\ Len(c2s[c]) < WireMax
  /\ unseen' = [unseen EXCEPT ![c] = FALSE]
  /\ c2s' = [c2s EXCEPT ![c] = IF cclip[c] \in Texts THEN Sent(c) ELSE @]
  /\ UNCHANGED <<cclip, links, s2c, host, server, counts>>

\* The user pastes into the viewer.
Paste(c) ==
  /\ cclip[c] # Nothing /\ Len(c2s[c]) < WireMax
  /\ c2s' = [c2s EXCEPT ![c] = Sent(c)]
  /\ UNCHANGED <<client, links, s2c, host, server, counts>>

Flip(c, d) ==
  /\ flips < MaxFlips
  /\ flips' = flips + 1
  /\ ctog' = [ctog EXCEPT ![c] = IF d \in @ THEN @ \ {d} ELSE @ \cup {d}]
  /\ UNCHANGED <<client, conn, stog, c2s, s2c, host, server, copies, faults>>

\* Images are gated on arrival, texts are not.  The flag _clipboard_from_server
\* swallows the signal of the client's own write.
ReceiveUnflagged(c) ==
  /\ s2c[c] # <<>>
  /\ s2c' = [s2c EXCEPT ![c] = Tail(@)]
  /\ IF Head(s2c[c]) \in Texts \/ <<"image", "s2c">> \in ctog[c]
     THEN cclip' = [cclip EXCEPT ![c] = Head(s2c[c])] /\ unseen' = [unseen EXCEPT ![c] = TRUE]
     ELSE UNCHANGED <<cclip, unseen>>
  /\ UNCHANGED <<links, c2s, host, server, counts>>
Receive(c) ==
  /\ s2c[c] # <<>>
  /\ s2c' = [s2c EXCEPT ![c] = Tail(@)]
  /\ IF Head(s2c[c]) \in Texts \/ <<"image", "s2c">> \in ctog[c]
     THEN cclip' = [cclip EXCEPT ![c] = Head(s2c[c])]
     ELSE UNCHANGED cclip
  /\ UNCHANGED <<unseen, links, c2s, host, server, counts>>
-----------------------------------------------------------------------------
\* The connection.

\* start_monitoring: the text it finds passes for known, an image does not.
Start == known' = [known EXCEPT !["text"] = IF sclip \in Texts THEN sclip ELSE @]
StartX == host # "mac" /\ Start /\ UNCHANGED seen
StartMac == host = "mac" /\ Start /\ seen' = TRUE

\* A new ClientSession has every direction open; the client's hello follows.
\* The session's first client starts the polling thread.
Connect(c) ==
  /\ conn[c] = "down"
  /\ monitoring' = TRUE
  /\ IF monitoring THEN UNCHANGED <<known, seen>> ELSE StartX \/ StartMac
  /\ conn' = [conn EXCEPT ![c] = "greeting"]
  /\ stog' = [stog EXCEPT ![c] = Directions]
  /\ c2s' = [c2s EXCEPT ![c] = <<Hello(ctog[c])>>]
  /\ UNCHANGED <<client, ctog, s2c, host, sclip, polled, writing, counts>>

\* What the I/O thread has passed on to the GUI still arrives.
Disconnect(c) ==
  /\ conn[c] # "down" /\ faults < MaxFaults
  /\ faults' = faults + 1
  /\ conn' = [conn EXCEPT ![c] = "down"]
  /\ c2s' = [c2s EXCEPT ![c] = <<>>]
  /\ \E n \in 0..Len(s2c[c]) : s2c' = [s2c EXCEPT ![c] = SubSeq(@, 1, n)]
  /\ UNCHANGED <<client, ctog, stog, host, server, copies, flips>>

\* The send queue drops its oldest entry, with others ahead of it on the wire.
Lose(c) ==
  /\ faults < MaxFaults
  /\ faults' = faults + 1
  /\ \E i \in 1..Len(s2c[c]) : s2c' = [s2c EXCEPT ![c] = RemoveAt(@, i)]
  /\ UNCHANGED <<client, links, c2s, host, server, copies, flips>>
-----------------------------------------------------------------------------
\* The server: the desktop's user, the polling thread, the event loop.

DesktopCopy(v) ==
  /\ host # "mac" /\ copies < MaxCopies
  /\ copies' = copies + 1
  /\ sclip' = v
  /\ UNCHANGED <<client, links, c2s, s2c, host, monitoring, seen, polled, writing, known>>
  /\ UNCHANGED <<flips, faults>>

\* macOS: an application takes the pasteboard, then puts something on it.
Take ==
  /\ host = "mac" /\ copies < MaxCopies
  /\ copies' = copies + 1
  /\ sclip' = Taken /\ seen' = FALSE
  /\ UNCHANGED <<client, links, c2s, s2c, host, monitoring, polled, writing, known>>
  /\ UNCHANGED <<flips, faults>>
Put(v) ==
  /\ sclip = Taken
  /\ sclip' = v
  /\ UNCHANGED <<client, links, c2s, s2c, host, monitoring, seen, polled, writing, known>>
  /\ UNCHANGED counts

\* What get_clipboard and get_clipboard_image find.
Readable ==
  {v \in Values : sclip = v /\ (host = "xsel" => v \in Texts)}

PollRemembering ==
  /\ host # "mac" /\ monitoring /\ polled = Nothing
  /\ \E v \in Readable : polled' = v /\ known' = [known EXCEPT ![Kind(v)] = v]
  /\ UNCHANGED <<client, links, c2s, s2c, host, monitoring, sclip, seen, writing, counts>>
Poll ==
  /\ host # "mac" /\ monitoring /\ polled = Nothing
  /\ \E v \in Readable : polled' = v
  /\ UNCHANGED <<client, links, c2s, s2c, host, monitoring, sclip, seen, writing, known>>
  /\ UNCHANGED counts

\* macOS: only a pasteboard that has been taken since is read.
PollMac ==
  /\ host = "mac" /\ monitoring /\ polled = Nothing /\ ~seen
  /\ seen' = TRUE
  /\ polled' = IF sclip \in Values THEN sclip ELSE Nothing
  /\ UNCHANGED <<client, links, c2s, s2c, host, monitoring, sclip, writing, known, counts>>

\* _on_clipboard_change, for every client with the direction open.
Broadcast(v) ==
  LET to == {c \in Clients : conn[c] # "down" /\ Direction(Kind(v), "s2c") \in stog[c]} IN
    /\ \A c \in to : Len(s2c[c]) < WireMax
    /\ s2c' = [c \in Clients |-> IF c \in to THEN Append(s2c[c], v) ELSE s2c[c]]

PollCompare ==
  /\ polled # Nothing
  /\ polled' = Nothing
  /\ \/ /\ polled # known[Kind(polled)]
        /\ known' = [known EXCEPT ![Kind(polled)] = polled]
        /\ Broadcast(polled)
     \/ /\ polled = known[Kind(polled)]
        /\ UNCHANGED <<known, s2c>>
  /\ UNCHANGED <<client, links, c2s, host, monitoring, sclip, seen, writing, counts>>

\* handle_input, while the loop isn't busy writing.
HandleHello(c) ==
  /\ writing = Nothing /\ c2s[c] # <<>> /\ Head(c2s[c]).kind = "hello"
  /\ c2s' = [c2s EXCEPT ![c] = Tail(@)]
  /\ stog' = [stog EXCEPT ![c] = Head(c2s[c]).on] /\ conn' = [conn EXCEPT ![c] = "up"]
  /\ UNCHANGED <<client, ctog, s2c, host, server, counts>>

\* On macOS the pasteboard is taken first, and what is put on it may be refused.
HandleClip(c) ==
  /\ writing = Nothing /\ c2s[c] # <<>> /\ Head(c2s[c]).kind = "clip"
  /\ c2s' = [c2s EXCEPT ![c] = Tail(@)]
  /\ LET v == Head(c2s[c]).payload
         taken == Direction(Kind(v), "c2s") \in stog[c] /\ (host = "xsel" => v \in Texts)
     IN \/ /\ taken
           /\ sclip' = v /\ writing' = v /\ seen' = FALSE
           /\ UNCHANGED faults
        \/ /\ taken /\ host = "mac" /\ faults < MaxFaults
           /\ sclip' = Taken /\ seen' = FALSE
           /\ faults' = faults + 1
           /\ UNCHANGED writing
        \/ /\ ~taken
           /\ UNCHANGED <<sclip, writing, seen, faults>>
  /\ UNCHANGED <<client, links, s2c, host, monitoring, polled, known, copies, flips>>

\* xclip has returned: set_clipboard and set_clipboard_image remember it.
Remember ==
  /\ host # "mac" /\ writing # Nothing
  /\ known' = [known EXCEPT ![Kind(writing)] = writing]
  /\ writing' = Nothing
  /\ UNCHANGED <<client, links, c2s, s2c, host, monitoring, sclip, seen, polled, counts>>

\* macOS: the pasteboard's count is remembered with it, whoever took it meanwhile.
RememberMac ==
  /\ host = "mac" /\ writing # Nothing
  /\ known' = [known EXCEPT ![Kind(writing)] = writing]
  /\ writing' = Nothing
  /\ seen' = TRUE
  /\ UNCHANGED <<client, links, c2s, s2c, host, monitoring, sclip, polled, counts>>

\* xclip times out: logged, and not remembered.
WriteTimesOut ==
  /\ host # "mac" /\ writing # Nothing /\ faults < MaxFaults
  /\ faults' = faults + 1
  /\ writing' = Nothing
  /\ UNCHANGED <<client, links, c2s, s2c, host, monitoring, sclip, seen, polled, known>>
  /\ UNCHANGED <<copies, flips>>
-----------------------------------------------------------------------------
Next ==
  \/ \E c \in Clients :
       \/ \E v \in Values : Copy(c, v)
       \/ \E d \in Directions : Flip(c, d)
       \/ Notice(c) \/ Paste(c) \/ Receive(c)
       \/ Connect(c) \/ Disconnect(c) \/ Lose(c)
       \/ HandleHello(c) \/ HandleClip(c)
  \/ \E v \in Values : DesktopCopy(v) \/ Put(v)
  \/ Take \/ Poll \/ PollMac \/ PollCompare
  \/ Remember \/ RememberMac \/ WriteTimesOut

\* Qt delivers its signals, the loop handles what arrives, the thread polls.
Fairness ==
  /\ \A c \in Clients :
       /\ WF_vars(Notice(c)) /\ WF_vars(Receive(c))
       /\ WF_vars(HandleHello(c)) /\ WF_vars(HandleClip(c))
  /\ WF_vars(Poll) /\ WF_vars(PollMac) /\ WF_vars(PollCompare)
  /\ WF_vars(Remember) /\ WF_vars(RememberMac)

Spec == Init /\ [][Next]_vars /\ Fairness
-----------------------------------------------------------------------------
Open(c, d) == conn[c] = "up" /\ d \in ctog[c] \cap stog[c]

(* A text copied at a client reaches the desktop's clipboard, whatever the
   other clients and the desktop do meanwhile, unless the client copies or
   receives something else first, closes the direction or is disconnected, once
   nothing fails any more. *)
CopyReachesDesktop ==
  \A c \in Clients, v \in Texts :
    (unseen[c] /\ cclip[c] = v /\ Open(c, <<"text", "c2s">>) /\ faults = MaxFaults)
      ~> (sclip = v \/ cclip[c] # v \/ ~Open(c, <<"text", "c2s">>))

(* What the desktop's clipboard holds reaches every client with the direction
   open, if it differs from what the server remembers, unless it is replaced
   or a client sends the very same before the server has looked, once nothing
   is lost on the way any more.  On macOS the server must not have counted its owner before it
   was there, and xsel reads no images. *)
CopyReachesClients ==
  \A c \in Clients, v \in Values :
    (/\ v \in Readable /\ v # known[Kind(v)] /\ ~seen /\ writing = Nothing
     /\ Open(c, <<Kind(v), "s2c">>) /\ faults = MaxFaults)
      ~> (cclip[c] = v \/ sclip # v \/ writing = v \/ ~Open(c, <<Kind(v), "s2c">>))

(* Once the users have stopped copying, pasting and reconnecting, the
   clipboards come to rest: nothing goes round between the ends, though the
   server can read its own write before it remembers it. *)
AtRest == \A c \in Clients : c2s[c] = <<>> /\ s2c[c] = <<>> /\ ~unseen[c]
Settles ==
  (<>[][~\E c \in Clients : Paste(c) \/ Connect(c)]_vars) => <>[]AtRest
=============================================================================
