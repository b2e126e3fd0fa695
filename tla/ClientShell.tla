----------------------------- MODULE ClientShell -----------------------------
(***************************************************************************)
(* The client's window with its tabs and its panel of USB devices: the     *)
(* panel acts on the session in front, a session that connects advertises  *)
(* its devices, one that is closed lets go of them.                        *)
(***************************************************************************)
EXTENDS Tabs, Usb

ASSUME SameSessions == Clients = Sessions

shellVars == <<tabVars, usbVars>>

ShellInit == TabsInit /\ UsbInit

OnFront(s) == AtWindow /\ Active(s) /\ io[s] = "connected"

Window ==
  \/ UNCHANGED usbVars /\ \E s \in Sessions : NewSession(s)
  \/ UNCHANGED usbVars /\ \E i \in DOMAIN pages : SwitchTab(i)
  \/ UNCHANGED usbVars /\ \E i, j \in DOMAIN pages : MoveTab(i, j)
  \/ UNCHANGED usbVars /\ \E m \in Machines \cup {AutoPick} : Choose(m)
  \/ UNCHANGED usbVars /\ Cancel
  \/ \E i \in DOMAIN pages : CloseTab(i) /\ Cleanup(Closed(i))
  \/ DisconnectActive /\ Cleanup(Closed(current))
  \/ Quit /\ Cleanup(Range(views))

\* _on_connected advertises the devices; send_input does nothing once the
\* connection is gone again.
Handle(s) ==
  /\ HandleSignal(s)
  /\ IF Head(signals[s]) = "connected" /\ io[s] = "connected" THEN Advertise(s)
     ELSE UNCHANGED usbVars

Thread(s) ==
  /\ \/ BrokerHello(s) \/ Resolve(s) \/ Selected(s)
     \/ NotAssigned(s) \/ Connected(s) \/ Fails(s)
  /\ UNCHANGED usbVars

Panel(s) ==
  /\ OnFront(s)
  /\ Advertise(s) \/ \E d \in Devices : Attach(s, d) \/ Detach(s, d)
  /\ UNCHANGED tabVars

Server(s) ==
  /\ HandleList(s) \/ HandleAttach(s) \/ HandleDetach(s)
  /\ UNCHANGED tabVars

Elsewhere ==
  /\ \/ \E s \in Sessions : LoseRequests(s)
     \/ StopRuntime \/ \E d \in Devices : PullOut(d)
  /\ UNCHANGED tabVars

ShellNext ==
  \/ Window \/ Elsewhere
  \/ \E s \in Sessions : Handle(s) \/ Thread(s) \/ Panel(s) \/ Server(s)

ShellSpec == ShellInit /\ [][ShellNext]_shellVars
=============================================================================
