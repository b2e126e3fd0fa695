-------------------------------- MODULE Usb ---------------------------------
(***************************************************************************)
(* USB devices of the client's machine, used by the desktop: the device    *)
(* panel, each session's USBForwardClient, and the server's manager with   *)
(* its table of what it attached.  The kernels are the real owners of the  *)
(* devices: what the client exports and what the server has imported is    *)
(* changed by usbip commands that may fail, time out after taking effect,  *)
(* or not show a device that is there.                                     *)
(*                                                                         *)
(* All sessions lead from one machine to one runtime.  A Linux client or   *)
(* (Unbinds) a Windows one.  Left out: parsing lsusb and usbip's lists.    *)
(***************************************************************************)
EXTENDS Naturals, Sequences, FiniteSetsExt

CONSTANTS
  Clients,     \* the sessions of one client machine with the runtime
  Devices,     \* the machine's USB devices
  Unbinds,     \* Windows: forwarding and export end together
  MaxRequests  \* bound: requests on their way

ASSUME UsbAssumption == Unbinds \in BOOLEAN /\ MaxRequests \in Nat \ {0}

VARIABLES
  panel,       \* the devices the panel lists
  forwarding,  \* per session: _forwarding
  exported,    \* client's kernel: devices bound for export
  requests,    \* per session: requests on their way to the server
  attached,    \* server: _attached
  imported,    \* server's kernel: devices imported
  slipped      \* history: imports of which a usbip command left no trace

usbVars == <<panel, forwarding, exported, requests, attached, imported, slipped>>

Request(type, d) == [type |-> type, device |-> d]

UsbInit ==
  /\ panel = {} /\ exported = {} /\ attached = {} /\ imported = {} /\ slipped = {}
  /\ forwarding = [s \in Clients |-> {}]
  /\ requests = [s \in Clients |-> <<>>]

-----------------------------------------------------------------------------
(* The client.                                                             *)

UnderWay == FoldSet(LAMBDA s, n : n + Len(requests[s]), 0, Clients)

SendRequest(s, r) ==
  /\ UnderWay < MaxRequests
  /\ requests' = [requests EXCEPT ![s] = Append(@, r)]

\* The list of the machine's devices, when connected and on refresh.
Advertise(s) ==
  /\ SendRequest(s, [type |-> "list"])
  /\ UNCHANGED <<panel, forwarding, exported, attached, imported, slipped>>

\* start_forwarding: usbip or usbipd binds the device, or can't.
Bind(s, d) ==
  \/ /\ exported' = exported \cup {d}
     /\ forwarding' = [forwarding EXCEPT ![s] = @ \cup {d}]
  \/ UNCHANGED <<exported, forwarding>>

\* The request goes out whether the device could be bound or not.
Attach(s, d) ==
  /\ d \in panel
  /\ Bind(s, d)
  /\ SendRequest(s, Request("attach", d))
  /\ UNCHANGED <<panel, attached, imported, slipped>>

\* Devices no longer exported vanish from the server's kernel too.
Unexported(ds) ==
  IF Unbinds THEN exported' = exported \ ds /\ imported' = imported \ ds
  ELSE UNCHANGED <<exported, imported>>

Detach(s, d) ==
  /\ d \in panel
  /\ SendRequest(s, Request("detach", d))
  /\ forwarding' = [forwarding EXCEPT ![s] = @ \ {d}]
  /\ Unexported({d})
  /\ slipped' = slipped \cap imported'
  /\ UNCHANGED <<panel, attached>>

\* Session.cleanup: the requests that are out are lost with the connection.
Cleanup(ss) ==
  /\ Unexported(UNION {forwarding[s] : s \in ss})
  /\ slipped' = slipped \cap imported'
  /\ forwarding' = [s \in Clients |-> IF s \in ss THEN {} ELSE forwarding[s]]
  /\ requests' = [s \in Clients |-> IF s \in ss THEN <<>> ELSE requests[s]]
  /\ UNCHANGED <<panel, attached>>

\* The connection breaks.
LoseRequests(s) ==
  /\ requests[s] # <<>> /\ requests' = [requests EXCEPT ![s] = <<>>]
  /\ UNCHANGED <<panel, forwarding, exported, attached, imported, slipped>>

-----------------------------------------------------------------------------
(* The server.                                                             *)

\* The answer is shown in the panel as if it were a list, so that an answer
\* which isn't one empties it; or the send queue drops it.
Reply(s, shown) ==
  /\ panel' \in {panel, shown}
  /\ requests' = [requests EXCEPT ![s] = Tail(@)]
  /\ UNCHANGED <<forwarding, exported>>

Serves(s, type) ==
  requests[s] # <<>> /\ Head(requests[s]).type = type

HandleList(s) ==
  /\ Serves(s, "list") /\ Reply(s, Devices)
  /\ UNCHANGED <<attached, imported, slipped>>

\* attach_device: known devices count as attached; usbip may time out after the
\* kernel has taken the device.
HandleAttach(s) ==
  /\ Serves(s, "attach") /\ Reply(s, {})
  /\ LET d == Head(requests[s]).device
     IN \/ UNCHANGED <<attached, imported, slipped>>     \* attached already, or refused
        \/ /\ d \notin attached /\ d \in exported
           /\ imported' = imported \cup {d}
           /\ \/ attached' = attached \cup {d} /\ UNCHANGED slipped
              \/ slipped' = slipped \cup {d} /\ UNCHANGED attached

\* Not the code: the entry is dropped before anything has been asked of usbip.
ReleasesForgetting(ds) ==
  \E gone, kept \in SUBSET ds :
    /\ gone \cap kept = {} /\ attached' = attached \ ds
    /\ imported' = imported \ gone
    /\ slipped' = (slipped \cup (ds \ (gone \cup kept))) \cap imported'

\* detach_device for each of some attached devices: done (gone); the command
\* raised, and the entry is kept; its port wasn't found or usbip refused, and the
\* entry is dropped all the same.
Releases(ds) ==
  \E gone, kept \in SUBSET ds :
    /\ gone \cap kept = {} /\ attached' = attached \ (ds \ kept)
    /\ imported' = imported \ gone
    /\ slipped' = (slipped \cup (ds \ (gone \cup kept))) \cap imported'

HandleDetach(s) ==
  /\ Serves(s, "detach") /\ Reply(s, {})
  /\ Releases({Head(requests[s]).device} \cap attached)

\* SessionRuntime.stop.
StopRuntime ==
  /\ Releases(attached)
  /\ UNCHANGED <<panel, forwarding, exported, requests>>

\* A device is pulled out of the client's machine: both kernels lose it.
PullOut(d) ==
  /\ d \in exported
  /\ exported' = exported \ {d} /\ imported' = imported \ {d}
  /\ slipped' = slipped \ {d}
  /\ UNCHANGED <<panel, forwarding, requests, attached>>

-----------------------------------------------------------------------------
\* What the server's kernel has imported is in the manager's table, so that a
\* detach or the runtime's end lets go of it, whichever sessions asked in which
\* order: but for devices one of whose commands failed without being noticed.
ImportsKnown == imported \ slipped \subseteq attached
=============================================================================
