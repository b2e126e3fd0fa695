-------------------------------- MODULE NvFbc --------------------------------
(***************************************************************************)
(* Capture through NvFBC: a helper process grabs the X screen and writes   *)
(* frames into a pipe, a thread of the server reads them and keeps the     *)
(* latest, and the streaming loop takes that one whenever it wants a       *)
(* frame.  Where the helper gives no frame at the start, mss is used       *)
(* instead.                                                                *)
(*                                                                         *)
(* A frame is its width.  The screen has one monitor.  The 10-bit surface  *)
(* is left out: nothing asks for it.                                       *)
(***************************************************************************)
EXTENDS Naturals, Sequences

CONSTANTS
  Widths,     \* widths of the X screen
  PipeSize,   \* bound: headers and payloads in the pipe
  MaxResets,  \* bound: changes of the screen's mode
  MaxDrifts   \* bound: frames of another size than the one the helper pinned

ASSUME NvFbcAssumption ==
  /\ Widths \subseteq Nat \ {0}
  /\ PipeSize \in Nat \ {0} /\ MaxResets \in Nat /\ MaxDrifts \in Nat

VARIABLES
  xscreen,     \* the width of the X screen
  helper,      \* the process: none, starting, grabbing, writing a frame, dead
  pinned,      \* its frameSize, 0 before the session is created
  pipe,        \* headers and payloads, in the order they were written
  reader,      \* _reader_loop: off, at a header, at a payload, gone
  header,      \* the header it read last
  held,        \* _latest, 0 if there is none
  locked,      \* _width
  source,      \* the capture's frames: none yet, nvfbc, mss
  width,       \* ScreenCapture.width
  encodes,     \* the width the encoder was made for, 0 before
  reselected,  \* history: the poll has taken the width over from mss
  resets, drifts

nvfbcVars == <<xscreen, helper, pinned, pipe, reader, header, held, locked, source, width,
               encodes, reselected, resets, drifts>>
process == <<helper, pinned>>
backend == <<reader, header, held, locked>>
chooser == <<source, width, encodes, reselected>>

Header(w) == [is |-> "header", w |-> w]
Payload(w) == [is |-> "payload", w |-> w]

NvFbcTypeOK ==
  /\ xscreen \in Widths /\ pinned \in Widths \cup {0}
  /\ helper \in {"none", "starting", "grabbing", "writing", "dead"}
  /\ pipe \in Seq([is : {"header", "payload"}, w : Widths]) /\ Len(pipe) <= PipeSize
  /\ reader \in {"off", "header", "payload", "gone"}
  /\ header \in Widths \cup {0} /\ held \in Widths \cup {0} /\ locked \in Widths \cup {0}
  /\ width \in Widths /\ encodes \in Widths \cup {0}
  /\ source \in {"none", "nvfbc", "mss"} /\ reselected \in BOOLEAN

NvFbcInit ==
  /\ xscreen \in Widths
  /\ helper = "none" /\ pinned = 0 /\ pipe = <<>>
  /\ reader = "off" /\ header = 0 /\ held = 0 /\ locked = 0
  /\ source = "none" /\ width = xscreen /\ encodes = 0
  /\ reselected = FALSE /\ resets = 0 /\ drifts = 0

ModeSet ==
  /\ resets < MaxResets /\ resets' = resets + 1
  /\ xscreen' \in Widths \ {xscreen}
  /\ UNCHANGED <<process, pipe, backend, chooser, drifts>>
-----------------------------------------------------------------------------
(* The helper (nvfbc_capture.c).                                           *)

\* The session's frames have the size of the screen it is created on.
CreateSession ==
  /\ helper = "starting"
  /\ helper' = "grabbing" /\ pinned' = xscreen
  /\ UNCHANGED <<xscreen, pipe, backend, chooser, resets, drifts>>

\* A new frame; the pinned size is kept across a mode set, if the driver obeys.
Grab ==
  /\ helper = "grabbing" /\ Len(pipe) < PipeSize
  /\ \E w \in Widths :
       /\ IF w = pinned THEN UNCHANGED drifts ELSE drifts < MaxDrifts /\ drifts' = drifts + 1
       /\ pipe' = Append(pipe, Header(w)) /\ helper' = "writing"
  /\ UNCHANGED <<xscreen, pinned, backend, chooser, resets>>

\* The payload of the header written last.
WritePayload ==
  /\ helper = "writing" /\ Len(pipe) < PipeSize
  /\ \E w \in Widths :
       /\ IF pipe # <<>> THEN w = pipe[Len(pipe)].w ELSE w = header
       /\ pipe' = Append(pipe, Payload(w))
  /\ helper' = "grabbing"
  /\ UNCHANGED <<xscreen, pinned, backend, chooser, resets, drifts>>

\* No session, an error of the driver, a crash: at any point of a frame.
HelperDies ==
  /\ helper \in {"starting", "grabbing", "writing"}
  /\ helper' = "dead"
  /\ UNCHANGED <<xscreen, pinned, pipe, backend, chooser, resets, drifts>>
-----------------------------------------------------------------------------
(* The thread that reads the pipe (_reader_loop).                          *)

Reads(part) == reader = part /\ pipe # <<>> /\ pipe' = Tail(pipe)

ReadHeader ==
  /\ Reads("header")
  /\ header' = Head(pipe).w /\ reader' = "payload"
  /\ UNCHANGED <<xscreen, process, held, locked, chooser, resets, drifts>>

\* Not the code: a frame of any size is taken.
ReadAnyPayload ==
  /\ Reads("payload")
  /\ reader' = "header"
  /\ held' = header /\ locked' = header
  /\ UNCHANGED <<xscreen, process, header, chooser, resets, drifts>>

\* The first frame decides the size; one of another is dropped.
ReadPayload ==
  /\ Reads("payload")
  /\ reader' = "header"
  /\ IF locked # 0 /\ header # locked THEN UNCHANGED <<held, locked>>
     ELSE held' = header /\ locked' = header
  /\ UNCHANGED <<xscreen, process, header, chooser, resets, drifts>>

\* The pipe is at its end, perhaps in the middle of a frame.
ReadEnd ==
  /\ reader \in {"header", "payload"} /\ pipe = <<>> /\ helper \in {"dead", "none"}
  /\ reader' = "gone"
  /\ UNCHANGED <<xscreen, process, pipe, header, held, locked, chooser, resets, drifts>>
-----------------------------------------------------------------------------
(* ScreenCapture and what it is used for.                                  *)

\* NvFBCBackend.__init__, up to the wait for the first frame.
Spawn ==
  /\ source = "none" /\ helper = "none"
  /\ helper' = "starting" /\ reader' = "header"
  /\ UNCHANGED <<xscreen, pinned, pipe, header, held, locked, chooser, resets, drifts>>

\* close: the helper is ended, what it has written is lost.
Close ==
  /\ helper' = "none" /\ pipe' = <<>> /\ reader' = "gone" /\ held' = 0
  /\ UNCHANGED <<pinned, header, locked>>

\* The first frame is there: its size overrides that of mss.
FirstFrame ==
  /\ source = "none" /\ held # 0 /\ helper # "dead"
  /\ source' = "nvfbc" /\ width' = locked /\ encodes' = locked
  /\ UNCHANGED <<xscreen, process, pipe, backend, reselected, resets, drifts>>

\* The helper died, or five seconds are over.
NoFirstFrame ==
  /\ source = "none" /\ helper # "none"
  /\ Close
  /\ source' = "mss" /\ encodes' = width
  /\ UNCHANGED <<xscreen, width, reselected, resets, drifts>>

\* detect_hotplug, which selects mss's monitor again each time; a change of it
\* makes the encoder anew (MonitorHotplug), in that width.
PollScreen ==
  /\ source # "none"
  /\ width' = xscreen
  /\ encodes' = IF xscreen # encodes THEN xscreen ELSE encodes
  /\ reselected' = (reselected \/ (source = "nvfbc" /\ width' # locked))
  /\ UNCHANGED <<xscreen, process, pipe, backend, source, resets, drifts>>

\* SessionRuntime.stop, and a start later.
StopCapture ==
  /\ source # "none"
  /\ source' = "none" /\ width' = xscreen /\ encodes' = 0 /\ reselected' = FALSE
  /\ helper' = "none" /\ pinned' = 0 /\ pipe' = <<>>
  /\ reader' = "off" /\ header' = 0 /\ held' = 0 /\ locked' = 0
  /\ UNCHANGED <<xscreen, resets, drifts>>
-----------------------------------------------------------------------------
NvFbcNext ==
  \/ ModeSet \/ CreateSession \/ Grab \/ WritePayload \/ HelperDies
  \/ ReadHeader \/ ReadPayload \/ ReadEnd
  \/ Spawn \/ FirstFrame \/ NoFirstFrame \/ PollScreen \/ StopCapture

\* capture_raw_bgra: the frame latched last, however old it is.
Served == IF source = "nvfbc" THEN held ELSE width

(* capture_raw_bgra gives the encoder whole frames of the width it was made for,
   through mode sets, sizes that drift, and a helper that dies in the middle of
   a frame (_reader_loop: "encoder would jigsaw"): as long as the poll of the
   monitors hasn't taken the width over from mss. *)
FramesUniform ==
  source # "none" /\ ~reselected => Served # 0 /\ Served = encodes
==============================================================================
