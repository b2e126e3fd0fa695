------------------------------ MODULE Capture ------------------------------
(***************************************************************************)
(* What a user's runtime captures, and in which size it is encoded: the    *)
(* screen capture with its copy of the monitor layout, the encoder, the    *)
(* streaming loop, the poll for monitors that are plugged in or out, and   *)
(* the crop each client asks for in its hello.  All of them run on one     *)
(* event loop and share one capture and one encoder.                       *)
(*                                                                         *)
(* Captured through mss (not NvFBC), an action is atomic where the code    *)
(* awaits nothing that suspends: broadcasting only puts into queues.       *)
(* Monitors are intervals, all of one height.  Of ffmpeg's command line    *)
(* the size, the encoder and the chroma are kept, not the rates and        *)
(* presets.  Sound is left out; the regions of the JPEG loop are in        *)
(* DirtyRegions.                                                           *)
(***************************************************************************)
EXTENDS Naturals, Sequences, FiniteSets, SequencesExt, FiniteSetsExt, DirtyRegions

CONSTANTS
  Clients,     \* clients of the runtime
  Layouts,     \* monitor layouts, in the order mss numbers them
  Modes,       \* capture modes clients ask for
  FirstIndex,  \* the monitor the server was started for
  Offered,     \* detect_encoders: what ffmpeg has for each codec, best first
  Settings,    \* quality settings clients ask for; full is 4:4:4 or lossless
  MaxChanges   \* bound: changes of the layout

VideoCodecs == {"h264", "h265", "av1"}
Monitor == [name : STRING, x : Nat, w : Nat \ {0}]

ASSUME LayoutsAssumption ==
  /\ Layouts \subseteq Seq(Monitor) \ {<<>>}
  /\ Modes \subseteq {"single", "mirror_all", "pick_one"}
  /\ DOMAIN Offered = VideoCodecs
  /\ \A c \in VideoCodecs : Offered[c] \in Seq([codec : {c}, full : BOOLEAN])
  /\ \A s \in Settings : s.codec \in VideoCodecs \cup {"jpeg"} /\ s.full \in BOOLEAN
  /\ FirstIndex \in Nat /\ MaxChanges \in Nat

VARIABLES
  screen,    \* the layout of the X display
  known,     \* capture: _sct.monitors, as last refreshed
  index,     \* capture: monitor_index
  area,      \* capture: _monitor, and by it width and height
  quality,   \* the settings applied last, by any client
  encoder,   \* width, settings and ffmpeg process, NoEncoder if there is none
  useVideo,  \* use_h264
  loop,      \* the streaming loop: off, video, jpeg
  phase,     \* per client: gone, joining (it has its hello), in
  clients,   \* clients of the runtime in the order they were added
  want,      \* per session: capture_mode, what it picked, its crop_rect, degraded
  told,      \* per client, the layout of the last monitor list it was sent
  garbled,   \* history: an uncropped frame was fed to an encoder of another width
  slipped,   \* history: a change was taken in since the last broadcast by
             \* selecting a monitor, so that the poll doesn't see it
  missed,    \* history: clients who joined across a broadcast
  changes

capture == <<known, index, area>>
encoding == <<quality, encoder, useVideo>>
session == <<phase, clients, want, told, missed>>
vars == <<screen, capture, encoding, loop, session, garbled, slipped, changes>>

NoCrop == [is |-> "none"]
Crop(m) == [is |-> "crop", x |-> m.x, w |-> m.w]
Nobody == [id |-> 0, name |-> ""]    \* nothing picked (the code's id is -1)

Indexes == 0..Max({Len(l) : l \in Layouts})
Picks == [l \in Layouts |-> {[id |-> i, name |-> l[i].name] : i \in 1..Len(l)}]

\* _select_monitor: index 0 is the whole desktop, one too high the primary.
Desktop == [l \in Layouts |->
  [name |-> "all", x |-> 0, w |-> Max({l[i].x + l[i].w : i \in 1..Len(l)})]]
Clamped(l, i) == IF i > Len(l) THEN 1 ELSE i
Area(l, i) == IF i = 0 THEN Desktop[l] ELSE l[i]

Select(l, i) ==
  /\ known' = l /\ index' = Clamped(l, i) /\ area' = Area(l, Clamped(l, i))

-----------------------------------------------------------------------------
(* The encoder.                                                            *)

NoEncoder == [is |-> "none"]

\* check_ffmpeg_available
Supported(s) == s.codec \in VideoCodecs /\ Offered[s.codec] # <<>>

\* select_best_encoder: the first that can do what is asked, else the first.
Best(candidates, full) ==
  LET able == {i \in 1..Len(candidates) : full => candidates[i].full} IN
  candidates[IF able = {} THEN 1 ELSE Min(able)]

Software == [codec |-> "h264", full |-> TRUE]

\* _select_encoder
Chosen == [s \in Settings |->
  LET candidates == Offered[IF s.codec \in VideoCodecs THEN s.codec ELSE "h264"] IN
  IF candidates = <<>> THEN Software ELSE Best(candidates, s.full)]

\* _build_ffmpeg_cmd: 4:4:4 is dropped without a word to the client.
Ffmpeg(w, s) ==
  [w |-> w, codec |-> Chosen[s].codec, full |-> s.full /\ Chosen[s].full]

Encoder(w, s) == [is |-> "encoder", w |-> w, settings |-> s, ffmpeg |-> Ffmpeg(w, s)]

\* EncoderLifecycle.restart
Restart == encoder' = Encoder(area'.w, quality)

\* update_settings; rates and presets wait for the next restart.
UpdateSettings(s) ==
  encoder' = [encoder EXCEPT !.settings = s,
                !.ffmpeg = IF s = encoder.settings THEN @ ELSE Ffmpeg(encoder.w, s)]

\* The codec a frame's header names: that of the settings, not of ffmpeg.
Label(s) == IF s.codec \in {"h265", "av1"} THEN s.codec ELSE "h264"

-----------------------------------------------------------------------------

Default == [mode |-> "mirror_all", pick |-> Nobody, crop |-> NoCrop, degraded |-> FALSE]

TypeOK ==
  /\ screen \in Layouts /\ known \in Layouts /\ slipped \in BOOLEAN
  /\ index \in 0..Len(known) /\ area = Area(known, index)
  /\ quality \in Settings /\ useVideo = Supported(quality)
  /\ encoder \in {NoEncoder} \cup {Encoder(area.w, s) : s \in Settings}
  /\ useVideo => encoder # NoEncoder
  /\ loop \in {"off", "video", "jpeg"}
  /\ phase \in [Clients -> {"gone", "joining", "in"}]
  /\ IsInjective(clients) /\ Range(clients) = {c \in Clients : phase[c] = "in"}
  /\ \A c \in Clients :
       /\ want[c].mode \in Modes \cup {"mirror_all"} /\ want[c].degraded \in BOOLEAN
       /\ want[c].mode = "mirror_all" <=> want[c].crop = NoCrop
       /\ IF phase[c] = "gone" THEN told[c] = <<>> ELSE told[c] \in Layouts
  /\ missed \subseteq Clients /\ garbled \in BOOLEAN /\ changes \in 0..MaxChanges

Init ==
  \E l \in Layouts :
    /\ screen = l /\ known = l /\ slipped = FALSE
    /\ index = Clamped(l, FirstIndex) /\ area = Area(l, Clamped(l, FirstIndex))
    /\ quality \in Settings /\ useVideo = Supported(quality)
    /\ encoder = IF useVideo THEN Encoder(area.w, quality) ELSE NoEncoder
    /\ loop = "off" /\ garbled = FALSE
    /\ phase = [c \in Clients |-> "gone"] /\ clients = <<>>
    /\ want = [c \in Clients |-> Default]
    /\ told = [c \in Clients |-> <<>>]
    /\ missed = {} /\ changes = 0

-----------------------------------------------------------------------------
(* Clients come and go.                                                    *)

\* ws_handler reads the monitor list and waits while it is sent.
SendHello(c) ==
  /\ phase[c] = "gone"
  /\ phase' = [phase EXCEPT ![c] = "joining"]
  /\ told' = [told EXCEPT ![c] = known]
  /\ UNCHANGED <<screen, capture, encoding, loop, clients, want, missed, garbled, slipped, changes>>

\* add_client; the first one starts the streaming loop, of a kind for good.
AddClient(c) ==
  /\ phase[c] = "joining"
  /\ phase' = [phase EXCEPT ![c] = "in"]
  /\ clients' = Append(clients, c)
  /\ loop' = IF loop # "off" THEN loop
             ELSE IF useVideo /\ encoder # NoEncoder THEN "video" ELSE "jpeg"
  /\ UNCHANGED <<screen, capture, encoding, want, told, missed, garbled, slipped, changes>>

RemoveClient(c) ==
  /\ phase[c] # "gone"
  /\ phase' = [phase EXCEPT ![c] = "gone"]
  /\ clients' = SelectSeq(clients, LAMBDA x : x # c)
  /\ want' = [want EXCEPT ![c] = Default] /\ told' = [told EXCEPT ![c] = <<>>]
  /\ missed' = missed \ {c}
  /\ UNCHANGED <<screen, capture, encoding, loop, garbled, slipped, changes>>

-----------------------------------------------------------------------------
(* The crop of a session.                                                  *)

Primary(l) == [id |-> 1, name |-> l[1].name]

\* What a pick means in a layout: the monitor of that number, else of that name.
Targets(l, pick) ==
  LET byId == {p \in Picks[l] : p.id = pick.id} IN
  IF byId # {} THEN byId ELSE {p \in Picks[l] : p.name = pick.name}

\* Not the code: the crop survives the change to the whole desktop.
AppliedKeeping(l, mode, pick) ==
  [mode |-> mode, pick |-> Nobody, crop |-> Crop(l[1]), degraded |-> FALSE]

\* apply_capture_mode of the session's mode and pick.
Applied(l, mode, pick) ==
  LET hit == Targets(l, pick)
      target == IF hit = {} THEN Primary(l) ELSE CHOOSE p \in hit : TRUE IN
  IF mode = "mirror_all" THEN Default
  ELSE [mode |-> mode, pick |-> target, crop |-> Crop(l[target.id]),
        degraded |-> mode = "pick_one" /\ hit = {}]

\* CLIENT_HELLO with a pick the user may have made in another layout.
ClientHello(c, mode, pick) ==
  /\ phase[c] = "in"
  /\ want' = [want EXCEPT ![c] = Applied(known, mode, pick)]
  /\ UNCHANGED <<screen, capture, encoding, loop, phase, clients, told, missed,
                 garbled, slipped, changes>>

-----------------------------------------------------------------------------
(* Monitors.                                                               *)

Plug(l) ==
  /\ changes < MaxChanges /\ l # screen
  /\ screen' = l /\ changes' = changes + 1
  /\ UNCHANGED <<capture, encoding, loop, session, garbled, slipped>>

\* Not the code: the positions aren't compared.
SizesOnly == [l \in Layouts |-> [i \in 0..Len(l) |-> Area(l, i).w]]

\* detect_hotplug: number, size and position of every monitor.
Signature ==
  [l \in Layouts |-> [i \in 0..Len(l) |-> <<Area(l, i).w, Area(l, i).x>>]]

Changed == Signature[known] # Signature[screen]

\* Not the code: clients that see the whole desktop aren't told.
BroadcastCropped ==
  /\ want' = [c \in Clients |->
       IF phase[c] = "in" THEN Applied(screen, want[c].mode, want[c].pick) ELSE want[c]]
  /\ told' = [c \in Clients |->
       IF phase[c] = "in" /\ want[c].crop # NoCrop THEN screen ELSE told[c]]
  /\ missed' = missed \cup {c \in Clients : phase[c] = "joining"}
  /\ slipped' = FALSE

Broadcast ==
  /\ want' = [c \in Clients |->
       IF phase[c] = "in" THEN Applied(screen, want[c].mode, want[c].pick) ELSE want[c]]
  /\ told' = [c \in Clients |-> IF phase[c] = "in" THEN screen ELSE told[c]]
  /\ missed' = missed \cup {c \in Clients : phase[c] = "joining"}
  /\ slipped' = FALSE

\* MonitorHotplug.run, once a second.
Poll ==
  /\ loop # "off"
  /\ Select(screen, index)
  /\ IF Changed
     THEN /\ Broadcast
          /\ IF encoder # NoEncoder THEN Restart ELSE UNCHANGED encoder
     ELSE UNCHANGED <<want, told, missed, slipped, encoder>>
  /\ UNCHANGED <<screen, quality, useVideo, loop, phase, clients, garbled, changes>>

\* Not the code: the encoder keeps its size.
SelectMonitorOnly(i) ==
  /\ clients # <<>>
  /\ Select(screen, i)
  /\ slipped' = (slipped \/ Changed)
  /\ UNCHANGED <<screen, encoding, loop, session, garbled, changes>>

\* SELECT_MONITOR from any client; an encoder is made whatever the codec is.
SelectMonitor(i) ==
  /\ clients # <<>>
  /\ Select(screen, i)
  /\ slipped' = (slipped \/ Changed)
  /\ Restart
  /\ UNCHANGED <<screen, quality, useVideo, loop, session, garbled, changes>>

-----------------------------------------------------------------------------
(* Encoding.                                                               *)

\* Not the code: an encoder that is there is kept when video is turned on.
ApplyQualityKeeping(s) ==
  /\ clients # <<>>
  /\ quality' = s /\ useVideo' = Supported(s)
  /\ encoder' = IF Supported(s) /\ encoder = NoEncoder THEN Encoder(area.w, s) ELSE encoder
  /\ UNCHANGED <<screen, capture, loop, session, garbled, slipped, changes>>

\* apply_quality from any client.  Without video the old encoder stays.
ApplyQuality(s) ==
  /\ clients # <<>>
  /\ quality' = s /\ useVideo' = Supported(s)
  /\ CASE ~Supported(s) -> UNCHANGED encoder
       [] Supported(s) /\ ~useVideo -> encoder' = Encoder(area.w, s)
       [] Supported(s) /\ useVideo -> UpdateSettings(s)
  /\ UNCHANGED <<screen, capture, loop, session, garbled, slipped, changes>>

\* The crop of the first client that has one, for all of them.
CropInUse ==
  LET cropped == SelectSeq(clients, LAMBDA c : want[c].crop # NoCrop) IN
  IF cropped = <<>> THEN NoCrop ELSE want[Head(cropped)].crop

\* capture_raw_bgra_with_crop: the crop's place on the desktop is taken for a
\* place in the captured area, and clamped to it; of nothing a pixel is left.
FrameWidth(crop) ==
  IF crop = NoCrop THEN area.w
  ELSE LET x == Least(crop.x, area.w)
           w == Least(crop.w, area.w - x) IN
       IF w = 0 THEN 1 ELSE w

\* run_h264; a monitor that is gone can't be captured.
FeedFrame ==
  /\ loop = "video" /\ clients # <<>> /\ encoder # NoEncoder
  /\ area.x + area.w <= Desktop[screen].w
  /\ garbled' = (garbled \/ (CropInUse = NoCrop /\ FrameWidth(CropInUse) # encoder.ffmpeg.w))
  /\ UNCHANGED <<screen, capture, encoding, loop, session, slipped, changes>>

AnyPick == {Nobody} \cup UNION {Picks[l] : l \in Layouts}

Next ==
  \/ \E c \in Clients :
       \/ SendHello(c) \/ AddClient(c) \/ RemoveClient(c)
       \/ ClientHello(c, "mirror_all", Nobody)
       \/ \E mode \in Modes \ {"mirror_all"}, pick \in AnyPick : ClientHello(c, mode, pick)
  \/ \E i \in Indexes : SelectMonitor(i)
  \/ \E s \in Settings : ApplyQuality(s)
  \/ \E l \in Layouts : Plug(l)
  \/ Poll \/ FeedFrame

\* The poll's timer fires.
Spec == Init /\ [][Next]_vars /\ WF_vars(Poll)

-----------------------------------------------------------------------------
(* Properties.                                                             *)

\* Whatever is plugged, selected and set in whatever order, the encoder never
\* gets a frame of another size than the one it was started for, as long as
\* nobody crops: ffmpeg reads raw video and would never find the frames'
\* borders again (EncoderLifecycle.restart).
FramesFit == ~garbled

\* As long as the settings ask for a codec ffmpeg has, the frames' headers name
\* the codec they are encoded in, whatever was asked for and selected before:
\* a client decodes with the decoder the header names (apply_quality,
\* _on_encoded_frame).  It fails for other settings, since the loop goes on.
LabelsRight == Supported(quality) => encoder # NoEncoder /\ encoder.ffmpeg.codec = Label(quality)

\* Whichever blocks of a frame changed, the JPEG loop sends all of them and
\* nothing twice: a block it leaves out would stay wrong on the clients until
\* the next full frame (_find_dirty_blocks, _merge_regions).
RegionsCover == loop = "jpeg" => AllExact

\* A session's crop is that of the monitor it is said to show, in the layout
\* the capture works with, though picks, changes and polls come in any order;
\* selecting a monitor between a change and the next poll refreshes the layout
\* behind the poll's back (MonitorHotplug.run, ScreenCapture.switch_monitor).
CropsAreCurrent ==
  ~slipped =>
    \A c \in Clients :
      LET w == want[c] IN
      phase[c] = "in" /\ w.crop # NoCrop =>
        w.pick.id \in 1..Len(known) /\ w.crop = Crop(known[w.pick.id])

\* A change of the monitors reaches every client: the last list it has is in
\* the end that of the desktop, unless it was joining while the list was
\* broadcast, or a monitor was selected before the poll (MonitorHotplug.run).
Behind(c) == phase[c] = "in" /\ told[c] # screen
ChangesAreHeard ==
  \A c \in Clients :
    <>[]Behind(c) => <>[](c \in missed \/ slipped)

=============================================================================
